--------------------------- MODULE SchedulerProofs ---------------------------
(* Theorems about Scheduler, for every set of jobs and every bound. *)
EXTENDS Scheduler, FiniteSetTheorems, TLAPS

-----------------------------------------------------------------------------
(* Type correctness.  A key is only ever written for a job that was created, *)
(* which needs to know that only created jobs have a goroutine.              *)

GoroutinesCreated == \A j \in Jobs : pc[j] # "none" => j \in created

\* Before the records are loaded nothing of the scheduler runs.
IdleUntilLoaded == ~up => /\ inMap = {} /\ stopQueue = {}
                          /\ \A j \in Jobs : pc[j] = "none"

TypeInv == TypeOK /\ GoroutinesCreated /\ IdleUntilLoaded

\* The record operators stay within JobRecord.
LEMMA FreshType == FreshJob \in JobRecord
  BY DEF FreshJob, JobRecord, Statuses

LEMMA StatusType ==
  ASSUME NEW rec \in JobRecord, NEW s \in Statuses
  PROVE  [rec EXCEPT !.status = s] \in JobRecord
  BY DEF JobRecord

LEMMA RecoveredType == ASSUME NEW rec \in JobRecord PROVE Recovered(rec) \in JobRecord
  BY DEF JobRecord, Statuses, Recovered

LEMMA SuccessType == ASSUME NEW rec \in JobRecord PROVE RecordSuccess(rec) \in JobRecord
<1>1. rec.succ \in Nat
  BY DEF JobRecord
<1>2. rec.succ + 1 \in Nat /\ 0 \in Nat
  BY <1>1
<1> QED
  BY <1>2, Zenon DEF JobRecord, Statuses, RecordSuccess

LEMMA FailureType == ASSUME NEW rec \in JobRecord PROVE RecordFailure(rec) \in JobRecord
<1> DEFINE disable == rec.consec + 1 >= MaxConsecutive /\ ~rec.autoDisabled
<1>1. rec.fail + 1 \in Nat /\ rec.consec + 1 \in Nat
  <2>1. rec.fail \in Nat /\ rec.consec \in Nat
    BY DEF JobRecord
  <2> QED
    BY <2>1
<1>2. RecordFailure(rec) =
        [rec EXCEPT !.status = "Scheduled", !.fail = @ + 1, !.consec = @ + 1,
                    !.enabled = @ /\ ~disable, !.autoDisabled = @ \/ disable]
  BY DEF RecordFailure
<1>3. disable \in BOOLEAN
  OBVIOUS
<1> HIDE DEF disable
<1>4. (rec.enabled /\ ~disable) \in BOOLEAN /\ (rec.autoDisabled \/ disable) \in BOOLEAN
  OBVIOUS
<1> QED
  BY <1>1, <1>2, <1>4, Zenon DEF JobRecord, Statuses

LEMMA BegunType ==
  ASSUME NEW rec \in JobRecord
  PROVE  [rec EXCEPT !.status = "Executing", !.exec = @ + 1] \in JobRecord
<1>1. rec.exec \in Nat
  BY DEF JobRecord
<1>2. rec.exec + 1 \in Nat
  BY <1>1
<1> QED
  BY <1>2, Zenon DEF JobRecord, Statuses

LEMMA TypeInit == Init => TypeInv
<1> SUFFICES ASSUME Init PROVE TypeInv
  OBVIOUS
<1>1. KeyType /\ GoroutinesCreated /\ IdleUntilLoaded
  BY DEF Init, KeyType, GoroutinesCreated, IdleUntilLoaded
<1>2. ControlType
  BY DEF Init, ControlType, PCs
<1>3. FlagType
  BY DEF Init, FlagType
<1>4. RecordType
  BY FreshType DEF Init, RecordType
<1>5. CountType
  BY DEF Init, CountType
<1> QED
  BY <1>1, <1>2, <1>3, <1>4, <1>5 DEF TypeInv, TypeOK

LEMMA TypeStep == TypeInv /\ [Next]_vars => TypeInv'
<1> SUFFICES ASSUME TypeInv, [Next]_vars PROVE TypeInv'
  OBVIOUS
<1> USE DEF TypeInv, TypeOK, KeyType, ControlType, FlagType, RecordType, CountType,
            GoroutinesCreated, IdleUntilLoaded, PCs
<1>1. ASSUME NEW o \in SaveOutcomes, LoadJobsFromStore(o) PROVE TypeInv'
  <2>1. KeyType' /\ GoroutinesCreated' /\ IdleUntilLoaded'
    BY <1>1 DEF LoadJobsFromStore, apiVars, storeVars, historyVars
  <2>2. ControlType'
    BY <1>1 DEF LoadJobsFromStore, taskVars
  <2>3. FlagType'
    BY <1>1 DEF LoadJobsFromStore, taskVars
  <2>4. RecordType'
    BY <1>1, RecoveredType DEF LoadJobsFromStore, storeVars
  <2>5. CountType'
    BY <1>1 DEF LoadJobsFromStore, KvCall, taskVars, historyVars
  <2> QED
    BY <2>1, <2>2, <2>3, <2>4, <2>5
<1>2. CASE StopAllScheduledJobs
  BY <1>2 DEF StopAllScheduledJobs, JobsToDelete, ManagerFree, goroutineVars, taskVars, storeVars, historyVars
<1>3. ASSUME NEW j \in Jobs, NEW o \in Outcomes, CreateScheduledJob(j, o) PROVE TypeInv'
  BY <1>3, FreshType DEF CreateScheduledJob, ManagerFree, KvCall, PutRecord, Applied, taskVars, apiVars
<1>4. ASSUME NEW j \in Jobs, StopScheduledJob(j) PROVE TypeInv'
  BY <1>4 DEF StopScheduledJob, ManagerFree, goroutineVars, taskVars, storeVars, historyVars
<1>5. ASSUME NEW j \in Jobs, StopJob(j) PROVE TypeInv'
  <2>1. [job[j] EXCEPT !.status = "Stopped"] \in JobRecord
    BY StatusType DEF Statuses
  <2> QED
    BY <1>5, <2>1 DEF StopJob, Cancel, taskVars, storeVars, historyVars
<1>6. ASSUME NEW j \in Jobs, NEW o \in SaveOutcomes, DeleteJob(j, o) PROVE TypeInv'
  BY <1>6, FreshType DEF DeleteJob, KvCall, Applied, goroutineVars, taskVars
<1>7. ASSUME NEW j \in Jobs, NEW reset \in BOOLEAN, NEW enabled \in {"keep", "on", "off"},
             NEW o \in SaveOutcomes, UpdateScheduledJob(j, reset, enabled, o)
      PROVE TypeInv'
  <2> DEFINE flag == enabled = "on" \/ (enabled = "keep" /\ job[j].enabled)
  <2> DEFINE updated == [job[j] EXCEPT !.enabled = flag]
  <2>1. updated \in JobRecord
    <3>1. job[j] \in JobRecord
      OBVIOUS
    <3>2. job[j].enabled \in BOOLEAN
      BY <3>1 DEF JobRecord
    <3>3. flag \in BOOLEAN
      BY Zenon
    <3> QED
      BY <3>1, <3>3, Zenon DEF JobRecord
  <2>2. job' = [job EXCEPT ![j] = updated] /\ PutRecord(j, updated, o)
    BY <1>7 DEF UpdateScheduledJob
  <2> HIDE DEF flag, updated
  <2>4. KeyType' /\ GoroutinesCreated' /\ IdleUntilLoaded'
    BY <1>7, <2>2 DEF UpdateScheduledJob, Found, PutRecord, apiVars
  <2>5. ControlType'
    BY <1>7 DEF UpdateScheduledJob, taskVars
  <2>6. FlagType'
    BY <1>7 DEF UpdateScheduledJob, taskVars
  <2>7. RecordType'
    <3>1. snap' = snap
      BY <1>7 DEF UpdateScheduledJob
    <3> QED
      BY <2>1, <2>2, <3>1 DEF PutRecord
  <2>8. CountType'
    BY <1>7 DEF UpdateScheduledJob, KvCall, taskVars
  <2> QED
    BY <2>4, <2>5, <2>6, <2>7, <2>8
<1>8. CASE Crash
  <2>1. KeyType' /\ GoroutinesCreated' /\ IdleUntilLoaded'
    BY <1>8 DEF Crash, storeVars
  <2>2. ControlType'
    BY <1>8 DEF Crash
  <2>3. FlagType'
    BY <1>8 DEF Crash
  <2>4. RecordType'
    BY <1>8, FreshType DEF Crash, storeVars
  <2>5. CountType'
    BY <1>8 DEF Crash
  <2> QED
    BY <2>1, <2>2, <2>3, <2>4, <2>5
<1>9. ASSUME NEW j \in Jobs, StartLoop(j) PROVE TypeInv'
  <2>1. [job[j] EXCEPT !.status = "Scheduled"] \in JobRecord
    BY StatusType DEF Statuses
  <2> QED
    BY <1>9, <2>1 DEF StartLoop, taskVars, apiVars, storeVars, historyVars
<1>10. ASSUME NEW j \in Jobs, LoopTick(j) PROVE TypeInv'
  BY <1>10 DEF LoopTick, AfterTick, taskVars, apiVars, storeVars, historyVars
<1>11. ASSUME NEW j \in Jobs, LoopExit(j) PROVE TypeInv'
  BY <1>11 DEF LoopExit, taskVars, apiVars, storeVars, historyVars
<1>12. ASSUME NEW j \in Jobs, ExecuteBegin(j) PROVE TypeInv'
  <2>1. [job[j] EXCEPT !.status = "Executing", !.exec = @ + 1] \in JobRecord
    BY BegunType
  <2> QED
    BY <1>12, <2>1 DEF ExecuteBegin, taskVars, apiVars, storeVars
<1>13. ASSUME NEW j \in Jobs, SaveSnapshot(j) PROVE TypeInv'
  BY <1>13 DEF SaveSnapshot, taskVars, apiVars, storeVars, historyVars
<1>14. ASSUME NEW j \in Jobs, NEW o \in SaveOutcomes, PutSnapshot(j, o) PROVE TypeInv'
  <2>1. job[j].exec \in Nat
    BY DEF JobRecord
  <2> QED
    BY <1>14, <2>1, FreshType DEF PutSnapshot, KvCall, PutRecord, taskVars, apiVars, historyVars
<1>15. ASSUME NEW j \in Jobs, AwaitSuccess(j) PROVE TypeInv'
  BY <1>15, SuccessType DEF AwaitSuccess, LeaveExecution, apiVars, storeVars, historyVars
<1>16. ASSUME NEW j \in Jobs, AwaitFailure(j) PROVE TypeInv'
  BY <1>16, FailureType DEF AwaitFailure, LeaveExecution, apiVars, storeVars, historyVars
<1>17. ASSUME NEW j \in Jobs, Tick(j) PROVE TypeInv'
  BY <1>17 DEF Tick, taskVars, apiVars, storeVars, historyVars
<1>18. ASSUME NEW j \in Jobs, Deadline(j) PROVE TypeInv'
  BY <1>18 DEF Deadline, goroutineVars, apiVars, storeVars, historyVars
<1>19. ASSUME NEW j \in Jobs, NEW n \in tasks[j], NEW r \in {"ok", "err"}, TaskEnd(j, n, r)
       PROVE TypeInv'
  BY <1>19 DEF TaskEnd, goroutineVars, apiVars, storeVars, historyVars
<1>20. CASE UNCHANGED vars
  BY <1>20 DEF vars, goroutineVars, taskVars, apiVars, storeVars, historyVars
<1> QED
  BY <1>1, <1>2, <1>3, <1>4, <1>5, <1>6, <1>7, <1>8, <1>9, <1>10, <1>11, <1>12, <1>13,
     <1>14, <1>15, <1>16, <1>17, <1>18, <1>19, <1>20
  DEF Next, Api, Goroutine, Environment

\* Every variable keeps its type, and the keys in memory, in the store and in a
\* deletion under way are those of jobs that were created.
THEOREM TypeCorrect == Spec => []TypeOK
<1>1. TypeInv => TypeOK
  BY DEF TypeInv
<1> QED
  BY TypeInit, TypeStep, <1>1, PTL DEF Spec

-----------------------------------------------------------------------------
(* The failure streak and the auto-disabled flag. *)

\* Every operation on a record keeps the streak and the flag in step.
LEMMA StreakFresh == StreakMatchesFlag(FreshJob)
  BY BoundAssumption DEF StreakMatchesFlag, FreshJob

LEMMA StreakRecovered ==
  ASSUME NEW rec \in JobRecord, StreakMatchesFlag(rec)
  PROVE  StreakMatchesFlag(Recovered(rec))
  BY DEF StreakMatchesFlag, Recovered, JobRecord

LEMMA StreakOther ==
  ASSUME NEW rec \in JobRecord, StreakMatchesFlag(rec), NEW s, NEW e, NEW n
  PROVE  /\ StreakMatchesFlag([rec EXCEPT !.status = s])
         /\ StreakMatchesFlag([rec EXCEPT !.enabled = e])
         /\ StreakMatchesFlag([rec EXCEPT !.status = s, !.exec = n])
  BY DEF StreakMatchesFlag, JobRecord

LEMMA StreakSuccess ==
  ASSUME NEW rec \in JobRecord
  PROVE  StreakMatchesFlag(RecordSuccess(rec))
<1>1. RecordSuccess(rec).consec = 0 /\ RecordSuccess(rec).autoDisabled = FALSE
  BY DEF RecordSuccess, JobRecord
<1> QED
  BY <1>1, BoundAssumption DEF StreakMatchesFlag

LEMMA StreakFailure ==
  ASSUME NEW rec \in JobRecord, StreakMatchesFlag(rec)
  PROVE  StreakMatchesFlag(RecordFailure(rec))
<1> DEFINE disable == rec.consec + 1 >= MaxConsecutive /\ ~rec.autoDisabled
<1>1. /\ RecordFailure(rec).consec = rec.consec + 1
      /\ RecordFailure(rec).autoDisabled = (rec.autoDisabled \/ disable)
  BY DEF RecordFailure, JobRecord
<1>2. rec.consec \in Nat
  BY DEF JobRecord
<1>3. rec.consec >= MaxConsecutive => rec.consec + 1 >= MaxConsecutive
  BY <1>2, BoundAssumption
<1>4. rec.consec + 1 >= MaxConsecutive <=> (rec.autoDisabled \/ disable)
  BY <1>3, Zenon DEF StreakMatchesFlag
<1> QED
  BY <1>1, <1>4, Zenon DEF StreakMatchesFlag

LEMMA StreakStep == TypeInv /\ AutoDisableConsistent /\ [Next]_vars => AutoDisableConsistent'
<1> SUFFICES ASSUME TypeInv, AutoDisableConsistent, [Next]_vars PROVE AutoDisableConsistent'
  OBVIOUS
<1> USE DEF AutoDisableConsistent
<1>t. /\ job \in [Jobs -> JobRecord] /\ snap \in [Jobs -> JobRecord]
      /\ store \in [Jobs -> JobRecord]
  BY DEF TypeInv, TypeOK, RecordType
<1>1. ASSUME NEW o \in SaveOutcomes, LoadJobsFromStore(o) PROVE AutoDisableConsistent'
  BY <1>1, <1>t, StreakRecovered DEF LoadJobsFromStore, storeVars
<1>2. ASSUME NEW j \in Jobs, NEW o \in Outcomes, CreateScheduledJob(j, o)
      PROVE AutoDisableConsistent'
  BY <1>2, <1>t, StreakFresh DEF CreateScheduledJob, PutRecord
<1>3. ASSUME NEW j \in Jobs, StopJob(j) PROVE AutoDisableConsistent'
  BY <1>3, <1>t, StreakOther DEF StopJob, storeVars
<1>4. ASSUME NEW j \in Jobs, NEW o \in SaveOutcomes, DeleteJob(j, o)
      PROVE AutoDisableConsistent'
  BY <1>4, <1>t, StreakFresh DEF DeleteJob, goroutineVars
<1>5. ASSUME NEW j \in Jobs, NEW reset \in BOOLEAN, NEW enabled \in {"keep", "on", "off"},
             NEW o \in SaveOutcomes, UpdateScheduledJob(j, reset, enabled, o)
      PROVE AutoDisableConsistent'
  <2> DEFINE flag == enabled = "on" \/ (enabled = "keep" /\ job[j].enabled)
             updated == [job[j] EXCEPT !.enabled = flag]
  <2>1. StreakMatchesFlag(updated)
    BY <1>t, StreakOther
  <2>2. job' = [job EXCEPT ![j] = updated] /\ PutRecord(j, updated, o) /\ snap' = snap
    BY <1>5 DEF UpdateScheduledJob
  <2> HIDE DEF flag, updated
  <2> QED
    BY <1>t, <2>1, <2>2 DEF PutRecord
<1>6. CASE Crash
  BY <1>6, <1>t, StreakFresh DEF Crash, storeVars
<1>7. ASSUME NEW j \in Jobs, StartLoop(j) PROVE AutoDisableConsistent'
  BY <1>7, <1>t, StreakOther DEF StartLoop, storeVars
<1>8. ASSUME NEW j \in Jobs, ExecuteBegin(j) PROVE AutoDisableConsistent'
  BY <1>8, <1>t, StreakOther DEF ExecuteBegin, storeVars
<1>9. ASSUME NEW j \in Jobs, SaveSnapshot(j) PROVE AutoDisableConsistent'
  BY <1>9, <1>t DEF SaveSnapshot, storeVars
<1>10. ASSUME NEW j \in Jobs, NEW o \in SaveOutcomes, PutSnapshot(j, o)
       PROVE AutoDisableConsistent'
  BY <1>10, <1>t, StreakFresh DEF PutSnapshot, PutRecord
<1>11. ASSUME NEW j \in Jobs, AwaitSuccess(j) PROVE AutoDisableConsistent'
  BY <1>11, <1>t, StreakSuccess DEF AwaitSuccess, storeVars
<1>12. ASSUME NEW j \in Jobs, AwaitFailure(j) PROVE AutoDisableConsistent'
  BY <1>12, <1>t, StreakFailure DEF AwaitFailure, storeVars
<1>13. ASSUME UNCHANGED <<job, snap, store>> PROVE AutoDisableConsistent'
  BY <1>13
<1> QED
  BY <1>1, <1>2, <1>3, <1>4, <1>5, <1>6, <1>7, <1>8, <1>9, <1>10, <1>11, <1>12, <1>13
  DEF Next, Api, Goroutine, Environment, StopAllScheduledJobs, StopScheduledJob, LoopTick,
      LoopExit, Tick, Deadline, TaskEnd, goroutineVars, storeVars, vars

\* In every copy of a job - object, snapshot, stored record - the job is marked
\* auto-disabled exactly when its failure streak has reached the limit, through
\* races, failing stores, crashes and recovery.
THEOREM StreakCorrect == Spec => []AutoDisableConsistent
<1>1. Init => AutoDisableConsistent
  BY StreakFresh DEF Init, AutoDisableConsistent
<1> QED
  BY TypeInit, TypeStep, StreakStep, <1>1, PTL DEF Spec

-----------------------------------------------------------------------------
(* Every execution is accounted for.  The strengthening adds the snapshot,   *)
(* and that a record about to be recovered misses at most one execution for  *)
(* each crash so far: the crash that ended its process has been counted.     *)

AccountInv ==
    /\ ExecutionsAccounted
    /\ \A j \in Jobs : Balanced(snap[j], 0, crashes + 1)
    /\ ~up => \A j \in Jobs : Balanced(store[j], 0, crashes)

LEMMA BalancedFresh == ASSUME NEW n \in Nat PROVE Balanced(FreshJob, 0, n)
  BY DEF Balanced, FreshJob

LEMMA BalancedWider ==
  ASSUME NEW rec \in JobRecord, NEW a \in {0, 1}, NEW n \in Nat, Balanced(rec, a, a + n)
  PROVE  Balanced(rec, 0, n + 1) /\ Balanced(rec, a, a + n + 1)
  BY DEF Balanced, JobRecord

LEMMA BalancedStep ==
  ASSUME NEW rec \in JobRecord, NEW a, NEW b, Balanced(rec, a, b), NEW s, NEW e
  PROVE  /\ Balanced(Recovered(rec), a, b)
         /\ Balanced([rec EXCEPT !.status = s], a, b)
         /\ Balanced([rec EXCEPT !.enabled = e], a, b)
  BY DEF Balanced, JobRecord, Recovered

LEMMA BalancedBegin ==
  ASSUME NEW rec \in JobRecord, NEW n \in Nat, Balanced(rec, 0, n)
  PROVE  Balanced([rec EXCEPT !.status = "Executing", !.exec = @ + 1], 1, 1 + n)
<1> DEFINE next == [rec EXCEPT !.status = "Executing", !.exec = @ + 1]
<1>1. next.exec = rec.exec + 1 /\ next.succ = rec.succ /\ next.fail = rec.fail
  BY DEF JobRecord
<1>2. rec.exec \in Nat /\ rec.succ \in Nat /\ rec.fail \in Nat
  BY DEF JobRecord
<1> HIDE DEF next
<1>3. Balanced(next, 1, 1 + n)
  BY <1>1, <1>2 DEF Balanced
<1> QED
  BY <1>3 DEF next

LEMMA BalancedEnd ==
  ASSUME NEW rec \in JobRecord, NEW n \in Nat, Balanced(rec, 1, 1 + n)
  PROVE  Balanced(RecordSuccess(rec), 0, n) /\ Balanced(RecordFailure(rec), 0, n)
<1>1. /\ RecordSuccess(rec).exec = rec.exec
      /\ RecordSuccess(rec).succ = rec.succ + 1
      /\ RecordSuccess(rec).fail = rec.fail
  BY DEF RecordSuccess, JobRecord
<1>2. /\ RecordFailure(rec).exec = rec.exec
      /\ RecordFailure(rec).succ = rec.succ
      /\ RecordFailure(rec).fail = rec.fail + 1
  BY DEF RecordFailure, JobRecord
<1>3. rec.exec \in Nat /\ rec.succ \in Nat /\ rec.fail \in Nat
  BY DEF JobRecord
<1> QED
  BY <1>1, <1>2, <1>3 DEF Balanced

LEMMA AccountStep == TypeInv /\ AccountInv /\ [Next]_vars => AccountInv'
<1> SUFFICES ASSUME TypeInv, AccountInv, [Next]_vars PROVE AccountInv'
  OBVIOUS
<1> USE DEF AccountInv, ExecutionsAccounted, InFlight, Executing
<1>t. /\ job \in [Jobs -> JobRecord] /\ snap \in [Jobs -> JobRecord]
      /\ store \in [Jobs -> JobRecord] /\ pc \in [Jobs -> PCs]
      /\ crashes \in Nat /\ crashes + 1 \in Nat
  BY DEF TypeInv, TypeOK, RecordType, ControlType, CountType
<1>d. ~up => stopQueue = {} /\ halted = {} /\ \A j \in Jobs : pc[j] = "none"
  BY DEF TypeInv, TypeOK, KeyType, IdleUntilLoaded
<1>1. ASSUME NEW o \in SaveOutcomes, LoadJobsFromStore(o) PROVE AccountInv'
  <2>1. /\ up' = TRUE /\ snap' = snap /\ store' = store /\ crashes' = crashes
        /\ \A j \in Jobs : pc'[j] \in {"none", "spawned"}
        /\ \A j \in Jobs : job'[j] \in {Recovered(store[j]), job[j]}
    BY <1>1 DEF LoadJobsFromStore, storeVars
  <2>2. \A j \in Jobs : Balanced(job[j], 0, crashes) /\ Balanced(store[j], 0, crashes)
    <3>1. ~up /\ 0 + crashes = crashes
      BY <1>1, <1>t DEF LoadJobsFromStore
    <3> QED
      BY <3>1, <1>d
  <2>3. \A j \in Jobs : Balanced(job'[j], 0, crashes)
    <3> SUFFICES ASSUME NEW j \in Jobs PROVE Balanced(job'[j], 0, crashes)
      OBVIOUS
    <3>1. job[j] \in JobRecord /\ store[j] \in JobRecord
      BY <1>t
    <3>2. Balanced(Recovered(store[j]), 0, crashes)
      BY <2>2, <3>1, BalancedStep
    <3> QED
      BY <2>1, <2>2, <3>2
  <2>4. \A j \in Jobs : InFlight(j)' = 0
    BY <2>1
  <2> QED
    BY <2>1, <2>3, <2>4, <1>t
<1>2. ASSUME NEW j \in Jobs, NEW o \in Outcomes, CreateScheduledJob(j, o) PROVE AccountInv'
  BY <1>2, <1>t, BalancedFresh DEF CreateScheduledJob, ManagerFree, PutRecord
<1>3. ASSUME NEW j \in Jobs, StopJob(j) PROVE AccountInv'
  BY <1>3, <1>t, BalancedStep DEF StopJob, storeVars
<1>4. ASSUME NEW j \in Jobs, NEW o \in SaveOutcomes, DeleteJob(j, o) PROVE AccountInv'
  BY <1>4, <1>t, <1>d, BalancedFresh DEF DeleteJob, goroutineVars
<1>5. ASSUME NEW j \in Jobs, NEW reset \in BOOLEAN, NEW enabled \in {"keep", "on", "off"},
             NEW o \in SaveOutcomes, UpdateScheduledJob(j, reset, enabled, o)
      PROVE AccountInv'
  <2> DEFINE flag == enabled = "on" \/ (enabled = "keep" /\ job[j].enabled)
             updated == [job[j] EXCEPT !.enabled = flag]
  <2>1. Balanced(updated, InFlight(j), InFlight(j) + crashes) /\ updated \in JobRecord
    <3>1. Balanced(updated, InFlight(j), InFlight(j) + crashes)
      BY <1>t, BalancedStep
    <3>2. flag \in BOOLEAN /\ job[j] \in JobRecord
      BY <1>t, Zenon DEF JobRecord
    <3> QED
      BY <3>1, <3>2, Zenon DEF JobRecord
  <2>2. /\ job' = [job EXCEPT ![j] = updated] /\ PutRecord(j, updated, o)
        /\ up' = up /\ up = TRUE /\ pc' = pc /\ snap' = snap /\ crashes' = crashes
    BY <1>5 DEF UpdateScheduledJob, ManagerFree
  <2> HIDE DEF flag, updated
  <2>3. Balanced(updated, 0, crashes + 1)
    BY <2>1, <1>t, BalancedWider
  <2> QED
    BY <1>t, <2>1, <2>2, <2>3 DEF PutRecord
<1>6. CASE Crash
  <2>1. crashes' = crashes + 1 /\ store' = store /\ job' = [j \in Jobs |-> FreshJob]
        /\ snap' = job' /\ pc' = [j \in Jobs |-> "none"]
    BY <1>6 DEF Crash, storeVars
  <2>2. \A j \in Jobs : Balanced(store[j], 0, crashes + 2)
    BY <1>t DEF Balanced, JobRecord
  <2> QED
    BY <2>1, <2>2, <1>t, BalancedFresh
<1>7. ASSUME NEW j \in Jobs, StartLoop(j) PROVE AccountInv'
  BY <1>7, <1>t, <1>d, BalancedStep DEF StartLoop, storeVars
<1>8. ASSUME NEW j \in Jobs, ExecuteBegin(j) PROVE AccountInv'
  <2> DEFINE begun == [job[j] EXCEPT !.status = "Executing", !.exec = @ + 1]
  <2>1. /\ up' = up /\ snap' = snap /\ store' = store /\ crashes' = crashes
        /\ pc[j] = "exec" /\ pc' = [pc EXCEPT ![j] = "saveBegin"]
        /\ job' = [job EXCEPT ![j] = begun]
    BY <1>8 DEF ExecuteBegin, storeVars
  <2>2. Balanced(job[j], 0, crashes)
    <3>1. InFlight(j) = 0 /\ 0 + crashes = crashes
      BY <2>1, <1>t
    <3> QED
      BY <3>1
  <2>3. Balanced(begun, 1, 1 + crashes)
    BY <2>2, <1>t, BalancedBegin
  <2> HIDE DEF begun
  <2> QED
    BY <2>1, <2>3, <1>t
<1>9. ASSUME NEW j \in Jobs, SaveSnapshot(j) PROVE AccountInv'
  <2>1. Balanced(job[j], 0, crashes + 1)
    BY <1>t, BalancedWider
  <2> QED
    BY <1>9, <2>1, <1>t DEF SaveSnapshot, storeVars
<1>10. ASSUME NEW j \in Jobs, NEW o \in SaveOutcomes, PutSnapshot(j, o) PROVE AccountInv'
  BY <1>10, <1>t, <1>d, BalancedFresh DEF PutSnapshot, PutRecord
<1>11. ASSUME NEW j \in Jobs, AwaitSuccess(j) PROVE AccountInv'
  BY <1>11, <1>t, BalancedEnd DEF AwaitSuccess, LeaveExecution, storeVars
<1>12. ASSUME NEW j \in Jobs, AwaitFailure(j) PROVE AccountInv'
  BY <1>12, <1>t, BalancedEnd DEF AwaitFailure, LeaveExecution, storeVars
<1>13. ASSUME NEW j \in Jobs, LoopTick(j) PROVE AccountInv'
  BY <1>13, <1>t DEF LoopTick, AfterTick, storeVars
<1>14. ASSUME NEW j \in Jobs, LoopExit(j) PROVE AccountInv'
  BY <1>14, <1>t DEF LoopExit, storeVars
<1>15. ASSUME UNCHANGED <<up, job, snap, store, pc, crashes>> PROVE AccountInv'
  BY <1>15
<1> QED
  BY <1>1, <1>2, <1>3, <1>4, <1>5, <1>6, <1>7, <1>8, <1>9, <1>10, <1>11, <1>12, <1>13,
     <1>14, <1>15
  DEF Next, Api, Goroutine, Environment, StopAllScheduledJobs, StopScheduledJob,
      Tick, Deadline, TaskEnd, goroutineVars, storeVars, vars

\* No execution is counted twice, and none is forgotten but the one in flight
\* and at most one for each crash.
THEOREM AccountCorrect == Spec => []ExecutionsAccounted
<1>1. Init => AccountInv
  <2>1. \A n \in Nat : Balanced(FreshJob, 0, n)
    BY BalancedFresh
  <2> QED
    BY <2>1 DEF Init, AccountInv, ExecutionsAccounted, InFlight, Executing
<1>2. AccountInv => ExecutionsAccounted
  BY DEF AccountInv
<1> QED
  BY TypeInit, TypeStep, AccountStep, <1>1, <1>2, PTL DEF Spec

-----------------------------------------------------------------------------
(* A pause takes effect after at most one more execution.  The goroutine     *)
(* decides on an execution while the job is enabled, when the count is 0,    *)
(* and is past that decision when the execution begins.                      *)

PauseInv ==
    \A j \in Jobs :
        /\ sincePause[j] <= 1
        /\ job[j].enabled \/ pc[j] = "exec" \/ j \notin created \/ ~up => sincePause[j] = 0

\* The only operation that re-enables a record is a request; a failure disables.
LEMMA EnabledAfter ==
  ASSUME NEW rec \in JobRecord, NEW s, NEW n
  PROVE  /\ Recovered(rec).enabled = rec.enabled
         /\ RecordSuccess(rec).enabled = rec.enabled
         /\ RecordFailure(rec).enabled => rec.enabled
         /\ [rec EXCEPT !.status = s].enabled = rec.enabled
         /\ [rec EXCEPT !.status = s, !.exec = n].enabled = rec.enabled
  BY DEF Recovered, RecordSuccess, RecordFailure, JobRecord

LEMMA PauseStep == TypeInv /\ PauseInv /\ [Next]_vars => PauseInv'
<1> SUFFICES ASSUME TypeInv, PauseInv, [Next]_vars PROVE PauseInv'
  OBVIOUS
<1> USE DEF PauseInv
<1>t. /\ job \in [Jobs -> JobRecord] /\ store \in [Jobs -> JobRecord]
      /\ pc \in [Jobs -> PCs] /\ sincePause \in [Jobs -> Nat]
      /\ inMap \subseteq created /\ stopQueue \subseteq inMap
      /\ \A j \in Jobs : pc[j] # "none" => j \in created /\ up
  BY DEF TypeInv, TypeOK, RecordType, ControlType, CountType, KeyType, GoroutinesCreated,
         IdleUntilLoaded
<1>1. ASSUME NEW o \in SaveOutcomes, LoadJobsFromStore(o) PROVE PauseInv'
  <2>1. /\ ~up /\ sincePause' = sincePause
    BY <1>1 DEF LoadJobsFromStore, historyVars
  <2> QED
    BY <2>1
<1>2. ASSUME NEW j \in Jobs, NEW o \in Outcomes, CreateScheduledJob(j, o) PROVE PauseInv'
  BY <1>2, <1>t DEF CreateScheduledJob, ManagerFree
<1>3. ASSUME NEW j \in Jobs, StopJob(j) PROVE PauseInv'
  BY <1>3, <1>t, EnabledAfter DEF StopJob, historyVars
<1>4. ASSUME NEW j \in Jobs, NEW reset \in BOOLEAN, NEW enabled \in {"keep", "on", "off"},
             NEW o \in SaveOutcomes, UpdateScheduledJob(j, reset, enabled, o)
      PROVE PauseInv'
  <2>1. /\ up' = up /\ pc' = pc /\ created' = created
        /\ sincePause' = [sincePause EXCEPT ![j] = IF enabled = "keep" THEN @ ELSE 0]
        /\ \A k \in Jobs \ {j} : job'[k] = job[k]
    BY <1>4, <1>t DEF UpdateScheduledJob
  <2>2. enabled = "keep" => job'[j].enabled = job[j].enabled
    BY <1>4, <1>t DEF UpdateScheduledJob, JobRecord
  <2> QED
    BY <2>1, <2>2, <1>t
<1>5. CASE Crash
  BY <1>5 DEF Crash
<1>6. ASSUME NEW j \in Jobs, StartLoop(j) PROVE PauseInv'
  BY <1>6, <1>t, EnabledAfter DEF StartLoop, historyVars
<1>7. ASSUME NEW j \in Jobs, LoopTick(j) PROVE PauseInv'
  BY <1>7, <1>t DEF LoopTick, AfterTick, historyVars
<1>8. ASSUME NEW j \in Jobs, ExecuteBegin(j) PROVE PauseInv'
  <2>1. /\ up' = up /\ pc[j] = "exec" /\ pc' = [pc EXCEPT ![j] = "saveBegin"]
        /\ created' = created
        /\ sincePause' = [sincePause EXCEPT ![j] = IF job[j].enabled THEN @ ELSE @ + 1]
    BY <1>8 DEF ExecuteBegin
  <2>2. /\ job'[j].enabled = job[j].enabled
        /\ \A k \in Jobs \ {j} : job'[k] = job[k]
    BY <1>8, <1>t DEF ExecuteBegin, JobRecord
  <2>3. sincePause[j] = 0 /\ up /\ j \in created
    BY <2>1, <1>t
  <2> QED
    BY <2>1, <2>2, <2>3, <1>t
<1>9. ASSUME NEW j \in Jobs, AwaitSuccess(j) PROVE PauseInv'
  BY <1>9, <1>t, EnabledAfter DEF AwaitSuccess, LeaveExecution, historyVars
<1>10. ASSUME NEW j \in Jobs, AwaitFailure(j) PROVE PauseInv'
  BY <1>10, <1>t, EnabledAfter DEF AwaitFailure, LeaveExecution, historyVars
<1>11. ASSUME NEW j \in Jobs, LoopExit(j) PROVE PauseInv'
  BY <1>11, <1>t DEF LoopExit, historyVars
<1>12. ASSUME NEW j \in Jobs, SaveSnapshot(j) PROVE PauseInv'
  BY <1>12, <1>t DEF SaveSnapshot, historyVars
<1>13. ASSUME NEW j \in Jobs, NEW o \in SaveOutcomes, PutSnapshot(j, o) PROVE PauseInv'
  BY <1>13, <1>t DEF PutSnapshot, historyVars
<1>14. ASSUME UNCHANGED <<up, job, pc, created, sincePause>> PROVE PauseInv'
  BY <1>14
<1> QED
  BY <1>1, <1>2, <1>3, <1>4, <1>5, <1>6, <1>7, <1>8, <1>9, <1>10, <1>11, <1>12, <1>13, <1>14
  DEF Next, Api, Goroutine, Environment, StopAllScheduledJobs, StopScheduledJob, DeleteJob,
      Tick, Deadline, TaskEnd, goroutineVars, historyVars, vars

\* Once a job is disabled at most one more execution of it begins.
THEOREM PauseCorrect == Spec => []PauseTakesEffect
<1>1. Init => PauseInv
  BY DEF Init, PauseInv
<1>2. PauseInv => PauseTakesEffect
  BY DEF PauseInv, PauseTakesEffect
<1> QED
  BY TypeInit, TypeStep, PauseStep, <1>1, <1>2, PTL DEF Spec

-----------------------------------------------------------------------------
(* A job shows Executing only while its goroutine is inside execute(). *)

LEMMA StatusAfter ==
  ASSUME NEW rec \in JobRecord, NEW s, NEW e
  PROVE  /\ Recovered(rec).status # "Executing"
         /\ RecordSuccess(rec).status = "Scheduled"
         /\ RecordFailure(rec).status = "Scheduled"
         /\ FreshJob.status = "Scheduled"
         /\ [rec EXCEPT !.status = s].status = s
         /\ [rec EXCEPT !.enabled = e].status = rec.status
  BY DEF Recovered, RecordSuccess, RecordFailure, FreshJob, JobRecord

LEMMA LiveStep == TypeInv /\ ExecutingIsLive /\ [Next]_vars => ExecutingIsLive'
<1> SUFFICES ASSUME TypeInv, ExecutingIsLive, [Next]_vars PROVE ExecutingIsLive'
  OBVIOUS
<1> USE DEF ExecutingIsLive, Executing
<1>t. /\ job \in [Jobs -> JobRecord] /\ store \in [Jobs -> JobRecord]
      /\ pc \in [Jobs -> PCs] /\ FreshJob \in JobRecord
      /\ ~up => \A j \in Jobs : pc[j] = "none"
  BY FreshType DEF TypeInv, TypeOK, RecordType, ControlType, IdleUntilLoaded
<1>1. ASSUME NEW o \in SaveOutcomes, LoadJobsFromStore(o) PROVE ExecutingIsLive'
  BY <1>1, <1>t, StatusAfter DEF LoadJobsFromStore
<1>2. ASSUME NEW j \in Jobs, NEW o \in Outcomes, CreateScheduledJob(j, o)
      PROVE ExecutingIsLive'
  BY <1>2, <1>t, StatusAfter DEF CreateScheduledJob
<1>3. ASSUME NEW j \in Jobs, StopJob(j) PROVE ExecutingIsLive'
  BY <1>3, <1>t, StatusAfter DEF StopJob
<1>4. ASSUME NEW j \in Jobs, NEW reset \in BOOLEAN, NEW enabled \in {"keep", "on", "off"},
             NEW o \in SaveOutcomes, UpdateScheduledJob(j, reset, enabled, o)
      PROVE ExecutingIsLive'
  BY <1>4, <1>t, StatusAfter DEF UpdateScheduledJob
<1>5. CASE Crash
  BY <1>5, <1>t, StatusAfter DEF Crash
<1>6. ASSUME NEW j \in Jobs, StartLoop(j) PROVE ExecutingIsLive'
  BY <1>6, <1>t, StatusAfter DEF StartLoop
<1>7. ASSUME NEW j \in Jobs, LoopTick(j) PROVE ExecutingIsLive'
  BY <1>7, <1>t DEF LoopTick
<1>8. ASSUME NEW j \in Jobs, LoopExit(j) PROVE ExecutingIsLive'
  BY <1>8, <1>t DEF LoopExit
<1>9. ASSUME NEW j \in Jobs, ExecuteBegin(j) PROVE ExecutingIsLive'
  BY <1>9, <1>t DEF ExecuteBegin
<1>10. ASSUME NEW j \in Jobs, SaveSnapshot(j) PROVE ExecutingIsLive'
  BY <1>10, <1>t DEF SaveSnapshot
<1>11. ASSUME NEW j \in Jobs, NEW o \in SaveOutcomes, PutSnapshot(j, o) PROVE ExecutingIsLive'
  BY <1>11, <1>t DEF PutSnapshot
<1>12. ASSUME NEW j \in Jobs, AwaitSuccess(j) PROVE ExecutingIsLive'
  BY <1>12, <1>t, StatusAfter DEF AwaitSuccess, LeaveExecution
<1>13. ASSUME NEW j \in Jobs, AwaitFailure(j) PROVE ExecutingIsLive'
  BY <1>13, <1>t, StatusAfter DEF AwaitFailure, LeaveExecution
<1>14. ASSUME UNCHANGED <<job, pc>> PROVE ExecutingIsLive'
  BY <1>14
<1> QED
  BY <1>1, <1>2, <1>3, <1>4, <1>5, <1>6, <1>7, <1>8, <1>9, <1>10, <1>11, <1>12, <1>13, <1>14
  DEF Next, Api, Goroutine, Environment, StopAllScheduledJobs, StopScheduledJob, DeleteJob,
      Tick, Deadline, TaskEnd, goroutineVars, vars

\* The status Executing is never left over, in particular not by a recovery.
THEOREM ExecutingCorrect == Spec => []ExecutingIsLive
<1>1. Init => ExecutingIsLive
  BY DEF Init, ExecutingIsLive, FreshJob
<1> QED
  BY TypeInit, TypeStep, LiveStep, <1>1, PTL DEF Spec

-----------------------------------------------------------------------------
(* A task that outlives its execution was counted as a failure.  The channel *)
(* of the execution under way is empty while its task runs, so a success is  *)
(* only seen once that task has ended; only created jobs of a running server *)
(* have tasks, so a fresh or recovered record, whose count of failures may   *)
(* be 0 or old, starts with none.                                            *)

ChannelFilled(j) == result[j] # "none" => pc[j] = "wait" /\ job[j].exec \notin tasks[j]
TasksLive(j) == (j \in created /\ up) \/ tasks[j] = {}
StraysCounted(j) ==
    /\ IsFiniteSet(tasks[j])
    /\ Cardinality(StrayTasks(j)) <= job[j].fail

StrayInv == \A j \in Jobs : ChannelFilled(j) /\ TasksLive(j) /\ StraysCounted(j)

\* A part of a finite set with one more element has at most one element more.
LEMMA PartIsSmaller ==
  ASSUME NEW S, NEW T, NEW x, IsFiniteSet(S), T \subseteq S \cup {x}
  PROVE  /\ IsFiniteSet(T)
         /\ Cardinality(T) <= Cardinality(S) + 1
         /\ T \subseteq S => Cardinality(T) <= Cardinality(S)
<1>1. /\ IsFiniteSet(S \cup {x})
      /\ Cardinality(S \cup {x}) = IF x \in S THEN Cardinality(S) ELSE Cardinality(S) + 1
  BY FS_AddElement
<1>2. Cardinality(S) \in Nat /\ Cardinality(S \cup {x}) \in Nat
  BY <1>1, FS_CardinalityType
<1>3. IsFiniteSet(T) /\ Cardinality(T) <= Cardinality(S \cup {x})
  BY <1>1, FS_Subset
<1>4. T \subseteq S => Cardinality(T) <= Cardinality(S)
  BY FS_Subset
<1>5. Cardinality(T) \in Nat
  BY <1>3, FS_CardinalityType
<1> QED
  BY <1>1, <1>2, <1>3, <1>4, <1>5

\* What a step may do to one job: its strays stay among the old ones and its
\* failures do not get fewer, or one stray is added together with a failure.
LEMMA StrayKept ==
  ASSUME NEW j \in Jobs, StraysCounted(j), NEW x \in Nat,
         job[j].fail \in Nat, job'[j].fail \in Nat,
         tasks'[j] \subseteq tasks[j] \cup {x},
         \/ StrayTasks(j)' \subseteq StrayTasks(j) /\ job'[j].fail = job[j].fail
         \/ StrayTasks(j)' \subseteq StrayTasks(j) \cup {x} /\ job'[j].fail = job[j].fail + 1
  PROVE  StraysCounted(j)'
<1>1. IsFiniteSet(StrayTasks(j)) /\ Cardinality(StrayTasks(j)) <= job[j].fail
  <2>1. StrayTasks(j) \subseteq tasks[j]
    BY DEF StrayTasks
  <2> QED
    BY <2>1, FS_Subset DEF StraysCounted
<1>2. IsFiniteSet(tasks'[j])
  BY PartIsSmaller DEF StraysCounted
<1>3. IsFiniteSet(StrayTasks(j)')
  BY <1>1, PartIsSmaller
<1>4. Cardinality(StrayTasks(j)) \in Nat /\ Cardinality(StrayTasks(j)') \in Nat
  BY <1>1, <1>3, FS_CardinalityType
<1>5. Cardinality(StrayTasks(j)') <= job'[j].fail
  <2>1. CASE StrayTasks(j)' \subseteq StrayTasks(j) /\ job'[j].fail = job[j].fail
    <3>1. Cardinality(StrayTasks(j)') <= Cardinality(StrayTasks(j))
      BY <1>1, <2>1, FS_Subset
    <3> QED
      BY <3>1, <1>1, <1>4, <2>1
  <2>2. CASE StrayTasks(j)' \subseteq StrayTasks(j) \cup {x} /\ job'[j].fail = job[j].fail + 1
    <3>1. Cardinality(StrayTasks(j)') <= Cardinality(StrayTasks(j)) + 1
      BY <1>1, <2>2, PartIsSmaller
    <3> QED
      BY <3>1, <1>1, <1>4, <2>2
  <2> QED
    BY <2>1, <2>2
<1> QED
  BY <1>2, <1>5 DEF StraysCounted

\* A job without tasks has no strays, whatever its record says.
LEMMA NoStrays ==
  ASSUME NEW j \in Jobs, tasks[j] = {}, job[j].fail \in Nat
  PROVE  StraysCounted(j)
<1>1. IsFiniteSet({}) /\ Cardinality({}) = 0
  BY FS_EmptySet
<1>2. StrayTasks(j) = {}
  BY DEF StrayTasks
<1> QED
  BY <1>1, <1>2 DEF StraysCounted

\* What the record operators do to the two counts the invariant reads.
LEMMA CountsAfter ==
  ASSUME NEW rec \in JobRecord, NEW s, NEW e
  PROVE  /\ RecordSuccess(rec).fail = rec.fail /\ RecordSuccess(rec).exec = rec.exec
         /\ RecordFailure(rec).fail = rec.fail + 1 /\ RecordFailure(rec).exec = rec.exec
         /\ [rec EXCEPT !.status = s].fail = rec.fail
         /\ [rec EXCEPT !.status = s].exec = rec.exec
         /\ [rec EXCEPT !.enabled = e].fail = rec.fail
         /\ [rec EXCEPT !.enabled = e].exec = rec.exec
         /\ [rec EXCEPT !.status = s, !.exec = @ + 1].fail = rec.fail
  BY DEF RecordSuccess, RecordFailure, JobRecord

\* The two parts that speak of the variables alone.
LEMMA ChannelStep ==
  TypeInv /\ StrayInv /\ [Next]_vars => \A k \in Jobs : (ChannelFilled(k) /\ TasksLive(k))'
<1> SUFFICES ASSUME TypeInv, StrayInv, [Next]_vars, NEW k \in Jobs
             PROVE  (ChannelFilled(k) /\ TasksLive(k))'
  OBVIOUS
<1> DEFINE Goal == (ChannelFilled(k) /\ TasksLive(k))'
<1> USE DEF ChannelFilled, TasksLive
<1>t. /\ job \in [Jobs -> JobRecord] /\ pc \in [Jobs -> PCs]
      /\ tasks \in [Jobs -> SUBSET Nat] /\ result \in [Jobs -> {"none", "ok", "err"}]
      /\ inMap \subseteq created /\ stopQueue \subseteq inMap
      /\ \A j \in Jobs : pc[j] # "none" => j \in created /\ up
      /\ \A j \in Jobs : ChannelFilled(j) /\ TasksLive(j)
  BY DEF TypeInv, TypeOK, RecordType, ControlType, CountType, KeyType, GoroutinesCreated,
         IdleUntilLoaded, StrayInv
<1>1. ASSUME NEW o \in SaveOutcomes, LoadJobsFromStore(o) PROVE Goal
  BY <1>1, <1>t DEF LoadJobsFromStore, taskVars, historyVars
<1>2. ASSUME NEW j \in Jobs, NEW o \in Outcomes, CreateScheduledJob(j, o) PROVE Goal
  BY <1>2, <1>t DEF CreateScheduledJob, ManagerFree, taskVars
<1>3. ASSUME NEW j \in Jobs, StopJob(j) PROVE Goal
  BY <1>3, <1>t, CountsAfter DEF StopJob, taskVars, historyVars
<1>4. ASSUME NEW j \in Jobs, NEW reset \in BOOLEAN, NEW enabled \in {"keep", "on", "off"},
             NEW o \in SaveOutcomes, UpdateScheduledJob(j, reset, enabled, o)
      PROVE Goal
  BY <1>4, <1>t, CountsAfter DEF UpdateScheduledJob, taskVars
<1>5. CASE Crash
  BY <1>5 DEF Crash
<1>6. ASSUME NEW j \in Jobs, StartLoop(j) PROVE Goal
  BY <1>6, <1>t DEF StartLoop, taskVars, historyVars
<1>7. ASSUME NEW j \in Jobs, LoopTick(j) PROVE Goal
  BY <1>7, <1>t DEF LoopTick, taskVars, historyVars
<1>8. ASSUME NEW j \in Jobs, LoopExit(j) PROVE Goal
  BY <1>8, <1>t DEF LoopExit, taskVars, historyVars
<1>9. ASSUME NEW j \in Jobs, ExecuteBegin(j) PROVE Goal
  BY <1>9, <1>t DEF ExecuteBegin, taskVars
<1>10. ASSUME NEW j \in Jobs, SaveSnapshot(j) PROVE Goal
  BY <1>10, <1>t DEF SaveSnapshot, taskVars, historyVars
<1>11. ASSUME NEW j \in Jobs, NEW o \in SaveOutcomes, PutSnapshot(j, o) PROVE Goal
  BY <1>11, <1>t DEF PutSnapshot, historyVars
<1>12. ASSUME NEW j \in Jobs, AwaitSuccess(j) PROVE Goal
  BY <1>12, <1>t DEF AwaitSuccess, LeaveExecution, historyVars
<1>13. ASSUME NEW j \in Jobs, AwaitFailure(j) PROVE Goal
  BY <1>13, <1>t DEF AwaitFailure, LeaveExecution, historyVars
<1>14. ASSUME NEW j \in Jobs, NEW n \in tasks[j], NEW r \in {"ok", "err"}, TaskEnd(j, n, r)
       PROVE Goal
  BY <1>14, <1>t DEF TaskEnd, goroutineVars, historyVars
<1>15. ASSUME UNCHANGED <<up, job, pc, tasks, result, created>> PROVE Goal
  BY <1>15, <1>t
<1> QED
  BY <1>1, <1>2, <1>3, <1>4, <1>5, <1>6, <1>7, <1>8, <1>9, <1>10, <1>11, <1>12, <1>13, <1>14,
     <1>15
  DEF Next, Api, Goroutine, Environment, StopAllScheduledJobs, StopScheduledJob, DeleteJob,
      Tick, Deadline, goroutineVars, taskVars, historyVars, vars

LEMMA StrayStep == TypeInv /\ TypeInv' /\ StrayInv /\ [Next]_vars => StrayInv'
<1> SUFFICES ASSUME TypeInv, TypeInv', StrayInv, [Next]_vars, NEW k \in Jobs
             PROVE  StraysCounted(k)'
  BY ChannelStep DEF StrayInv
<1> DEFINE Goal == StraysCounted(k)'
<1>t. /\ job \in [Jobs -> JobRecord] /\ pc \in [Jobs -> PCs]
      /\ tasks \in [Jobs -> SUBSET Nat] /\ job' \in [Jobs -> JobRecord]
      /\ \A j \in Jobs : pc[j] # "none" => j \in created /\ up
      /\ inMap \subseteq created /\ stopQueue \subseteq inMap
  BY DEF TypeInv, TypeOK, RecordType, ControlType, CountType, KeyType, GoroutinesCreated,
         IdleUntilLoaded
<1>n. job[k].fail \in Nat /\ job'[k].fail \in Nat /\ job[k].exec \in Nat
  BY <1>t DEF JobRecord
<1>i. ChannelFilled(k) /\ TasksLive(k) /\ StraysCounted(k)
  BY DEF StrayInv
\* Steps under which the job neither fails nor gets a stray.
<1>s. ASSUME tasks'[k] \subseteq tasks[k] \cup {job[k].exec}, job'[k].fail = job[k].fail,
             StrayTasks(k)' \subseteq StrayTasks(k)
      PROVE  Goal
  BY <1>s, <1>i, <1>n, StrayKept, Zenon
<1>e. ASSUME tasks'[k] = {} PROVE Goal
  <2>1. ASSUME NEW S, NEW n \in Nat, S = {}
        PROVE  IsFiniteSet(S) /\ Cardinality(S) <= n
    BY <2>1, FS_EmptySet
  <2>2. StrayTasks(k)' = {}
    BY <1>e DEF StrayTasks
  <2> QED
    BY <2>1, <2>2, <1>e, <1>n DEF StraysCounted
<1>1. ASSUME NEW o \in SaveOutcomes, LoadJobsFromStore(o) PROVE Goal
  BY <1>1, <1>e, <1>i DEF LoadJobsFromStore, TasksLive, taskVars
<1>2. ASSUME NEW j \in Jobs, NEW o \in Outcomes, CreateScheduledJob(j, o) PROVE Goal
  <2>1. CASE k = j
    BY <1>2, <2>1, <1>e, <1>i DEF CreateScheduledJob, TasksLive, taskVars
  <2>2. CASE k # j
    BY <1>2, <2>2, <1>s, <1>t DEF CreateScheduledJob, StrayTasks, taskVars
  <2> QED
    BY <2>1, <2>2
<1>3. ASSUME NEW j \in Jobs, StopJob(j) PROVE Goal
  BY <1>3, <1>t, <1>s, CountsAfter DEF StopJob, StrayTasks, taskVars
<1>4. ASSUME NEW j \in Jobs, NEW reset \in BOOLEAN, NEW enabled \in {"keep", "on", "off"},
             NEW o \in SaveOutcomes, UpdateScheduledJob(j, reset, enabled, o)
      PROVE Goal
  <2>1. job'[k].fail = job[k].fail /\ job'[k].exec = job[k].exec
    BY <1>4, <1>t, CountsAfter DEF UpdateScheduledJob
  <2>2. tasks' = tasks /\ pc' = pc
    BY <1>4 DEF UpdateScheduledJob, taskVars
  <2> QED
    BY <2>1, <2>2, <1>s DEF StrayTasks
<1>5. CASE Crash
  BY <1>5, <1>e DEF Crash
<1>6. ASSUME NEW j \in Jobs, StartLoop(j) PROVE Goal
  BY <1>6, <1>t, <1>s, CountsAfter DEF StartLoop, StrayTasks, taskVars
<1>7. ASSUME NEW j \in Jobs, LoopTick(j) PROVE Goal
  BY <1>7, <1>t, <1>s DEF LoopTick, AfterTick, StrayTasks, taskVars
<1>8. ASSUME NEW j \in Jobs, LoopExit(j) PROVE Goal
  BY <1>8, <1>t, <1>s DEF LoopExit, StrayTasks, taskVars
<1>9. ASSUME NEW j \in Jobs, ExecuteBegin(j) PROVE Goal
  <2>1. job'[k].fail = job[k].fail
    BY <1>9, <1>t, CountsAfter DEF ExecuteBegin
  <2>2. StrayTasks(k)' \subseteq StrayTasks(k) /\ tasks' = tasks
    BY <1>9, <1>t DEF ExecuteBegin, StrayTasks, taskVars
  <2> QED
    BY <2>1, <2>2, <1>s
<1>10. ASSUME NEW j \in Jobs, SaveSnapshot(j) PROVE Goal
  BY <1>10, <1>t, <1>s DEF SaveSnapshot, StrayTasks, taskVars
<1>11. ASSUME NEW j \in Jobs, NEW o \in SaveOutcomes, PutSnapshot(j, o) PROVE Goal
  <2>1. tasks'[k] \subseteq tasks[k] \cup {job[k].exec} /\ job' = job
    BY <1>11, <1>t DEF PutSnapshot
  <2>2. StrayTasks(k)' \subseteq StrayTasks(k)
    BY <1>11, <1>t DEF PutSnapshot, StrayTasks
  <2> QED
    BY <2>1, <2>2, <1>s
<1>12. ASSUME NEW j \in Jobs, AwaitSuccess(j) PROVE Goal
  <2>1. job'[k].fail = job[k].fail /\ job'[k].exec = job[k].exec /\ tasks' = tasks
    BY <1>12, <1>t, CountsAfter DEF AwaitSuccess
  <2>2. StrayTasks(k)' \subseteq StrayTasks(k)
    BY <1>12, <2>1, <1>t, <1>i DEF AwaitSuccess, LeaveExecution, StrayTasks, ChannelFilled
  <2> QED
    BY <2>1, <2>2, <1>s
<1>13. ASSUME NEW j \in Jobs, AwaitFailure(j) PROVE Goal
  <2>1. tasks' = tasks
    BY <1>13 DEF AwaitFailure
  <2>2. CASE k = j
    <3>1. job'[k].fail = job[k].fail + 1
      BY <1>13, <2>2, <1>t, CountsAfter DEF AwaitFailure
    <3>2. StrayTasks(k)' \subseteq StrayTasks(k) \cup {job[k].exec}
      BY <1>13, <2>1, <2>2, <1>t DEF AwaitFailure, StrayTasks
    <3> QED
      BY <2>1, <3>1, <3>2, <1>i, <1>n, StrayKept, Zenon
  <2>3. CASE k # j
    BY <1>13, <2>1, <2>3, <1>t, <1>s DEF AwaitFailure, LeaveExecution, StrayTasks
  <2> QED
    BY <2>2, <2>3
<1>14. ASSUME NEW j \in Jobs, NEW n \in tasks[j], NEW r \in {"ok", "err"}, TaskEnd(j, n, r)
       PROVE Goal
  BY <1>14, <1>t, <1>s DEF TaskEnd, StrayTasks, goroutineVars
<1>15. ASSUME UNCHANGED <<job, pc, tasks>> PROVE Goal
  BY <1>15, <1>s DEF StrayTasks
<1> QED
  BY <1>1, <1>2, <1>3, <1>4, <1>5, <1>6, <1>7, <1>8, <1>9, <1>10, <1>11, <1>12, <1>13, <1>14,
     <1>15
  DEF Next, Api, Goroutine, Environment, StopAllScheduledJobs, StopScheduledJob, DeleteJob,
      Tick, Deadline, goroutineVars, taskVars, vars

\* The task goroutine of an execution that was given up runs on and nobody waits
\* for it (scheduler.go:644, :717); there are never more of them than failures counted.
THEOREM StrayCorrect == Spec => []StrayTasksAreFailures
<1>1. Init => StrayInv
  <2> SUFFICES ASSUME Init, NEW j \in Jobs
               PROVE  ChannelFilled(j) /\ TasksLive(j) /\ StraysCounted(j)
    BY DEF StrayInv
  <2>1. tasks[j] = {} /\ result[j] = "none" /\ job[j].fail \in Nat
    BY DEF Init, FreshJob
  <2> QED
    BY <2>1, NoStrays DEF ChannelFilled, TasksLive
<1>2. StrayInv => StrayTasksAreFailures
  BY DEF StrayInv, StraysCounted, StrayTasksAreFailures
<1> QED
  BY TypeInit, TypeStep, StrayStep, <1>1, <1>2, PTL DEF Spec

-----------------------------------------------------------------------------
(* A deleted job's record does not come back once its goroutine is quiet.    *)
(* A deleted job is found by an update only when it was recovered from the   *)
(* record its deletion had left, and that record is still there.             *)

FoundIsStored == inMap \cap deleted \subseteq stored

LEMMA FoundStep == TypeInv /\ FoundIsStored /\ [Next]_vars => FoundIsStored'
<1> SUFFICES ASSUME TypeInv, FoundIsStored, [Next]_vars PROVE FoundIsStored'
  OBVIOUS
<1> USE DEF FoundIsStored
<1>t. deleted \subseteq created
  BY DEF TypeInv, TypeOK, KeyType
<1>1. ASSUME NEW o \in SaveOutcomes, LoadJobsFromStore(o) PROVE FoundIsStored'
  BY <1>1 DEF LoadJobsFromStore, storeVars, historyVars
<1>2. ASSUME NEW j \in Jobs, NEW o \in Outcomes, CreateScheduledJob(j, o) PROVE FoundIsStored'
  BY <1>2, <1>t DEF CreateScheduledJob, PutRecord
<1>3. ASSUME NEW j \in Jobs, NEW o \in SaveOutcomes, DeleteJob(j, o) PROVE FoundIsStored'
  BY <1>3 DEF DeleteJob
<1>4. ASSUME NEW j \in Jobs, NEW reset \in BOOLEAN, NEW enabled \in {"keep", "on", "off"},
             NEW o \in SaveOutcomes, UpdateScheduledJob(j, reset, enabled, o)
      PROVE FoundIsStored'
  <2>1. stored \subseteq stored' /\ inMap' = inMap /\ deleted' = deleted
    BY <1>4 DEF UpdateScheduledJob, PutRecord
  <2> QED
    BY <2>1
<1>5. ASSUME NEW j \in Jobs, NEW o \in SaveOutcomes, PutSnapshot(j, o) PROVE FoundIsStored'
  BY <1>5 DEF PutSnapshot, PutRecord, historyVars
<1>6. CASE Crash
  BY <1>6 DEF Crash
<1>7. ASSUME UNCHANGED <<inMap, stored, deleted>> PROVE FoundIsStored'
  BY <1>7
<1> QED
  BY <1>1, <1>2, <1>3, <1>4, <1>5, <1>6, <1>7
  DEF Next, Api, Goroutine, Environment, StopAllScheduledJobs, StopScheduledJob, StopJob,
      StartLoop, LoopTick, LoopExit, ExecuteBegin, SaveSnapshot, AwaitSuccess, AwaitFailure,
      Tick, Deadline, TaskEnd, storeVars, historyVars, vars

LEMMA GoneStep ==
  ASSUME TypeInv, FoundIsStored, [Next]_vars,
         NEW k \in deleted, k \notin stored, Quiet(k)
  PROVE  k \notin stored'
<1>t. deleted \subseteq created /\ pc \in [Jobs -> PCs]
  BY DEF TypeInv, TypeOK, KeyType, ControlType
<1>1. ASSUME NEW j \in Jobs, NEW o \in Outcomes, CreateScheduledJob(j, o) PROVE k \notin stored'
  BY <1>1, <1>t DEF CreateScheduledJob, PutRecord
<1>2. ASSUME NEW j \in Jobs, NEW o \in SaveOutcomes, DeleteJob(j, o) PROVE k \notin stored'
  BY <1>2 DEF DeleteJob
<1>3. ASSUME NEW j \in Jobs, NEW reset \in BOOLEAN, NEW enabled \in {"keep", "on", "off"},
             NEW o \in SaveOutcomes, UpdateScheduledJob(j, reset, enabled, o)
      PROVE k \notin stored'
  <2>1. j \in inMap /\ stored' \subseteq stored \cup {j}
    BY <1>3 DEF UpdateScheduledJob, Found, PutRecord
  <2> QED
    BY <2>1 DEF FoundIsStored
<1>4. ASSUME NEW j \in Jobs, NEW o \in SaveOutcomes, PutSnapshot(j, o) PROVE k \notin stored'
  <2>1. pc[j] \in {"putBegin", "putEnd"} /\ stored' \subseteq stored \cup {j}
    BY <1>4 DEF PutSnapshot, PutRecord
  <2> QED
    BY <2>1 DEF Quiet
<1>5. ASSUME stored' = stored PROVE k \notin stored'
  BY <1>5
<1> QED
  BY <1>1, <1>2, <1>3, <1>4, <1>5
  DEF Next, Api, Goroutine, Environment, LoadJobsFromStore, StopAllScheduledJobs,
      StopScheduledJob, StopJob, StartLoop, LoopTick, LoopExit, ExecuteBegin, SaveSnapshot,
      AwaitSuccess, AwaitFailure, Tick, Deadline, TaskEnd, Crash, storeVars, vars

\* Deletion removes the record and leaves the goroutine to end by itself
\* (scheduler.go:391); only a save that goroutine still does can undo it.
THEOREM GoneCorrect == Spec => GoneForGood
<1>1. Init => FoundIsStored
  BY DEF Init, FoundIsStored
<1>2. TypeInv /\ FoundIsStored /\ [Next]_vars
        => [\A j \in deleted : j \notin stored /\ Quiet(j) => j \notin stored']_vars
  BY GoneStep
<1> QED
  BY TypeInit, TypeStep, FoundStep, <1>1, <1>2, PTL DEF Spec, GoneForGood

-----------------------------------------------------------------------------
(* The scheduler implements JobRuns.  Every step of it is a step of JobRuns   *)
(* or leaves what JobRuns sees alone.  A beginning needs PauseInv (a disabled *)
(* job that decided to execute has not done so since), the end of a failed    *)
(* execution AutoDisableConsistent (the test >= with the flag disables when   *)
(* the streak is equal to the limit), and a recovery AccountInv.              *)

SameRuns(a, b) ==
    /\ a.enabled = b.enabled /\ a.exec = b.exec /\ a.succ = b.succ
    /\ a.fail = b.fail /\ a.consec = b.consec

LEMMA SameAfter ==
  ASSUME NEW rec \in JobRecord, NEW s
  PROVE  SameRuns([rec EXCEPT !.status = s], rec)
  BY DEF SameRuns, JobRecord

\* What JobRuns sees does not change.
LEMMA Unseen ==
  ASSUME \A j \in Jobs : SameRuns(job'[j], job[j]) /\ (Executing(j)' <=> Executing(j)),
         sincePause' = sincePause
  PROVE  UNCHANGED Runs!vars
<1>1. \A j \in Jobs : Executing(j)' = Executing(j)
  BY DEF Executing
<1> QED
  BY <1>1 DEF Runs!vars, SameRuns

\* The image of a step of one job: the others do not change.
LEMMA BeginMaps ==
  ASSUME TypeInv, PauseInv, NEW j \in Jobs, ExecuteBegin(j)
  PROVE  Runs!Begin(j)
<1>t. job \in [Jobs -> JobRecord] /\ pc \in [Jobs -> PCs] /\ sincePause \in [Jobs -> Nat]
      /\ up /\ j \in created
  <2>1. pc[j] # "none"
    BY DEF ExecuteBegin
  <2> QED
    BY <2>1 DEF TypeInv, TypeOK, RecordType, ControlType, CountType, GoroutinesCreated,
                IdleUntilLoaded
<1>1. /\ pc[j] = "exec" /\ pc' = [pc EXCEPT ![j] = "saveBegin"]
      /\ job' = [job EXCEPT ![j].status = "Executing", ![j].exec = @ + 1]
      /\ sincePause' = [sincePause EXCEPT ![j] = IF job[j].enabled THEN @ ELSE @ + 1]
  BY DEF ExecuteBegin
<1>2. /\ job'[j].exec = job[j].exec + 1 /\ job'[j].enabled = job[j].enabled
      /\ job'[j].succ = job[j].succ /\ job'[j].fail = job[j].fail
      /\ job'[j].consec = job[j].consec
      /\ \A k \in Jobs \ {j} : job'[k] = job[k]
  BY <1>1, <1>t DEF JobRecord
<1>3. ~Executing(j) /\ Executing(j)' /\ \A k \in Jobs \ {j} : Executing(k)' = Executing(k)
  BY <1>1, <1>t DEF Executing
<1>4. job[j].enabled \/ sincePause[j] = 0
  BY <1>1, <1>t DEF PauseInv
<1>5. [k \in Jobs |-> Executing(k)]' = [[k \in Jobs |-> Executing(k)] EXCEPT ![j] = TRUE]
  BY <1>3, Zenon DEF Executing
<1>6. [k \in Jobs |-> job[k].exec]' = [[k \in Jobs |-> job[k].exec] EXCEPT ![j] = @ + 1]
  BY <1>2
<1>7. UNCHANGED [k \in Jobs |-> job[k].enabled] /\ UNCHANGED [k \in Jobs |-> job[k].consec]
      /\ UNCHANGED [k \in Jobs |-> job[k].succ + job[k].fail]
  BY <1>2
<1> QED
  BY <1>1, <1>3, <1>4, <1>5, <1>6, <1>7 DEF Runs!Begin

\* The end of an execution, whatever the result.
LEMMA EndMaps ==
  ASSUME TypeInv, NEW j \in Jobs, NEW rec \in JobRecord, pc[j] = "wait",
         job' = [job EXCEPT ![j] = rec], pc' = [pc EXCEPT ![j] = "saveEnd"],
         rec.exec = job[j].exec, rec.succ + rec.fail = job[j].succ + job[j].fail + 1,
         sincePause' = sincePause
  PROVE  Runs!End(j)
<1>t. job \in [Jobs -> JobRecord] /\ pc \in [Jobs -> PCs]
  BY DEF TypeInv, TypeOK, RecordType, ControlType
<1>1. Executing(j) /\ ~Executing(j)' /\ \A k \in Jobs \ {j} : Executing(k)' = Executing(k)
  BY <1>t DEF Executing
<1>2. [k \in Jobs |-> Executing(k)]' = [[k \in Jobs |-> Executing(k)] EXCEPT ![j] = FALSE]
  <2>1. Executing(j)' = FALSE
    BY <1>1 DEF Executing
  <2>2. \A k \in Jobs : Executing(k)' = IF k = j THEN FALSE ELSE Executing(k)
    BY <1>1, <2>1
  <2> QED
    BY <2>2
<1>3. [k \in Jobs |-> job[k].succ + job[k].fail]' =
         [[k \in Jobs |-> job[k].succ + job[k].fail] EXCEPT ![j] = @ + 1]
  BY <1>t
<1>4. UNCHANGED [k \in Jobs |-> job[k].exec]
  BY <1>t
<1> QED
  BY <1>1, <1>2, <1>3, <1>4 DEF Runs!End

LEMMA SuccessMaps ==
  ASSUME TypeInv, NEW j \in Jobs, AwaitSuccess(j)
  PROVE  Runs!Succeed(j)
<1> DEFINE rec == RecordSuccess(job[j])
<1>t. job \in [Jobs -> JobRecord] /\ rec \in JobRecord
  BY SuccessType DEF TypeInv, TypeOK, RecordType
<1>1. /\ rec.exec = job[j].exec /\ rec.succ = job[j].succ + 1 /\ rec.fail = job[j].fail
      /\ rec.consec = 0 /\ rec.enabled = job[j].enabled
  BY <1>t DEF RecordSuccess, JobRecord
<1>2. rec.succ + rec.fail = job[j].succ + job[j].fail + 1
  <2>1. job[j].succ \in Nat /\ job[j].fail \in Nat
    BY <1>t DEF JobRecord
  <2> QED
    BY <2>1, <1>1
<1>3. /\ pc[j] = "wait" /\ job' = [job EXCEPT ![j] = rec]
      /\ pc' = [pc EXCEPT ![j] = "saveEnd"] /\ sincePause' = sincePause
  BY DEF AwaitSuccess, LeaveExecution, historyVars
<1> HIDE DEF rec
<1>4. Runs!End(j)
  BY <1>t, <1>1, <1>2, <1>3, EndMaps
<1>5. [k \in Jobs |-> job[k].consec]' = [[k \in Jobs |-> job[k].consec] EXCEPT ![j] = 0]
  BY <1>t, <1>1, <1>3
<1>6. UNCHANGED [k \in Jobs |-> job[k].enabled]
  BY <1>t, <1>1, <1>3
<1> QED
  BY <1>4, <1>5, <1>6 DEF Runs!Succeed

LEMMA FailureMaps ==
  ASSUME TypeInv, AutoDisableConsistent, NEW j \in Jobs, AwaitFailure(j)
  PROVE  Runs!Fail(j)
<1> DEFINE rec == RecordFailure(job[j])
           disable == job[j].consec + 1 >= MaxConsecutive /\ ~job[j].autoDisabled
<1>t. job \in [Jobs -> JobRecord] /\ rec \in JobRecord
  BY FailureType DEF TypeInv, TypeOK, RecordType
<1>1. /\ rec.exec = job[j].exec /\ rec.succ = job[j].succ /\ rec.fail = job[j].fail + 1
      /\ rec.consec = job[j].consec + 1
      /\ rec.enabled = (job[j].enabled /\ ~disable)
  BY <1>t DEF RecordFailure, JobRecord
<1>n. job[j].succ \in Nat /\ job[j].fail \in Nat /\ job[j].consec \in Nat
  BY <1>t DEF JobRecord
<1>2. rec.succ + rec.fail = job[j].succ + job[j].fail + 1
  BY <1>n, <1>1
<1>3. disable <=> job[j].consec + 1 = MaxConsecutive
  <2>1. job[j].autoDisabled <=> job[j].consec >= MaxConsecutive
    BY DEF AutoDisableConsistent, StreakMatchesFlag
  <2>2. job[j].consec + 1 = MaxConsecutive <=>
           (job[j].consec + 1 >= MaxConsecutive /\ ~(job[j].consec >= MaxConsecutive))
    BY <1>n, BoundAssumption
  <2> QED
    BY <2>1, <2>2, Zenon
<1>4. /\ pc[j] = "wait" /\ job' = [job EXCEPT ![j] = rec]
      /\ pc' = [pc EXCEPT ![j] = "saveEnd"] /\ sincePause' = sincePause
  BY DEF AwaitFailure, LeaveExecution, historyVars
<1> HIDE DEF rec, disable
<1>5. Runs!End(j)
  BY <1>t, <1>1, <1>2, <1>4, EndMaps
<1>6. [k \in Jobs |-> job[k].consec]' = [[k \in Jobs |-> job[k].consec] EXCEPT ![j] = @ + 1]
  BY <1>t, <1>1, <1>4
<1>7. rec.enabled = (job[j].enabled /\ job[j].consec + 1 # MaxConsecutive)
  BY <1>1, <1>3, Zenon
<1>8. [k \in Jobs |-> job[k].enabled]' =
         [[k \in Jobs |-> job[k].enabled] EXCEPT
             ![j] = @ /\ [k \in Jobs |-> job[k].consec][j] + 1 # MaxConsecutive]
  BY <1>t, <1>4, <1>7, Zenon
<1> QED
  BY <1>5, <1>6, <1>8 DEF Runs!Fail

LEMMA SwitchMaps ==
  ASSUME TypeInv, NEW j \in Jobs, NEW reset \in BOOLEAN, NEW enabled \in {"keep", "on", "off"},
         NEW o \in SaveOutcomes, UpdateScheduledJob(j, reset, enabled, o)
  PROVE  (\E on \in BOOLEAN : Runs!Switch(j, on)) \/ UNCHANGED Runs!vars
<1> DEFINE flag == enabled = "on" \/ (enabled = "keep" /\ job[j].enabled)
           updated == [job[j] EXCEPT !.enabled = flag]
<1>t. job \in [Jobs -> JobRecord] /\ sincePause \in [Jobs -> Nat]
  BY DEF TypeInv, TypeOK, RecordType, CountType
<1>1. /\ job' = [job EXCEPT ![j] = updated] /\ pc' = pc
      /\ sincePause' = [sincePause EXCEPT ![j] = IF enabled = "keep" THEN @ ELSE 0]
  BY DEF UpdateScheduledJob
<1>2. /\ updated.enabled = flag /\ updated.exec = job[j].exec /\ updated.succ = job[j].succ
      /\ updated.fail = job[j].fail /\ updated.consec = job[j].consec
  BY <1>t DEF JobRecord
<1>3. flag \in BOOLEAN
  <2>1. job[j].enabled \in BOOLEAN
    BY <1>t DEF JobRecord
  <2> QED
    BY <2>1, Zenon
<1>4. ASSUME enabled = "keep" PROVE flag = job[j].enabled
  <2>1. enabled # "on" /\ job[j].enabled \in BOOLEAN
    BY <1>4, <1>t DEF JobRecord
  <2>2. flag <=> job[j].enabled
    BY <1>4, <2>1, Zenon
  <2> QED
    BY <1>3, <2>1, <2>2, Zenon
<1> HIDE DEF flag, updated
<1>5. \A k \in Jobs : Executing(k)' = Executing(k)
  BY <1>1 DEF Executing
<1>6. CASE enabled = "keep"
  <2>1. sincePause' = sincePause
    BY <1>1, <1>6, <1>t
  <2>2. \A k \in Jobs : SameRuns(job'[k], job[k])
    BY <1>1, <1>2, <1>4, <1>6, <1>t DEF SameRuns
  <2> QED
    BY <2>1, <2>2, <1>5, Unseen
<1>7. CASE enabled # "keep"
  <2>1. sincePause' = [sincePause EXCEPT ![j] = 0]
    BY <1>1, <1>7
  <2>2. [k \in Jobs |-> job[k].enabled]' = [[k \in Jobs |-> job[k].enabled] EXCEPT ![j] = flag]
    BY <1>1, <1>2, <1>t
  <2>3. /\ UNCHANGED [k \in Jobs |-> job[k].exec] /\ UNCHANGED [k \in Jobs |-> job[k].consec]
        /\ UNCHANGED [k \in Jobs |-> job[k].succ + job[k].fail]
    BY <1>1, <1>2, <1>t
  <2>4. UNCHANGED [k \in Jobs |-> Executing(k)]
    BY <1>5
  <2>5. \E on \in BOOLEAN : Runs!Switch(j, on)
    BY <1>3, <2>1, <2>2, <2>3, <2>4 DEF Runs!Switch
  <2> QED
    BY <2>5
<1> QED
  BY <1>6, <1>7

LEMMA CreateMaps ==
  ASSUME TypeInv, NEW j \in Jobs, NEW o \in Outcomes, CreateScheduledJob(j, o)
  PROVE  Runs!Create(j) \/ UNCHANGED Runs!vars
<1>t. job \in [Jobs -> JobRecord] /\ pc \in [Jobs -> PCs] /\ pc[j] = "none"
  BY DEF TypeInv, TypeOK, RecordType, ControlType, GoroutinesCreated, CreateScheduledJob
<1>1. CASE o = "ok"
  <2>1. /\ job' = [job EXCEPT ![j] = FreshJob] /\ pc' = [pc EXCEPT ![j] = "spawned"]
        /\ sincePause' = sincePause
    BY <1>1 DEF CreateScheduledJob
  <2>2. /\ FreshJob.enabled = TRUE /\ FreshJob.exec = 0 /\ FreshJob.succ + FreshJob.fail = 0
        /\ FreshJob.consec = 0
    BY DEF FreshJob
  <2>3. ~Executing(j) /\ \A k \in Jobs : Executing(k)' = Executing(k)
    BY <2>1, <1>t DEF Executing
  <2>4. UNCHANGED [k \in Jobs |-> Executing(k)]
    BY <2>3
  <2>5. [k \in Jobs |-> job[k].enabled]' = [[k \in Jobs |-> job[k].enabled] EXCEPT ![j] = TRUE]
    BY <2>1, <2>2, <1>t
  <2>6. [k \in Jobs |-> job[k].exec]' = [[k \in Jobs |-> job[k].exec] EXCEPT ![j] = 0]
    BY <2>1, <2>2, <1>t
  <2>7. [k \in Jobs |-> job[k].succ + job[k].fail]' =
           [[k \in Jobs |-> job[k].succ + job[k].fail] EXCEPT ![j] = 0]
    BY <2>1, <2>2, <1>t
  <2>8. [k \in Jobs |-> job[k].consec]' = [[k \in Jobs |-> job[k].consec] EXCEPT ![j] = 0]
    BY <2>1, <2>2, <1>t
  <2> QED
    BY <2>1, <2>3, <2>4, <2>5, <2>6, <2>7, <2>8 DEF Runs!Create
<1>2. CASE o # "ok"
  <2>1. job' = job /\ pc' = pc /\ sincePause' = sincePause
    BY <1>2 DEF CreateScheduledJob
  <2> QED
    BY <2>1, Unseen DEF SameRuns, Executing
<1> QED
  BY <1>1, <1>2

LEMMA CrashMaps == Crash => Runs!Crash
<1> SUFFICES ASSUME Crash PROVE Runs!Crash
  OBVIOUS
<1>1. /\ job' = [j \in Jobs |-> FreshJob] /\ pc' = [j \in Jobs |-> "none"]
      /\ sincePause' = [j \in Jobs |-> 0]
  BY DEF Crash
<1>2. /\ FreshJob.enabled = TRUE /\ FreshJob.exec = 0 /\ FreshJob.succ + FreshJob.fail = 0
      /\ FreshJob.consec = 0
  BY DEF FreshJob
<1>3. \A j \in Jobs : Executing(j)' = FALSE
  BY <1>1 DEF Executing
<1> QED
  BY <1>1, <1>2, <1>3 DEF Runs!Crash

LEMMA RecoverMaps ==
  ASSUME TypeInv, AccountInv, NEW o \in SaveOutcomes, LoadJobsFromStore(o)
  PROVE  Runs!Recover
<1>t. /\ job \in [Jobs -> JobRecord] /\ store \in [Jobs -> JobRecord] /\ ~up /\ crashes \in Nat
      /\ \A j \in Jobs : pc[j] = "none"
  BY DEF TypeInv, TypeOK, RecordType, CountType, IdleUntilLoaded, LoadJobsFromStore
<1>1. /\ sincePause' = sincePause
      /\ \A j \in Jobs : pc'[j] \in {"none", "spawned"}
      /\ \A j \in Jobs : job'[j] \in {Recovered(store[j]), job[j]}
  BY <1>t DEF LoadJobsFromStore, historyVars
<1>2. ASSUME NEW j \in Jobs
      PROVE  job'[j].succ + job'[j].fail <= job'[j].exec
  <2>1. Balanced(job[j], 0, crashes) /\ Balanced(store[j], 0, crashes)
    <3>1. InFlight(j) = 0 /\ 0 + crashes = crashes
      BY <1>t DEF InFlight, Executing
    <3> QED
      BY <3>1, <1>t DEF AccountInv, ExecutionsAccounted
  <2>2. Balanced(Recovered(store[j]), 0, crashes)
    BY <1>t, <2>1, BalancedStep
  <2>3. job'[j] \in JobRecord /\ Balanced(job'[j], 0, crashes)
    BY <1>1, <1>t, <2>1, <2>2, RecoveredType
  <2> QED
    BY <2>3 DEF Balanced, JobRecord
<1>3. \A j \in Jobs : ~Executing(j) /\ ~Executing(j)'
  BY <1>1, <1>t DEF Executing
<1>4. UNCHANGED [j \in Jobs |-> Executing(j)]
  BY <1>3 DEF Executing
<1> QED
  BY <1>1, <1>2, <1>3, <1>4 DEF Runs!Recover

\* A step that changes at most the status of a job, or moves its goroutine
\* without entering or leaving execute().
LEMMA OtherMaps ==
  ASSUME TypeInv, NEW j \in Jobs,
         \/ StopJob(j) \/ StartLoop(j) \/ LoopTick(j) \/ LoopExit(j) \/ SaveSnapshot(j)
         \/ \E o \in SaveOutcomes : PutSnapshot(j, o) \/ DeleteJob(j, o)
  PROVE  UNCHANGED Runs!vars
<1>t. job \in [Jobs -> JobRecord] /\ pc \in [Jobs -> PCs]
  BY DEF TypeInv, TypeOK, RecordType, ControlType
<1>1. job' = job \/ \E s \in Statuses : job' = [job EXCEPT ![j].status = s]
  BY DEF StopJob, StartLoop, LoopTick, LoopExit, SaveSnapshot, PutSnapshot, DeleteJob, Statuses
<1>2. \A k \in Jobs : SameRuns(job'[k], job[k])
  <2>1. CASE job' = job
    BY <2>1 DEF SameRuns
  <2>2. ASSUME NEW s \in Statuses, job' = [job EXCEPT ![j].status = s]
        PROVE  \A k \in Jobs : SameRuns(job'[k], job[k])
    <3>1. SameRuns(job'[j], job[j])
      BY <2>2, <1>t, SameAfter
    <3>2. \A k \in Jobs \ {j} : job'[k] = job[k]
      BY <2>2, <1>t
    <3> QED
      BY <3>1, <3>2 DEF SameRuns
  <2> QED
    BY <1>1, <2>1, <2>2
<1>3. /\ sincePause' = sincePause
      /\ \A k \in Jobs : Executing(k)' <=> Executing(k)
  BY <1>t DEF StopJob, StartLoop, LoopTick, AfterTick, LoopExit, SaveSnapshot, PutSnapshot,
              DeleteJob, Executing, historyVars, goroutineVars
<1> QED
  BY <1>2, <1>3, Unseen

LEMMA RunsStep ==
  TypeInv /\ AutoDisableConsistent /\ AccountInv /\ PauseInv /\ [Next]_vars
      => [Runs!Next]_Runs!vars
<1> SUFFICES ASSUME TypeInv, AutoDisableConsistent, AccountInv, PauseInv, [Next]_vars
             PROVE  Runs!Next \/ UNCHANGED Runs!vars
  OBVIOUS
<1>1. ASSUME NEW o \in SaveOutcomes, LoadJobsFromStore(o) PROVE Runs!Next
  BY <1>1, RecoverMaps DEF Runs!Next
<1>2. CASE Crash
  BY <1>2, CrashMaps DEF Runs!Next
<1>3. ASSUME NEW j \in Jobs, NEW o \in Outcomes, CreateScheduledJob(j, o)
      PROVE Runs!Next \/ UNCHANGED Runs!vars
  BY <1>3, CreateMaps DEF Runs!Next
<1>4. ASSUME NEW j \in Jobs, NEW reset \in BOOLEAN, NEW enabled \in {"keep", "on", "off"},
             NEW o \in SaveOutcomes, UpdateScheduledJob(j, reset, enabled, o)
      PROVE Runs!Next \/ UNCHANGED Runs!vars
  BY <1>4, SwitchMaps DEF Runs!Next
<1>5. ASSUME NEW j \in Jobs, ExecuteBegin(j) PROVE Runs!Next
  BY <1>5, BeginMaps DEF Runs!Next
<1>6. ASSUME NEW j \in Jobs, AwaitSuccess(j) PROVE Runs!Next
  BY <1>6, SuccessMaps DEF Runs!Next
<1>7. ASSUME NEW j \in Jobs, AwaitFailure(j) PROVE Runs!Next
  BY <1>7, FailureMaps DEF Runs!Next
<1>8. ASSUME NEW j \in Jobs,
             \/ StopJob(j) \/ StartLoop(j) \/ LoopTick(j) \/ LoopExit(j) \/ SaveSnapshot(j)
             \/ \E o \in SaveOutcomes : PutSnapshot(j, o) \/ DeleteJob(j, o)
      PROVE UNCHANGED Runs!vars
  BY <1>8, OtherMaps
<1>9. ASSUME UNCHANGED <<job, pc, sincePause>> PROVE UNCHANGED Runs!vars
  BY <1>9, Unseen DEF SameRuns, Executing
<1> QED
  BY <1>1, <1>2, <1>3, <1>4, <1>5, <1>6, <1>7, <1>8, <1>9
  DEF Next, Api, Goroutine, Environment, StopAllScheduledJobs, StopScheduledJob,
      Tick, Deadline, TaskEnd, goroutineVars, historyVars, vars

\* The scheduler implements the service JobRuns describes, for every set of
\* jobs, every limit, and every number of crashes and failing store calls.
THEOREM RunsCorrect == Spec => RunsAsPromised
<1>1. Init => Runs!Init
  <2> SUFFICES ASSUME Init PROVE Runs!Init
    OBVIOUS
  <2>1. /\ FreshJob.enabled = TRUE /\ FreshJob.exec = 0 /\ FreshJob.succ + FreshJob.fail = 0
        /\ FreshJob.consec = 0
    BY DEF FreshJob
  <2>2. \A j \in Jobs : Executing(j) = FALSE
    BY DEF Init, Executing
  <2> QED
    BY <2>1, <2>2 DEF Init, Runs!Init
<1>2. Init => TypeInv /\ AutoDisableConsistent /\ AccountInv /\ PauseInv
  <2>1. \A n \in Nat : Balanced(FreshJob, 0, n)
    BY BalancedFresh
  <2>2. Init => AccountInv
    BY <2>1 DEF Init, AccountInv, ExecutionsAccounted, InFlight, Executing
  <2>3. Init => AutoDisableConsistent
    BY StreakFresh DEF Init, AutoDisableConsistent
  <2>4. Init => PauseInv
    BY DEF Init, PauseInv
  <2> QED
    BY <2>2, <2>3, <2>4, TypeInit
<1>3. TypeInv /\ AutoDisableConsistent /\ AccountInv /\ PauseInv /\ [Next]_vars
         => (TypeInv /\ AutoDisableConsistent /\ AccountInv /\ PauseInv)'
  BY TypeStep, StreakStep, AccountStep, PauseStep
<1> QED
  BY <1>1, <1>2, <1>3, RunsStep, PTL DEF Spec, RunsAsPromised, Runs!Spec
=============================================================================
