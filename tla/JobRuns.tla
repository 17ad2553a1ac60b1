------------------------------- MODULE JobRuns -------------------------------
(***************************************************************************)
(* What the job scheduler promises of the executions of its jobs, without  *)
(* goroutines, tickers, contexts, records or retries: executions of a job  *)
(* do not overlap, each ends as a success or a failure, a series of Limit  *)
(* failures disables the job just when it is complete, and at most one     *)
(* execution begins after a job was disabled.  A crash loses what runs,    *)
(* and a job may come back as any earlier save left it.                    *)
(***************************************************************************)
EXTENDS Naturals

CONSTANTS Jobs, Limit

VARIABLES
    enabled, \* the job is to be executed
    running, \* an execution of the job is under way
    late,    \* executions begun since the job was last disabled
    begun,   \* its executions
    ended,   \* those that succeeded or failed
    streak   \* failures since the last success

vars == <<enabled, running, late, begun, ended, streak>>

Init ==
    /\ enabled = [j \in Jobs |-> TRUE]
    /\ running = [j \in Jobs |-> FALSE]
    /\ late = [j \in Jobs |-> 0]
    /\ begun = [j \in Jobs |-> 0]
    /\ ended = [j \in Jobs |-> 0]
    /\ streak = [j \in Jobs |-> 0]

Begin(j) ==
    /\ ~running[j]
    /\ enabled[j] \/ late[j] = 0
    /\ running' = [running EXCEPT ![j] = TRUE]
    /\ begun' = [begun EXCEPT ![j] = @ + 1]
    /\ late' = [late EXCEPT ![j] = IF enabled[j] THEN @ ELSE @ + 1]
    /\ UNCHANGED <<enabled, ended, streak>>

End(j) ==
    /\ running[j]
    /\ running' = [running EXCEPT ![j] = FALSE]
    /\ ended' = [ended EXCEPT ![j] = @ + 1]
    /\ UNCHANGED <<late, begun>>

Succeed(j) ==
    /\ End(j)
    /\ streak' = [streak EXCEPT ![j] = 0]
    /\ UNCHANGED enabled

Fail(j) ==
    /\ End(j)
    /\ streak' = [streak EXCEPT ![j] = @ + 1]
    /\ enabled' = [enabled EXCEPT ![j] = @ /\ streak[j] + 1 # Limit]

\* A client resumes or pauses the job.
Switch(j, on) ==
    /\ enabled' = [enabled EXCEPT ![j] = on]
    /\ late' = [late EXCEPT ![j] = 0]
    /\ UNCHANGED <<running, begun, ended, streak>>

\* A new job.
Create(j) ==
    /\ ~running[j]
    /\ enabled' = [enabled EXCEPT ![j] = TRUE]
    /\ begun' = [begun EXCEPT ![j] = 0]
    /\ ended' = [ended EXCEPT ![j] = 0]
    /\ streak' = [streak EXCEPT ![j] = 0]
    /\ UNCHANGED <<running, late>>

Crash ==
    /\ enabled' = [j \in Jobs |-> TRUE]
    /\ running' = [j \in Jobs |-> FALSE]
    /\ late' = [j \in Jobs |-> 0]
    /\ begun' = [j \in Jobs |-> 0]
    /\ ended' = [j \in Jobs |-> 0]
    /\ streak' = [j \in Jobs |-> 0]

\* Jobs come back after a restart, with no execution counted that never began.
Recover ==
    /\ \A j \in Jobs : ~running[j] /\ ended'[j] <= begun'[j]
    /\ UNCHANGED <<running, late>>

Next ==
    \/ \E j \in Jobs :
          \/ Begin(j)
          \/ Succeed(j)
          \/ Fail(j)
          \/ \E on \in BOOLEAN : Switch(j, on)
          \/ Create(j)
    \/ Crash
    \/ Recover

Spec == Init /\ [][Next]_vars
=============================================================================
