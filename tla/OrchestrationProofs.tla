------------------------- MODULE OrchestrationProofs -------------------------
(* Theorems about Orchestration, for any number of policies, any conditions    *)
(* and actions, and all bounds.                                                *)
EXTENDS Orchestration, TLAPS

-----------------------------------------------------------------------------
(* The invariant.                                                              *)

AtWork == {"act", "create", "command", "remove", "stabilize"}
Away == {"idle", "read"}
Stuck == {"Checking", "Operating"}

\* Where the controller is, or goes on once the object is saved.
Heading == IF pc = "save" THEN after ELSE pc

\* The kept measurements, and the controller's locals.
Short(obj) == \A i \in Policies : Len(obj[i].window) <= ConditionOf[i].period

Locals ==
    /\ stored # None => Short(stored)
    /\ pc \notin Away \cup {"policy"} => index \in Policies
    /\ pc = "save" => after \in {"policy", "checkMci", "measure"} \cup AtWork
    /\ pc \in Away => ~touched

TypeInv == TypeOK /\ Locals

\* The status of the policy in hand tells where the controller is.
Place ==
    /\ Heading \in {"checkMci", "measure"} => cur[index].status = "Checking"
    /\ Heading \in AtWork => cur[index].status \in {"Operating", "Failed"}
    /\ Heading = "act" => cur[index].status = "Operating"
    /\ pc = "save" /\ after = "policy" => cur[index].status \notin Stuck

\* A policy that is Checking or Operating was cut short, or is in hand.
Explained(obj) == \A i \in Policies :
    obj[i].status \in Stuck => i \in cut \/ (i = index /\ pc \notin Away \cup {"policy"})

\* No policy has more measurements than were taken since its last action, and a
\* Detected one has all it needs, and they meet its condition.
Enough(i, window) ==
    evidence[i] >= ConditionOf[i].period /\ Meets(window, ConditionOf[i])
Earned(obj) == \A i \in Policies :
    /\ obj[i].status # "Stabilizing" => Len(obj[i].window) <= evidence[i]
    /\ obj[i].status = "Detected" => Enough(i, obj[i].window)

StoreInv == stored # None /\ ~disturbed => Explained(stored) /\ Earned(stored)
CopyInv ==
    ~disturbed /\ ~touched /\ pc \notin Away =>
        /\ Explained(cur) /\ Earned(cur)
        /\ Heading = "act" => Enough(index, cur[index].window)

IInv == TypeInv /\ Place /\ StoreInv /\ CopyInv

-----------------------------------------------------------------------------
(* Policies and their objects.                                                 *)

LEMMA Constants_ ==
  /\ PolicyCount \in Nat /\ Policies \subseteq Nat /\ 1 \in 1..(PolicyCount + 1)
  /\ \A i \in Policies : ConditionOf[i].period \in Nat
  /\ \A i \in Policies : i \in 1..(PolicyCount + 1) /\ i + 1 \in 1..(PolicyCount + 1)
  BY ConditionAssumption DEF Policies

LEMMA NewFacts ==
  /\ NewObject \in Objects
  /\ \A i \in Policies : NewObject[i].status = "Ready" /\ Len(NewObject[i].window) = 0
<1>1. NewPolicy \in PolicyRecord /\ NewPolicy.status = "Ready" /\ Len(NewPolicy.window) = 0
  BY DEF NewPolicy, PolicyRecord, Statuses
<1> QED
  BY <1>1 DEF NewObject, Objects

\* What one policy of an object becomes, the others as they are.
Replaced(obj, new, i, status, window) ==
    /\ new \in Objects
    /\ new[i].status = status /\ new[i].window = window
    /\ \A j \in Policies : j # i => new[j] = obj[j]

LEMMA StatusReplaced ==
  ASSUME NEW obj \in Objects, NEW i \in Policies, NEW s \in Statuses
  PROVE  Replaced(obj, [obj EXCEPT ![i].status = s], i, s, obj[i].window)
<1>1. obj[i] \in PolicyRecord
  BY DEF Objects
<1>2. [obj[i] EXCEPT !.status = s] \in PolicyRecord
  BY <1>1 DEF PolicyRecord
<1>3. [obj EXCEPT ![i].status = s] = [obj EXCEPT ![i] = [obj[i] EXCEPT !.status = s]]
  OBVIOUS
<1>4. [obj EXCEPT ![i] = [obj[i] EXCEPT !.status = s]] \in Objects
  BY <1>2 DEF Objects
<1>5. [obj[i] EXCEPT !.status = s].status = s /\ [obj[i] EXCEPT !.status = s].window = obj[i].window
  BY <1>1 DEF PolicyRecord
<1> QED
  BY <1>3, <1>4, <1>5 DEF Replaced, Objects

LEMMA RecordReplaced ==
  ASSUME NEW obj \in Objects, NEW i \in Policies, NEW s \in Statuses,
         NEW w \in Seq(Loads \cup {NaN})
  PROVE  Replaced(obj, [obj EXCEPT ![i] = [status |-> s, window |-> w]], i, s, w)
<1>1. [status |-> s, window |-> w] \in PolicyRecord
  BY DEF PolicyRecord
<1> QED
  BY <1>1 DEF Replaced, Objects

LEMMA WindowFacts ==
  ASSUME NEW obj \in Objects, NEW i \in Policies
  PROVE  /\ obj[i].window \in Seq(Loads \cup {NaN}) /\ Len(obj[i].window) \in Nat
         /\ obj[i].status \in Statuses
<1>1. obj[i] \in PolicyRecord
  BY DEF Objects
<1> QED
  BY <1>1 DEF PolicyRecord

LEMMA MeasuredWindow ==
  ASSUME NEW w \in Seq(Loads \cup {NaN}), NEW load \in Loads \cup {NaN}, NEW period \in Nat,
         Len(w) <= period
  PROVE  /\ WithLoad(w, load, period) \in Seq(Loads \cup {NaN})
         /\ Len(WithLoad(w, load, period)) <= period
         /\ Len(WithLoad(w, load, period)) <= Len(w) + 1
<1> DEFINE longer == <<load>> \o w
<1>1. longer \in Seq(Loads \cup {NaN}) /\ Len(longer) = Len(w) + 1
  OBVIOUS
<1> HIDE DEF longer
<1>2. CASE Len(w) + 1 > period
  <2>1. WithLoad(w, load, period) = SubSeq(longer, 1, period)
    BY <1>2 DEF WithLoad, Trimmed, longer
  <2>2. period \in 0..Len(longer)
    BY <1>1, <1>2
  <2>3. SubSeq(longer, 1, period) \in Seq(Loads \cup {NaN}) /\ Len(SubSeq(longer, 1, period)) = period
    BY <1>1, <2>2
  <2> QED
    BY <2>1, <2>3, <1>2
<1>3. CASE ~(Len(w) + 1 > period)
  BY <1>1, <1>3 DEF WithLoad, longer
<1> QED
  BY <1>2, <1>3

LEMMA StatusAfterFacts ==
  ASSUME NEW w \in Seq(Loads \cup {NaN}), NEW condition, condition.period \in Nat
  PROVE  /\ StatusAfter(w, condition) \in {"Ready", "Detected", "Failed"}
         /\ StatusAfter(w, condition) = "Detected" =>
                Len(w) >= condition.period /\ Meets(w, condition)
  BY DEF StatusAfter

-----------------------------------------------------------------------------
(* Type correctness.                                                           *)

LEMMA ForgetType ==
  ASSUME Forget
  PROVE  /\ cur' \in Objects /\ Short(cur') /\ index' \in 1..(PolicyCount + 1)
         /\ after' = "idle" /\ touched' = FALSE
  BY Constants_, NewFacts DEF Forget, Short

LEMMA InitType == Init => TypeInv
<1> SUFFICES ASSUME Init PROVE TypeInv
  OBVIOUS
<1>1. TypeOK
  <2>1. /\ stored \in Objects \cup {None} /\ cur \in Objects /\ index \in 1..(PolicyCount + 1)
        /\ \A i \in Policies : Len(cur[i].window) <= ConditionOf[i].period
    BY Constants_, NewFacts DEF Init
  <2>2. mci \in {"there", "gone"} /\ vms \in 0..MaxVms /\ faults \in 0..MaxFaults
    BY BoundAssumption DEF Init
  <2> QED
    BY <2>1, <2>2 DEF Init, TypeOK, Labels
<1>2. Locals
  BY DEF Init, Locals, Away
<1> QED
  BY <1>1, <1>2 DEF TypeInv

\* The copy and the label after SetStatus.
LEMMA SetStatusType ==
  ASSUME TypeInv, index \in Policies, NEW s \in Statuses, NEW label, SetStatus(s, label)
  PROVE  /\ Replaced(cur, cur', index, s, cur[index].window)
         /\ cur' \in Objects /\ Short(cur')
         /\ pc' = "save" /\ after' = label
<1>1. Replaced(cur, cur', index, s, cur[index].window)
  BY StatusReplaced DEF SetStatus, TypeInv, TypeOK
<1> QED
  BY <1>1 DEF SetStatus, TypeInv, TypeOK, Replaced, Short

\* A step of the controller after which it is on its way to save.
LEMMA SavingType ==
  ASSUME TypeInv, index \in Policies, NEW s \in Statuses,
         NEW label \in {"policy", "checkMci", "measure"} \cup AtWork,
         SetStatus(s, label), UNCHANGED <<stored, mciVars, index, evidence, touched, disturbed>>,
         cut' \subseteq Policies, faults' \in 0..MaxFaults
  PROVE  TypeInv'
<1>1. cur' \in Objects /\ Short(cur') /\ pc' = "save" /\ after' = label
  BY SetStatusType
<1>2. TypeOK'
  BY <1>1 DEF TypeInv, TypeOK, Short, mciVars, Labels, AtWork
<1>3. Locals'
  BY <1>1 DEF TypeInv, Locals, Away
<1> QED
  BY <1>2, <1>3 DEF TypeInv

LEMMA FaultType == ASSUME TypeInv, Fault PROVE faults' \in 0..MaxFaults
  BY BoundAssumption DEF Fault, TypeInv, TypeOK

LEMMA StepType == ASSUME TypeInv, Next PROVE TypeInv'
<1> USE DEF TypeInv
<1>t. TypeOK /\ Locals
  OBVIOUS
<1>s. Statuses = {"Ready", "Checking", "Detected", "Operating", "Stabilizing", "Failed"}
  BY DEF Statuses
<1>1. CASE Tick
  BY <1>1 DEF Tick, TypeOK, Locals, Away, Labels, mciVars, historyVars
<1>2. CASE Read
  <2>1. faults' \in 0..MaxFaults
    BY <1>2, BoundAssumption DEF Read, TypeOK
  <2>2. /\ cur' \in Objects /\ Short(cur') /\ pc' \in {"policy", "idle"}
        /\ UNCHANGED <<stored, mciVars, after, index, historyVars>> /\ ~touched
    BY <1>2 DEF Read, TypeOK, Locals, Short, Away
  <2> QED
    BY <2>1, <2>2 DEF TypeOK, Locals, Away, Labels, Short, mciVars, historyVars
<1>3. CASE Save
  <2>1. index \in Policies /\ after \in {"policy", "checkMci", "measure"} \cup AtWork
    BY <1>3 DEF Save, Locals, Away
  <2>2. faults' \in 0..MaxFaults
    BY <1>3, FaultType DEF Save, TypeOK
  <2>3. stored' \in Objects \cup {None} /\ (stored' # None => Short(stored)')
    BY <1>3 DEF Save, TypeOK, Locals, Short
  <2>4. index' \in 1..(PolicyCount + 1) /\ (after # "policy" => index' \in Policies)
    BY <1>3, <2>1, Constants_ DEF Save
  <2>5. evidence' \in [Policies -> Nat]
    BY <1>3 DEF Save, TypeOK
  <2>6. disturbed' \in BOOLEAN /\ touched' = FALSE
    BY <1>3, Zenon DEF Save, TypeOK
  <2>7. TypeOK'
    BY <1>3, <2>1, <2>2, <2>3, <2>4, <2>5, <2>6 DEF Save, TypeOK, Labels, AtWork, mciVars
  <2>8. Locals'
    BY <1>3, <2>1, <2>3, <2>4, <2>6 DEF Save, Locals, Away, AtWork
  <2> QED
    BY <2>7, <2>8
<1>4. CASE EndOfTick
  BY <1>4, ForgetType DEF EndOfTick, Short, TypeOK, Locals, Away, Labels, mciVars
<1>5. CASE Check
  <2>1. /\ index \in Policies /\ SetStatus("Checking", "checkMci") /\ cut' \subseteq Policies
        /\ UNCHANGED <<stored, mciVars, index, faults, evidence, touched, disturbed>>
    BY <1>5 DEF Check, InHand, TypeOK
  <2> QED
    BY <2>1, SavingType, <1>s DEF TypeOK
<1>6. CASE Operate
  <2>1. /\ index \in Policies /\ SetStatus("Operating", "act") /\ cut' \subseteq Policies
        /\ UNCHANGED <<stored, mciVars, index, faults, evidence, touched, disturbed>>
    BY <1>6 DEF Operate, InHand, TypeOK
  <2> QED
    BY <2>1, SavingType, <1>s DEF TypeOK, AtWork
<1>7. CASE Stabilize
  <2>1. /\ index \in Policies /\ cut' \subseteq Policies /\ pc' = "save" /\ after' = "policy"
        /\ UNCHANGED <<stored, mciVars, index, faults, evidence, touched, disturbed>>
    BY <1>7 DEF Stabilize, InHand, TypeOK
  <2>2. Replaced(cur, cur', index, "Ready", <<>>)
    <3>1. cur' = [cur EXCEPT ![index] = [status |-> "Ready", window |-> <<>>]]
      BY <1>7 DEF Stabilize, Cleared
    <3>2. <<>> \in Seq(Loads \cup {NaN})
      OBVIOUS
    <3> QED
      BY <2>1, <3>1, <3>2, RecordReplaced, <1>s DEF TypeOK
  <2>3. cur' \in Objects /\ Short(cur')
    BY <2>1, <2>2, Constants_ DEF Replaced, Short, TypeOK
  <2> QED
    BY <2>1, <2>3 DEF TypeOK, Locals, Away, Short, Labels, mciVars
<1>8. CASE Retry
  <2>1. /\ index \in Policies /\ SetStatus("Ready", "policy") /\ cut' \subseteq Policies
        /\ UNCHANGED <<stored, mciVars, index, faults, evidence, touched, disturbed>>
    BY <1>8 DEF Retry, InHand, TypeOK
  <2> QED
    BY <2>1, SavingType, <1>s DEF TypeOK
<1>9. CASE Skip
  BY <1>9, Constants_ DEF Skip, NextPolicy, TypeOK, Locals, Away, Labels, mciVars, historyVars
<1>10. CASE CheckMci
  <2>1. index \in Policies /\ UNCHANGED <<stored, mciVars, index, faults, historyVars>>
    BY <1>10 DEF CheckMci, Locals, Away
  <2>2. SetStatus("Checking", "measure") \/ SetStatus("Failed", "policy")
    BY <1>10 DEF CheckMci
  <2> QED
    BY <2>1, <2>2, SavingType, <1>s DEF TypeOK, historyVars
<1>11. ASSUME NEW load \in Loads \cup {NaN}, Measure(load)
       PROVE  TypeInv'
  <2> DEFINE window == WithLoad(cur[index].window, load, ConditionOf[index].period)
  <2>1. /\ index \in Policies /\ pc' = "save" /\ after' = "policy"
        /\ UNCHANGED <<stored, mciVars, index, faults, cut, touched, disturbed>>
    BY <1>11 DEF Measure, Locals, Away
  <2>2. cur[index].window \in Seq(Loads \cup {NaN}) /\ Len(cur[index].window) <= ConditionOf[index].period
        /\ ConditionOf[index].period \in Nat
    BY <2>1, WindowFacts, Constants_ DEF TypeOK
  <2>3. window \in Seq(Loads \cup {NaN}) /\ Len(window) <= ConditionOf[index].period
    BY <2>2, MeasuredWindow
  <2>4. StatusAfter(window, ConditionOf[index]) \in Statuses
    BY <2>2, <2>3, StatusAfterFacts, <1>s
  <2>5. cur' = [cur EXCEPT ![index] = [status |-> StatusAfter(window, ConditionOf[index]), window |-> window]]
    BY <1>11 DEF Measure
  <2> HIDE DEF window
  <2>6. Replaced(cur, cur', index, StatusAfter(window, ConditionOf[index]), window)
    BY <2>1, <2>3, <2>4, <2>5, RecordReplaced DEF TypeOK
  <2>7. cur' \in Objects /\ Short(cur')
    BY <2>1, <2>3, <2>6 DEF Replaced, Short, TypeOK
  <2>8. evidence' \in [Policies -> Nat]
    <3>1. evidence[index] \in Nat /\ evidence[index] + 1 \in Nat
      BY <2>1 DEF TypeOK
    <3> QED
      BY <1>11, <2>1, <3>1 DEF Measure, TypeOK
  <2> QED
    BY <2>1, <2>7, <2>8 DEF TypeOK, Locals, Away, Short, Labels, mciVars
<1>12. CASE MeasureFails
  <2>1. index \in Policies /\ pc' = "policy" /\ index' = index + 1
        /\ UNCHANGED <<stored, mciVars, after, evidence, touched, disturbed>>
    BY <1>12 DEF MeasureFails, NextPolicy, Locals, Away
  <2>2. faults' \in 0..MaxFaults
    BY <1>12, FaultType DEF MeasureFails, TypeOK
  <2>3. Replaced(cur, cur', index, "Failed", cur[index].window)
    BY <1>12, <2>1, StatusReplaced, <1>s DEF MeasureFails, TypeOK
  <2>4. cur' \in Objects /\ Short(cur')
    BY <2>3 DEF Replaced, Short, TypeOK
  <2>5. cut' \subseteq Policies
    BY <1>12, <2>1 DEF MeasureFails, TypeOK
  <2> QED
    BY <2>1, <2>2, <2>4, <2>5, Constants_ DEF TypeOK, Locals, Away, Short, Labels, mciVars
<1>13. CASE Act
  BY <1>13 DEF Act, TypeOK, Locals, Away, Labels, mciVars, historyVars
<1>14. CASE ScaleOut
  BY <1>14, BoundAssumption DEF ScaleOut, TypeOK, Locals, Away, Labels, historyVars
<1>15. CASE ScaleOutFails
  <2>1. /\ index \in Policies /\ SetStatus("Failed", "command")
        /\ UNCHANGED <<stored, mciVars, index, historyVars>>
    BY <1>15 DEF ScaleOutFails, Locals, Away
  <2>2. faults' \in 0..MaxFaults
    BY <1>15, FaultType DEF ScaleOutFails, TypeOK
  <2> QED
    BY <2>1, <2>2, SavingType, <1>s DEF TypeOK, historyVars, AtWork
<1>16. CASE PostCommand
  BY <1>16 DEF PostCommand, TypeOK, Locals, Away, Labels, mciVars, historyVars
<1>17. CASE PostCommandFails
  <2>1. /\ index \in Policies /\ SetStatus("Failed", "stabilize")
        /\ UNCHANGED <<stored, mciVars, index, historyVars>>
    BY <1>17 DEF PostCommandFails, Locals, Away
  <2>2. faults' \in 0..MaxFaults
    BY <1>17, FaultType DEF PostCommandFails
  <2> QED
    BY <2>1, <2>2, SavingType, <1>s DEF TypeOK, historyVars, AtWork
<1>18. CASE ScaleIn
  BY <1>18, BoundAssumption DEF ScaleIn, TypeOK, Locals, Away, Labels, historyVars
<1>19. CASE ScaleInFails
  <2>1. /\ index \in Policies /\ SetStatus("Failed", "stabilize")
        /\ UNCHANGED <<stored, mciVars, index, historyVars>>
    BY <1>19 DEF ScaleInFails, Locals, Away
  <2>2. faults' \in 0..MaxFaults
    BY <1>19, FaultType DEF ScaleInFails
  <2> QED
    BY <2>1, <2>2, SavingType, <1>s DEF TypeOK, historyVars, AtWork
<1>20. CASE Acted
  <2>1. /\ index \in Policies /\ SetStatus("Stabilizing", "policy")
        /\ UNCHANGED <<stored, mciVars, index, faults, historyVars>>
    BY <1>20 DEF Acted, Locals, Away
  <2> QED
    BY <2>1, SavingType, <1>s DEF TypeOK, historyVars
<1>21. CASE CreateMciPolicy
  <2>1. stored' \in Objects /\ Short(stored')
    BY <1>21, NewFacts, Constants_ DEF CreateMciPolicy, Short
  <2>2. touched' \in BOOLEAN /\ disturbed' \in BOOLEAN /\ (pc \in Away => ~touched')
    BY <1>21, Zenon DEF CreateMciPolicy, Touch, TypeOK, Locals, Away
  <2>3. evidence' \in [Policies -> Nat] /\ cut' = {}
    BY <1>21 DEF CreateMciPolicy
  <2> QED
    BY <1>21, <2>1, <2>2, <2>3 DEF CreateMciPolicy, TypeOK, Locals, Short, ctlVars, mciVars
<1>22. CASE DelMciPolicy
  <2>1. touched' \in BOOLEAN /\ (pc \in Away => ~touched')
    BY <1>22, Zenon DEF DelMciPolicy, Touch, TypeOK, Locals, Away
  <2> QED
    BY <1>22, <2>1 DEF DelMciPolicy, TypeOK, Locals, ctlVars, mciVars
<1>23. CASE DelMci \/ CreateMci \/ DelMciVm
  BY <1>23, BoundAssumption DEF DelMci, CreateMci, DelMciVm, TypeOK, Locals, ctlVars, mciVars, historyVars
<1>24. CASE Crash
  <2>1. faults' \in 0..MaxFaults /\ cut' \subseteq Policies
    BY <1>24, FaultType DEF Crash, TypeOK
  <2> QED
    BY <1>24, <2>1, ForgetType DEF Crash, Short, TypeOK, Locals, Away, Labels, mciVars
<1> QED
  BY <1>1, <1>2, <1>3, <1>4, <1>5, <1>6, <1>7, <1>8, <1>9, <1>10, <1>11, <1>12, <1>13, <1>14,
     <1>15, <1>16, <1>17, <1>18, <1>19, <1>20, <1>21, <1>22, <1>23, <1>24
     DEF Next, Controller, Client

LEMMA StutterType == ASSUME TypeInv, UNCHANGED vars PROVE TypeInv'
  BY DEF TypeInv, TypeOK, Locals, vars, mciVars, ctlVars, historyVars

\* The types hold, and no more measurements are kept than the condition asks for,
\* whatever clients do between the controller's read and its write
\* (orchestration.go:141 to 155).
THEOREM TypeCorrect == Spec => []TypeOK
<1>1. TypeInv /\ [Next]_vars => TypeInv'
  BY StepType, StutterType
<1>2. TypeInv => TypeOK
  BY DEF TypeInv
<1> QED
  BY <1>1, <1>2, InitType, PTL DEF Spec

-----------------------------------------------------------------------------
(* The inductive step, by the shape of the action.                             *)

LEMMA InitInv == Init => IInv
<1> SUFFICES ASSUME Init PROVE IInv
  OBVIOUS
<1>1. Place
  BY DEF Init, Place, Heading, AtWork
<1> QED
  BY <1>1, InitType DEF Init, IInv, StoreInv, CopyInv, Away

\* Steps that set the status of the policy in hand and go on to save it.
LEMMA SavingStep ==
  ASSUME IInv, index \in Policies, pc \notin Away, NEW s \in Statuses,
         NEW label \in {"policy", "checkMci", "measure"} \cup AtWork,
         SetStatus(s, label), UNCHANGED <<stored, index, evidence, touched, disturbed>>,
         cut' = cut \/ cut' = cut \ {index},
         s = "Stabilizing" \/ cur[index].status # "Stabilizing",
         s # "Detected",
         label \in {"checkMci", "measure"} => s = "Checking",
         label \in AtWork => s \in {"Operating", "Failed"},
         label = "act" => s = "Operating" /\ cur[index].status = "Detected",
         label = "policy" => s \notin Stuck
  PROVE  Place' /\ StoreInv' /\ CopyInv'
<1>1. /\ Replaced(cur, cur', index, s, cur[index].window)
      /\ pc' = "save" /\ after' = label
  BY SetStatusType DEF IInv
<1>2. Heading' = label
  BY <1>1 DEF Heading
<1>3. Place'
  BY <1>1, <1>2 DEF Place, Replaced
<1>4. pc' \notin Away \cup {"policy"}
  BY <1>1 DEF Away
<1>5. ASSUME NEW obj, NEW new, Explained(obj),
             \A i \in Policies : i # index => new[i] = obj[i]
      PROVE  \A i \in Policies :
                 new[i].status \in Stuck => i \in cut' \/ (i = index' /\ pc' \notin Away \cup {"policy"})
  BY <1>4, <1>5 DEF Explained
<1>6. StoreInv'
  <2> SUFFICES ASSUME stored # None, ~disturbed PROVE Explained(stored)' /\ Earned(stored)'
    BY DEF StoreInv
  <2>1. Explained(stored) /\ Earned(stored)
    BY DEF IInv, StoreInv
  <2>2. Explained(stored)'
    BY <2>1, <1>5 DEF Explained
  <2> QED
    BY <2>1, <2>2 DEF Earned, Enough
<1>7. CopyInv'
  <2> SUFFICES ASSUME ~disturbed, ~touched
               PROVE  /\ Explained(cur)' /\ Earned(cur)'
                      /\ Heading' = "act" => Enough(index, cur[index].window)'
    BY DEF CopyInv
  <2>1. Explained(cur) /\ Earned(cur)
    BY DEF IInv, CopyInv
  <2>2. Explained(cur)'
    BY <2>1, <1>1, <1>5 DEF Explained, Replaced
  <2>3. Earned(cur)'
    BY <2>1, <1>1 DEF Earned, Enough, Replaced
  <2>4. label = "act" => Enough(index, cur[index].window)
    BY <2>1 DEF Earned
  <2> QED
    BY <2>2, <2>3, <2>4, <1>1, <1>2 DEF Enough, Replaced
<1> QED
  BY <1>3, <1>6, <1>7

\* Steps from one part of the action to the next.
LEMMA WorkingStep ==
  ASSUME IInv, pc \in AtWork, pc' \in AtWork \ {"act"},
         UNCHANGED <<stored, after, cur, index, historyVars>>
  PROVE  Place' /\ StoreInv' /\ CopyInv'
<1>1. pc # "save" /\ pc' # "save" /\ pc \notin Away \cup {"policy"} /\ pc' \notin Away \cup {"policy"}
  BY DEF AtWork, Away
<1>2. Heading = pc /\ Heading' = pc'
  BY <1>1 DEF Heading
<1>3. Place'
  BY <1>1, <1>2 DEF IInv, Place, AtWork
<1>4. StoreInv'
  BY <1>1 DEF IInv, StoreInv, Explained, Earned, Enough, historyVars
<1>5. CopyInv'
  BY <1>1, <1>2 DEF IInv, CopyInv, Explained, Earned, Enough, historyVars
<1> QED
  BY <1>3, <1>4, <1>5

\* Steps that leave the object and what is known of it alone.
LEMMA OutsideStep ==
  ASSUME IInv, UNCHANGED <<stored, ctlVars, historyVars>>
  PROVE  Place' /\ StoreInv' /\ CopyInv'
  BY DEF IInv, Place, Heading, StoreInv, CopyInv, Explained, Earned, Enough, ctlVars, historyVars

\* Steps of the controller to the next policy, or to its end: all that is stuck
\* was cut short.
LEMMA PolicyPlace ==
  ASSUME pc' \in Away \cup {"policy"}
  PROVE  Place'
  BY DEF Place, Heading, Away, AtWork

LEMMA TickStep == ASSUME IInv, Tick PROVE Place' /\ StoreInv' /\ CopyInv'
<1>1. pc' = "read" /\ pc = "idle" /\ UNCHANGED <<stored, index, historyVars>>
  BY DEF Tick
<1>2. StoreInv'
  BY <1>1 DEF IInv, StoreInv, Explained, Earned, Enough, Away, historyVars
<1> QED
  BY <1>1, <1>2, PolicyPlace DEF CopyInv, Away

LEMMA ReadStep == ASSUME IInv, Read PROVE Place' /\ StoreInv' /\ CopyInv'
<1>1. /\ pc = "read" /\ UNCHANGED <<stored, index, historyVars>>
      /\ (pc' = "idle" \/ (pc' = "policy" /\ stored # None /\ cur' = stored))
  BY DEF Read
<1>2. StoreInv'
  BY <1>1 DEF IInv, StoreInv, Explained, Earned, Enough, Away, historyVars
<1>3. CopyInv'
  <2> SUFFICES ASSUME ~disturbed, pc' = "policy"
               PROVE  Explained(cur)' /\ Earned(cur)' /\ Heading' # "act"
    BY <1>1 DEF CopyInv, Away, historyVars
  <2>1. Explained(stored) /\ Earned(stored) /\ cur' = stored
    BY <1>1 DEF IInv, StoreInv
  <2>2. Explained(cur)'
    BY <1>1, <2>1 DEF Explained, Away, historyVars
  <2>3. Earned(cur)'
    BY <1>1, <2>1 DEF Earned, Enough, historyVars
  <2> QED
    BY <2>2, <2>3 DEF Heading
<1> QED
  BY <1>1, <1>2, <1>3, PolicyPlace DEF Away

LEMMA SaveStep == ASSUME IInv, Save PROVE Place' /\ StoreInv' /\ CopyInv'
<1>1. /\ pc = "save" /\ index \in Policies /\ pc' = after /\ UNCHANGED <<cur, cut>>
      /\ touched' = FALSE
      /\ after \in {"policy", "checkMci", "measure"} \cup AtWork
      /\ index' = IF after = "policy" THEN index + 1 ELSE index
  BY DEF Save, IInv, TypeInv, Locals, Away
<1>2. Heading = after /\ Heading' = after /\ pc' # "save"
  BY <1>1 DEF Heading, AtWork
<1>3. Place'
  BY <1>1, <1>2 DEF IInv, Place, AtWork
<1>4. ASSUME ~disturbed' PROVE StoreInv' /\ CopyInv'
  <2>1. stored' = cur /\ ~disturbed /\ ~touched
    BY <1>4 DEF Save
  <2>2. Explained(cur) /\ Earned(cur) /\ (after = "act" => Enough(index, cur[index].window))
    BY <1>1, <1>2, <2>1 DEF IInv, CopyInv, Away
  <2>3. evidence' = IF cur[index].status = "Stabilizing" THEN [evidence EXCEPT ![index] = 0] ELSE evidence
    BY <2>1 DEF Save
  <2>4. Explained(cur)'
    <3> SUFFICES ASSUME NEW i \in Policies, cur[i].status \in Stuck, i \notin cut
                 PROVE  i = index' /\ pc' \notin Away \cup {"policy"}
      BY <1>1 DEF Explained
    <3>1. i = index
      BY <2>2 DEF Explained
    <3>2. after # "policy"
      BY <3>1, <1>1 DEF IInv, Place
    <3> QED
      BY <3>1, <3>2, <1>1 DEF Away, AtWork
  <2>5. Earned(cur)'
    <3> SUFFICES ASSUME NEW i \in Policies
                 PROVE  /\ cur[i].status # "Stabilizing" => Len(cur[i].window) <= evidence'[i]
                        /\ cur[i].status = "Detected" =>
                               evidence'[i] >= ConditionOf[i].period /\ Meets(cur[i].window, ConditionOf[i])
      BY <1>1 DEF Earned, Enough
    <3>1. CASE cur[i].status = "Stabilizing"
      BY <3>1
    <3>2. CASE cur[i].status # "Stabilizing"
      <4>1. evidence'[i] = evidence[i]
        BY <2>3, <3>2 DEF IInv, TypeInv, TypeOK
      <4> QED
        BY <4>1, <2>2 DEF Earned, Enough
    <3> QED
      BY <3>1, <3>2
  <2>6. Heading' = "act" => Enough(index, cur[index].window)'
    <3> SUFFICES ASSUME after = "act" PROVE Enough(index, cur[index].window)'
      BY <1>2
    <3>1. cur[index].status = "Operating"
      BY <1>2 DEF IInv, Place
    <3>2. evidence' = evidence /\ index' = index
      BY <3>1, <2>3, <1>1
    <3> QED
      BY <3>2, <2>2, <1>1 DEF Enough
  <2>7. Explained(stored)' /\ Earned(stored)'
    BY <2>1, <2>4, <2>5, <1>1 DEF Explained, Earned, Enough
  <2> QED
    BY <2>4, <2>5, <2>6, <2>7 DEF StoreInv, CopyInv
<1>5. CASE disturbed'
  BY <1>5, <1>3 DEF StoreInv, CopyInv
<1> QED
  BY <1>3, <1>4, <1>5

LEMMA EndOfTickStep == ASSUME IInv, EndOfTick PROVE Place' /\ StoreInv' /\ CopyInv'
<1>1. /\ pc = "policy" /\ pc' = "idle" /\ UNCHANGED <<stored, evidence, cut, disturbed>>
  BY DEF EndOfTick
<1>2. StoreInv'
  BY <1>1 DEF IInv, StoreInv, Explained, Earned, Enough, Away
<1> QED
  BY <1>1, <1>2, PolicyPlace DEF CopyInv, Away

LEMMA SkipStep == ASSUME IInv, Skip PROVE Place' /\ StoreInv' /\ CopyInv'
<1>1. /\ pc = "policy" /\ pc' = "policy" /\ UNCHANGED <<stored, cur, historyVars>>
  BY DEF Skip, NextPolicy
<1>2. StoreInv'
  BY <1>1 DEF IInv, StoreInv, Explained, Earned, Enough, Away, historyVars
<1>3. CopyInv'
  BY <1>1 DEF IInv, CopyInv, Explained, Earned, Enough, Away, Heading, historyVars
<1> QED
  BY <1>1, <1>2, <1>3, PolicyPlace

LEMMA StabilizeStep == ASSUME IInv, Stabilize PROVE Place' /\ StoreInv' /\ CopyInv'
<1>1. /\ pc = "policy" /\ pc' = "save" /\ after' = "policy" /\ index \in Policies
      /\ UNCHANGED <<stored, index, evidence, touched, disturbed>> /\ cut' = cut \ {index}
  BY DEF Stabilize, InHand
<1>2. Replaced(cur, cur', index, "Ready", <<>>)
  <2>1. cur' = [cur EXCEPT ![index] = [status |-> "Ready", window |-> <<>>]]
    BY DEF Stabilize, Cleared
  <2>2. <<>> \in Seq(Loads \cup {NaN}) /\ "Ready" \in Statuses
    BY DEF Statuses
  <2> QED
    BY <1>1, <2>1, <2>2, RecordReplaced DEF IInv, TypeInv, TypeOK
<1>3. Heading' = "policy" /\ pc' \notin Away \cup {"policy"} /\ pc \notin Away
  BY <1>1 DEF Heading, Away
<1>4. Place'
  BY <1>1, <1>2, <1>3 DEF Place, AtWork, Replaced, Stuck
<1>5. StoreInv'
  BY <1>1, <1>3 DEF IInv, StoreInv, Explained, Earned, Enough
<1>6. CopyInv'
  <2> SUFFICES ASSUME ~disturbed, ~touched PROVE Explained(cur)' /\ Earned(cur)'
    BY <1>1, <1>3 DEF CopyInv
  <2>1. Explained(cur) /\ Earned(cur)
    BY <1>3 DEF IInv, CopyInv
  <2>2. Explained(cur)'
    BY <1>1, <1>2, <1>3, <2>1 DEF Explained, Replaced
  <2>3. cur'[index].status = "Ready" /\ Len(cur'[index].window) = 0 /\ evidence[index] >= 0
    BY <1>1, <1>2 DEF Replaced, IInv, TypeInv, TypeOK
  <2>4. Earned(cur)'
    BY <1>1, <1>2, <2>1, <2>3 DEF Earned, Enough, Replaced
  <2> QED
    BY <2>2, <2>4
<1> QED
  BY <1>4, <1>5, <1>6

\* The only step to Detected: enough measurements since the last action.
LEMMA MeasureStep ==
  ASSUME IInv, NEW load \in Loads \cup {NaN}, Measure(load)
  PROVE  Place' /\ StoreInv' /\ CopyInv'
<1> DEFINE window == WithLoad(cur[index].window, load, ConditionOf[index].period)
           status == StatusAfter(window, ConditionOf[index])
<1>1. /\ pc = "measure" /\ pc' = "save" /\ after' = "policy" /\ index \in Policies
      /\ UNCHANGED <<stored, index, cut, touched, disturbed>>
  BY DEF Measure, IInv, TypeInv, Locals, Away
<1>2. /\ cur[index].window \in Seq(Loads \cup {NaN}) /\ Len(cur[index].window) \in Nat
      /\ Len(cur[index].window) <= ConditionOf[index].period
      /\ ConditionOf[index].period \in Nat
  BY <1>1, WindowFacts, Constants_ DEF IInv, TypeInv, TypeOK
<1>3. /\ window \in Seq(Loads \cup {NaN}) /\ Len(window) <= ConditionOf[index].period
      /\ Len(window) <= Len(cur[index].window) + 1
  BY <1>2, MeasuredWindow
<1>4. /\ status \in {"Ready", "Detected", "Failed"}
      /\ status = "Detected" => Len(window) >= ConditionOf[index].period /\ Meets(window, ConditionOf[index])
  BY <1>2, <1>3, StatusAfterFacts
<1>5. cur' = [cur EXCEPT ![index] = [status |-> status, window |-> window]]
  BY DEF Measure
<1> HIDE DEF window, status
<1>6. Replaced(cur, cur', index, status, window)
  BY <1>1, <1>3, <1>4, <1>5, RecordReplaced DEF IInv, TypeInv, TypeOK, Statuses
<1>7. evidence[index] \in Nat /\ evidence \in [Policies -> Nat]
  BY <1>1 DEF IInv, TypeInv, TypeOK
<1>8. /\ evidence'[index] = IF evidence[index] < ConditionOf[index].period THEN evidence[index] + 1
                            ELSE evidence[index]
      /\ \A i \in Policies : i # index => evidence'[i] = evidence[i]
  BY <1>1, <1>7 DEF Measure
<1>9. \A i \in Policies : evidence'[i] \in Nat /\ evidence[i] \in Nat /\ evidence'[i] >= evidence[i]
  BY <1>7, <1>8
<1>10. Heading = "measure" /\ Heading' = "policy" /\ pc' \notin Away \cup {"policy"} /\ pc \notin Away \cup {"policy"}
  BY <1>1 DEF Heading, Away
<1>11. Place'
  BY <1>1, <1>4, <1>6, <1>10 DEF Place, AtWork, Replaced, Stuck
<1>12. StoreInv'
  <2> SUFFICES ASSUME stored # None, ~disturbed PROVE Explained(stored)' /\ Earned(stored)'
    BY <1>1 DEF StoreInv
  <2>1. Explained(stored) /\ Earned(stored)
    BY DEF IInv, StoreInv
  <2>2. \A i \in Policies : Len(stored[i].window) \in Nat /\ ConditionOf[i].period \in Nat
    BY WindowFacts, Constants_ DEF IInv, TypeInv, TypeOK
  <2>3. Explained(stored)'
    BY <2>1, <1>1, <1>10 DEF Explained
  <2>4. Earned(stored)'
    BY <2>1, <2>2, <1>1, <1>9 DEF Earned, Enough
  <2> QED
    BY <2>3, <2>4
<1>13. CopyInv'
  <2> SUFFICES ASSUME ~disturbed, ~touched PROVE Explained(cur)' /\ Earned(cur)'
    BY <1>1, <1>10 DEF CopyInv
  <2>1. Explained(cur) /\ Earned(cur) /\ cur[index].status = "Checking"
    BY <1>10 DEF IInv, CopyInv, Place, Away
  <2>2. Explained(cur)'
    BY <1>1, <1>6, <1>10, <2>1 DEF Explained, Replaced
  <2>3. Len(cur[index].window) <= evidence[index]
    BY <2>1, <1>1 DEF Earned
  <2>4. Len(window) \in Nat /\ Len(window) <= evidence'[index]
    BY <2>3, <1>2, <1>3, <1>7, <1>8
  <2>5. status = "Detected" =>
            evidence'[index] >= ConditionOf[index].period /\ Meets(window, ConditionOf[index])
    BY <2>4, <1>2, <1>4, <1>9, <1>1
  <2>6. Earned(cur)'
    BY <1>1, <1>6, <1>8, <2>1, <2>4, <2>5 DEF Earned, Enough, Replaced
  <2> QED
    BY <2>2, <2>6
<1> QED
  BY <1>11, <1>12, <1>13

LEMMA MeasureFailsStep == ASSUME IInv, MeasureFails PROVE Place' /\ StoreInv' /\ CopyInv'
<1>1. /\ pc = "measure" /\ pc' = "policy" /\ index \in Policies
      /\ cut' = cut \cup {index} /\ UNCHANGED <<stored, evidence, touched, disturbed>>
      /\ cur' = [cur EXCEPT ![index].status = "Failed"]
  BY DEF MeasureFails, NextPolicy, IInv, TypeInv, Locals, Away
<1>2. Replaced(cur, cur', index, "Failed", cur[index].window)
  BY <1>1, StatusReplaced DEF IInv, TypeInv, TypeOK, Statuses
<1>3. StoreInv'
  BY <1>1 DEF IInv, StoreInv, Explained, Earned, Enough
<1>4. CopyInv'
  <2> SUFFICES ASSUME ~disturbed, ~touched PROVE Explained(cur)' /\ Earned(cur)' /\ Heading' # "act"
    BY <1>1 DEF CopyInv
  <2>1. Explained(cur) /\ Earned(cur) /\ cur[index].status = "Checking"
    BY <1>1 DEF IInv, CopyInv, Place, Away, Heading
  <2>2. Explained(cur)'
    BY <1>1, <1>2, <2>1 DEF Explained, Replaced
  <2>3. Earned(cur)'
    BY <1>1, <1>2, <2>1 DEF Earned, Enough, Replaced
  <2> QED
    BY <2>2, <2>3, <1>1 DEF Heading
<1> QED
  BY <1>1, <1>3, <1>4, PolicyPlace

LEMMA CreateMciPolicyStep == ASSUME IInv, CreateMciPolicy PROVE Place' /\ StoreInv' /\ CopyInv'
<1>1. /\ stored' = NewObject /\ evidence' = [i \in Policies |-> 0]
      /\ UNCHANGED ctlVars /\ (pc \notin Away => touched')
  BY DEF CreateMciPolicy, Touch, Away
<1>2. Place'
  BY <1>1 DEF IInv, Place, Heading, ctlVars
<1>3. StoreInv'
  BY <1>1, NewFacts DEF StoreInv, Explained, Earned, Enough, Stuck
<1>4. CopyInv'
  BY <1>1 DEF CopyInv, ctlVars
<1> QED
  BY <1>2, <1>3, <1>4

LEMMA DelMciPolicyStep == ASSUME IInv, DelMciPolicy PROVE Place' /\ StoreInv' /\ CopyInv'
<1>1. /\ stored' = None /\ UNCHANGED ctlVars /\ (pc \notin Away => touched')
  BY DEF DelMciPolicy, Touch, Away
<1> QED
  BY <1>1 DEF IInv, Place, Heading, StoreInv, CopyInv, ctlVars

LEMMA CrashStep == ASSUME IInv, Crash PROVE Place' /\ StoreInv' /\ CopyInv'
<1>1. /\ pc' = "idle" /\ UNCHANGED <<stored, evidence, disturbed>> /\ cut \subseteq cut'
      /\ pc \notin Away /\ index \in Policies => index \in cut'
  BY DEF Crash, Away
<1>2. StoreInv'
  BY <1>1 DEF IInv, StoreInv, Explained, Earned, Enough, Away
<1> QED
  BY <1>1, <1>2, PolicyPlace DEF CopyInv, Away

LEMMA ControllerStep == ASSUME IInv, Controller PROVE Place' /\ StoreInv' /\ CopyInv'
<1>i. TypeInv /\ Place
  BY DEF IInv
<1>s. Statuses = {"Ready", "Checking", "Detected", "Operating", "Stabilizing", "Failed"}
  BY DEF Statuses
<1>1. CASE Check
  BY <1>1, SavingStep, <1>s DEF Check, InHand, AtWork, Away
<1>2. CASE Operate
  BY <1>2, SavingStep, <1>s DEF Operate, InHand, AtWork, Away
<1>3. CASE Retry
  BY <1>3, SavingStep, <1>s DEF Retry, Retried, InHand, AtWork, Away, Stuck
<1>4. CASE CheckMci
  <2>1. /\ index \in Policies /\ pc \notin Away /\ cur[index].status = "Checking"
        /\ UNCHANGED <<stored, index, evidence, touched, disturbed, cut>>
    BY <1>4, <1>i DEF CheckMci, TypeInv, Locals, Place, Heading, Away, historyVars
  <2>2. SetStatus("Checking", "measure") \/ SetStatus("Failed", "policy")
    BY <1>4 DEF CheckMci
  <2> QED
    BY <2>1, <2>2, SavingStep, <1>s DEF AtWork, Stuck
<1>5. CASE ScaleOutFails \/ PostCommandFails \/ ScaleInFails
  <2>1. /\ pc \in AtWork /\ pc # "save" /\ pc \notin Away
        /\ UNCHANGED <<stored, index, evidence, touched, disturbed, cut>>
        /\ (SetStatus("Failed", "command") \/ SetStatus("Failed", "stabilize"))
    BY <1>5 DEF ScaleOutFails, PostCommandFails, ScaleInFails, AtWork, Away, historyVars
  <2>2. index \in Policies /\ cur[index].status \in {"Operating", "Failed"}
    BY <2>1, <1>i DEF TypeInv, Locals, Place, Heading, Away, AtWork
  <2> QED
    BY <2>1, <2>2, SavingStep, <1>s DEF AtWork
<1>6. CASE Acted
  <2>1. /\ pc \in AtWork /\ pc # "save" /\ pc \notin Away
        /\ UNCHANGED <<stored, index, evidence, touched, disturbed, cut>>
        /\ SetStatus("Stabilizing", "policy")
    BY <1>6 DEF Acted, AtWork, Away, historyVars
  <2>2. index \in Policies
    BY <2>1, <1>i DEF TypeInv, Locals, Away, AtWork
  <2> QED
    BY <2>1, <2>2, SavingStep, <1>s DEF AtWork, Stuck
<1>7. CASE Act \/ ScaleOut \/ PostCommand \/ ScaleIn
  <2>1. /\ pc \in AtWork /\ pc' \in AtWork \ {"act"}
        /\ UNCHANGED <<stored, after, cur, index, historyVars>>
    BY <1>7 DEF Act, ScaleOut, PostCommand, ScaleIn, AtWork
  <2> QED
    BY <2>1, WorkingStep
<1> QED
  BY <1>1, <1>2, <1>3, <1>4, <1>5, <1>6, <1>7, TickStep, ReadStep, SaveStep, EndOfTickStep,
     SkipStep, StabilizeStep, MeasureStep, MeasureFailsStep DEF Controller

LEMMA InvStep == IInv /\ [Next]_vars => IInv'
<1> SUFFICES ASSUME IInv, [Next]_vars PROVE Place' /\ StoreInv' /\ CopyInv'
  BY StepType, StutterType DEF IInv
<1>1. CASE Controller
  BY <1>1, ControllerStep
<1>2. CASE DelMci \/ CreateMci \/ DelMciVm
  BY <1>2, OutsideStep DEF DelMci, CreateMci, DelMciVm
<1>3. CASE UNCHANGED vars
  BY <1>3, OutsideStep DEF vars
<1> QED
  BY <1>1, <1>2, <1>3, CreateMciPolicyStep, DelMciPolicyStep, CrashStep DEF Next, Client

-----------------------------------------------------------------------------
(* The theorems.                                                               *)

LEMMA InvImplies == IInv => EvidenceFirst /\ StuckIsExplained
<1> SUFFICES ASSUME IInv PROVE EvidenceFirst /\ StuckIsExplained
  OBVIOUS
<1>1. EvidenceFirst
  BY DEF IInv, CopyInv, EvidenceFirst, Enough, Heading, Away
<1>2. StuckIsExplained
  BY DEF IInv, StoreInv, StuckIsExplained, Explained, Stuck, Away
<1> QED
  BY <1>1, <1>2

\* An action is carried out on enough measurements of its own, which meet its
\* condition (orchestration.go:128 to 208), for any number of policies, and
\* whatever crashes and failures there are.
THEOREM EvidenceCorrect == Spec => []EvidenceFirst
<1>1. IInv => EvidenceFirst
  BY InvImplies
<1> QED
  BY InitInv, InvStep, <1>1, PTL DEF Spec

\* A policy stuck in Checking or Operating was cut short by a failing measurement
\* or a crash, or its object was disturbed (orchestration.go:213, 346).
THEOREM StuckCorrect == Spec => []StuckIsExplained
<1>1. IInv => StuckIsExplained
  BY InvImplies
<1> QED
  BY InitInv, InvStep, <1>1, PTL DEF Spec
=============================================================================
