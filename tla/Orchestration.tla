---------------------------- MODULE Orchestration ----------------------------
(***************************************************************************)
(* Automatic scaling of one MCI (core/infra/orchestration.go).  A ticker   *)
(* runs OrchestrationController, one run at a time (main.go).  It reads    *)
(* the policy object of the MCI, takes each policy in it one status on,    *)
(* and after every change writes the whole object back, whatever became of *)
(* it in the store meanwhile: clients create and delete policies and MCIs  *)
(* in other goroutines, and a measurement or a new VM takes minutes.       *)
(*                                                                         *)
(* A policy is Ready, Checking while its MCI is measured, Detected when    *)
(* the average of the last measurements meets its condition, Operating     *)
(* while its action is carried out, Stabilizing, and Ready again.          *)
(***************************************************************************)
EXTENDS Integers, Sequences, SequencesExt

CONSTANTS
    PolicyCount, \* policies in the object
    ConditionOf, \* AutoCondition of each: operator, operand, period
    ActionOf,    \* AutoAction.ActionType of each
    Loads,       \* what a measurement of the MCI gives
    NaN,         \* the average over no VMs
    None,        \* there is no policy object
    MaxVms,      \* bound on the VMs of the MCI
    MaxFaults    \* bound on failing calls and crashes

Policies == 1..PolicyCount
Operators == {">=", ">", "<=", "<"}

ASSUME ConditionAssumption ==
    /\ PolicyCount \in Nat
    /\ \A i \in Policies : ConditionOf[i].period \in Nat
ASSUME BoundAssumption == Loads \subseteq Nat /\ MaxVms \in Nat \ {0} /\ MaxFaults \in Nat
ASSUME NaNAssumption == NaN \notin Nat

VARIABLES
    stored,   \* the policy object in the store
    mci,      \* the MCI: there or gone
    vms,      \* the number of its VMs
    pc,       \* where the controller is
    after,    \* where it goes on after UpdateMciPolicyInfo
    cur,      \* mciPolicyTmp
    index,    \* policyIndex
    faults,
    evidence, \* history: measurements of each policy since its last action was done
    cut,      \* history: policies whose handling was cut short by a failing
              \* measurement or by a crash
    touched,  \* history: a client changed the object since it was read
    disturbed \* history: an update of the object failed or undid a client's

ctlVars == <<pc, after, cur, index>>
mciVars == <<mci, vms>>
historyVars == <<evidence, cut, touched, disturbed>>
vars == <<stored, mciVars, ctlVars, faults, historyVars>>

Statuses == {"Ready", "Checking", "Detected", "Operating", "Stabilizing", "Failed"}
PolicyRecord == [status : Statuses, window : Seq(Loads \cup {NaN})]
Objects == [Policies -> PolicyRecord]
NewPolicy == [status |-> "Ready", window |-> <<>>]
NewObject == [i \in Policies |-> NewPolicy]
Labels == {"idle", "read", "policy", "save", "checkMci", "measure", "act", "create",
           "command", "remove", "stabilize"}

Init ==
    /\ stored = None /\ mci = "there" /\ vms = 1
    /\ pc = "idle" /\ after = "idle" /\ cur = NewObject /\ index = 1
    /\ faults = 0
    /\ evidence = [i \in Policies |-> 0] /\ cut = {}
    /\ touched = FALSE /\ disturbed = FALSE

\* A call to the CSP, CB-Dragonfly or etcd that fails.
Fault == faults < MaxFaults /\ faults' = faults + 1

\* Sets the status of the policy in hand, then saves the object.
SetStatus(status, label) ==
    /\ cur' = [cur EXCEPT ![index].status = status]
    /\ pc' = "save" /\ after' = label

\* The run of the controller is over, and its locals with it.
Forget == cur' = NewObject /\ index' = 1 /\ after' = "idle" /\ touched' = FALSE

\* On to the next policy of the object.
NextPolicy == pc' = "policy" /\ index' = index + 1

-----------------------------------------------------------------------------
(* The controller.                                                           *)

Tick ==
    /\ pc = "idle" /\ stored # None
    /\ pc' = "read"
    /\ UNCHANGED <<stored, mciVars, after, cur, index, faults, historyVars>>

\* An object that is gone by now, or can not be read, has no policies.
Read ==
    /\ pc = "read"
    /\ \/ /\ stored # None
          /\ cur' = stored /\ pc' = "policy"
          /\ UNCHANGED faults
       \/ /\ stored = None \/ faults < MaxFaults
          /\ pc' = "idle"
          /\ faults' = IF stored = None THEN faults ELSE faults + 1
          /\ UNCHANGED cur
    /\ UNCHANGED <<stored, mciVars, after, index, historyVars>>

\* UpdateMciPolicyInfo, a Put whose error is logged.
Save ==
    /\ pc = "save"
    /\ \/ /\ stored' = cur
          /\ disturbed' = (disturbed \/ touched)
          /\ UNCHANGED faults
       \/ /\ Fault
          /\ disturbed' = TRUE
          /\ UNCHANGED stored
    /\ touched' = FALSE
    /\ pc' = after /\ after' = "idle"
    /\ index' = IF after = "policy" THEN index + 1 ELSE index
    /\ evidence' = IF cur[index].status = "Stabilizing" /\ stored' = cur
                   THEN [evidence EXCEPT ![index] = 0] ELSE evidence
    /\ UNCHANGED <<mciVars, cur, cut>>

\* All policies are done.
EndOfTick ==
    /\ pc = "policy" /\ index \notin Policies
    /\ pc' = "idle"
    /\ Forget
    /\ UNCHANGED <<stored, mciVars, faults, evidence, cut, disturbed>>

InHand(status) ==
    /\ pc = "policy" /\ index \in Policies
    /\ cur[index].status = status
    /\ cut' = cut \ {index}
    /\ UNCHANGED <<stored, mciVars, faults, evidence, touched, disturbed>>

Check == InHand("Ready") /\ SetStatus("Checking", "checkMci") /\ UNCHANGED index

Operate == InHand("Detected") /\ SetStatus("Operating", "act") /\ UNCHANGED index

KeepWindow(window) == window
Cleared(window) == <<>>

\* Forgets the measurements, "so that controller does not act too early".
Stabilize ==
    /\ InHand("Stabilizing")
    /\ cur' = [cur EXCEPT ![index] = [status |-> "Ready", window |-> Cleared(@.window)]]
    /\ pc' = "save" /\ after' = "policy"
    /\ UNCHANGED index

OnlyStabilizing == {}
Retried == {"Failed"}

Retry ==
    /\ \E s \in Retried : InHand(s)
    /\ SetStatus("Ready", "policy")
    /\ UNCHANGED index

\* Nothing is done about the others.
Skip ==
    /\ pc = "policy" /\ index \in Policies
    /\ cur[index].status \notin {"Ready", "Detected", "Stabilizing"} \cup Retried
    /\ NextPolicy
    /\ UNCHANGED <<stored, mciVars, after, cur, faults, historyVars>>

CheckMci ==
    /\ pc = "checkMci"
    /\ IF mci # "gone" THEN SetStatus("Checking", "measure") ELSE SetStatus("Failed", "policy")
    /\ UNCHANGED <<stored, mciVars, index, faults, historyVars>>

-----------------------------------------------------------------------------
(* A measurement and what follows from it.                                   *)

Trimmed(window, period) == SubSeq(window, 1, period)
WithLoad(window, load, period) ==
    IF Len(window) + 1 > period THEN Trimmed(<<load>> \o window, period)
                                ELSE <<load>> \o window

\* The average against the operand; nothing is true of NaN.
Meets(window, condition) ==
    LET sum == FoldLeft(LAMBDA x, y : x + y, 0, window)
        bound == condition.operand * condition.period
    IN  /\ \A k \in DOMAIN window : window[k] # NaN
        /\ CASE condition.operator = ">=" -> sum >= bound
             [] condition.operator = ">"  -> sum > bound
             [] condition.operator = "<=" -> sum <= bound
             [] condition.operator = "<"  -> sum < bound
             [] OTHER -> FALSE

StatusWithoutReady(window, condition) ==
    IF Len(window) < condition.period THEN "Checking"
    ELSE IF Meets(window, condition) THEN "Detected" ELSE "Ready"
StatusAfter(window, condition) ==
    IF condition.period = 0 THEN "Failed"
    ELSE IF Len(window) < condition.period THEN "Ready"
    ELSE IF condition.operator \notin Operators THEN "Failed"
    ELSE IF Meets(window, condition) THEN "Detected" ELSE "Ready"

Measure(load) ==
    /\ pc = "measure"
    /\ load \in IF vms = 0 THEN {NaN} ELSE Loads
    /\ LET condition == ConditionOf[index]
           window == WithLoad(cur[index].window, load, condition.period)
       IN  cur' = [cur EXCEPT ![index] = [status |-> StatusAfter(window, condition),
                                          window |-> window]]
    /\ evidence' = [evidence EXCEPT ![index] = IF @ < ConditionOf[index].period THEN @ + 1 ELSE @]
    /\ pc' = "save" /\ after' = "policy"
    /\ UNCHANGED <<stored, mciVars, index, faults, cut, touched, disturbed>>

\* The status Failed stays in memory, unless another policy's update saves it.
MeasureFails ==
    /\ pc = "measure"
    /\ IF mci # "gone" THEN Fault ELSE UNCHANGED faults
    /\ cur' = [cur EXCEPT ![index].status = "Failed"]
    /\ cut' = cut \cup {index}
    /\ NextPolicy
    /\ UNCHANGED <<stored, mciVars, after, evidence, touched, disturbed>>

-----------------------------------------------------------------------------
(* The action.  Its failure is saved, and overwritten by Stabilizing.        *)

Act ==
    /\ pc = "act"
    /\ pc' = CASE ActionOf[index] = "ScaleOut" -> "create"
               [] ActionOf[index] = "ScaleIn" -> "remove"
               [] OTHER -> "stabilize"
    /\ UNCHANGED <<stored, mciVars, after, cur, index, faults, historyVars>>

\* CreateMciSubGroupDynamic: the VMs of a new subgroup, labelled with the value
\* StrAutoGen, not the key.
ScaleOut ==
    /\ pc = "create" /\ mci # "gone" /\ vms < MaxVms
    /\ vms' = vms + 1
    /\ pc' = "command"
    /\ UNCHANGED <<stored, mci, after, cur, index, faults, historyVars>>

ScaleOutFails ==
    /\ pc = "create"
    /\ IF mci # "gone" /\ vms < MaxVms THEN Fault ELSE UNCHANGED faults
    /\ SetStatus("Failed", "command")
    /\ UNCHANGED <<stored, mciVars, index, historyVars>>

PostCommand ==
    /\ pc = "command"
    /\ pc' = "stabilize"
    /\ UNCHANGED <<stored, mciVars, after, cur, index, faults, historyVars>>

PostCommandFails ==
    /\ pc = "command"
    /\ Fault
    /\ SetStatus("Failed", "stabilize")
    /\ UNCHANGED <<stored, mciVars, index, historyVars>>

\* ListVmByLabel asks for the key StrAutoGen: the last of the VMs a client gave
\* such a label is deleted, if there is one.
ScaleIn ==
    /\ pc = "remove"
    /\ vms' \in {vms} \cup {n \in {vms - 1} : vms > 0}
    /\ pc' = "stabilize"
    /\ UNCHANGED <<stored, mci, after, cur, index, faults, historyVars>>

ScaleInFails ==
    /\ pc = "remove"
    /\ Fault
    /\ SetStatus("Failed", "stabilize")
    /\ UNCHANGED <<stored, mciVars, index, historyVars>>

Acted ==
    /\ pc = "stabilize"
    /\ SetStatus("Stabilizing", "policy")
    /\ UNCHANGED <<stored, mciVars, index, faults, historyVars>>

Controller ==
    \/ Tick \/ Read \/ Save \/ EndOfTick
    \/ Check \/ Operate \/ Stabilize \/ Retry \/ Skip
    \/ CheckMci \/ (\E load \in Loads \cup {NaN} : Measure(load)) \/ MeasureFails
    \/ Act \/ ScaleOut \/ ScaleOutFails \/ PostCommand \/ PostCommandFails
    \/ ScaleIn \/ ScaleInFails \/ Acted

-----------------------------------------------------------------------------
(* Clients, and the server.                                                  *)

\* The controller has read the object, and will put back what it read.
Touch == touched' = (touched \/ pc \notin {"idle", "read"})

CreateMciPolicy ==
    /\ stored = None
    /\ stored' = NewObject
    /\ evidence' = [i \in Policies |-> 0]
    /\ cut' = {}
    /\ Touch
    /\ disturbed' = (disturbed /\ pc # "idle")
    /\ UNCHANGED <<mciVars, ctlVars, faults>>

\* A call of a client, or the first thing DelMci does.
DelMciPolicy ==
    /\ stored # None
    /\ stored' = None
    /\ Touch
    /\ UNCHANGED <<mciVars, ctlVars, faults, evidence, cut, disturbed>>

\* The MCI goes minutes after DelMci began; there may be a policy again by then.
DelMci ==
    /\ mci = "there"
    /\ mci' = "gone" /\ vms' = 0
    /\ UNCHANGED <<stored, ctlVars, faults, historyVars>>

CreateMci ==
    /\ mci = "gone"
    /\ mci' = "there" /\ vms' = 1
    /\ UNCHANGED <<stored, ctlVars, faults, historyVars>>

DelMciVm ==
    /\ vms > 0
    /\ vms' = vms - 1
    /\ UNCHANGED <<stored, mci, ctlVars, faults, historyVars>>

\* The server stops and is started again.
Crash ==
    /\ Fault
    /\ pc' = "idle"
    /\ cut' = IF pc \in {"idle", "read"} THEN cut ELSE cut \cup ({index} \cap Policies)
    /\ Forget
    /\ UNCHANGED <<stored, mciVars, evidence, disturbed>>

Client == CreateMciPolicy \/ DelMciPolicy \/ DelMci \/ CreateMci \/ DelMciVm

Next == Controller \/ Client \/ Crash

Spec == Init /\ [][Next]_vars

\* The ticker ticks, and calls return.
FairSpec == Spec /\ WF_vars(Controller)

-----------------------------------------------------------------------------
(* Properties.                                                               *)

\* The types; no more measurements are kept than the condition asks for.
TypeOK ==
    /\ stored \in Objects \cup {None} /\ cur \in Objects
    /\ mci \in {"there", "gone"} /\ vms \in 0..MaxVms
    /\ pc \in Labels /\ after \in Labels /\ index \in 1..(PolicyCount + 1)
    /\ faults \in 0..MaxFaults
    /\ evidence \in [Policies -> Nat] /\ cut \subseteq Policies
    /\ touched \in BOOLEAN /\ disturbed \in BOOLEAN
    /\ \A i \in Policies : Len(cur[i].window) <= ConditionOf[i].period

\* An action is carried out on evidence of its own: since the last action of the
\* policy there were as many measurements as its condition asks for, and on
\* average they meet it (orchestration.go:128 to 208, 339).  A crash does not make
\* the controller act twice.  Excepted is an object of which an update failed, or
\* that a client deleted or made anew while the controller worked on its copy.
EvidenceFirst ==
    pc = "act" /\ ~touched /\ ~disturbed =>
        /\ evidence[index] >= ConditionOf[index].period
        /\ Meets(cur[index].window, ConditionOf[index])

\* While the controller is away no policy is Checking or Operating, statuses that
\* it never takes further (orchestration.go:213, 346), unless a failing
\* measurement or a crash cut its handling short, or an update failed or undid
\* one of a client.
StuckIsExplained ==
    pc = "idle" /\ stored # None /\ ~disturbed =>
        \A i \in Policies : stored[i].status \in {"Checking", "Operating"} => i \in cut

\* A policy that detected something, acted or failed is Ready again some time,
\* whatever becomes of its action (orchestration.go:217 to 354), or is deleted,
\* unless its handling is cut short or its object disturbed.
ReadyAgain ==
    \A i \in Policies :
        (stored # None /\ stored[i].status \in {"Detected", "Stabilizing", "Failed"}) ~>
            \/ stored = None \/ disturbed \/ i \in cut
            \/ stored # None /\ stored[i].status = "Ready"
=============================================================================
