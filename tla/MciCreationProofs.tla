------------------------- MODULE MciCreationProofs -------------------------
(* Theorems about MciCreation, for any number of creations, status         *)
(* requests, VMs and failing calls.                                        *)
EXTENDS MciCreation, TLAPS

Types == UNION {[V -> Statuses] : V \in SUBSET Vms}

-----------------------------------------------------------------------------
(* The operators on records, places and labels. *)

LEMMA ConstantTypes ==
    /\ NoMci \in MciRecord
    /\ NewVm \in VmRecord /\ NoVm \in VmRecord
    /\ Out \in [Vms -> Places]
    /\ Unseen \in Types /\ DOMAIN Unseen = {}
<1>1. NoMci \in MciRecord
  BY DEF NoMci, MciRecord, MciStatuses
<1>2. NewVm \in VmRecord /\ NoVm \in VmRecord
  BY DEF NewVm, NoVm, VmRecord, Statuses, Stable, Transitional
<1>3. Out \in [Vms -> Places]
  BY DEF Out, Places
<1>4. Unseen \in [{} -> Statuses] /\ {} \in SUBSET Vms
  BY DEF Unseen
<1> QED
  BY <1>1, <1>2, <1>3, <1>4 DEF Types

LEMMA CorrectedType ==
    ASSUME NEW r \in VmRecord, NEW s \in Statuses
    PROVE  Corrected(r, s) \in Statuses
BY DEF Corrected, VmRecord, During, Statuses, Stable, Transitional

LEMMA RefreshedType ==
    ASSUME NEW r \in VmRecord, NEW s \in Statuses
    PROVE  Refreshed(r, s) \in VmRecord
BY CorrectedType DEF Refreshed, VmRecord

LEMMA GotoFacts ==
    ASSUME NEW p \in Procs, NEW l \in Labels, pc \in [Procs -> Labels], Goto(p, l)
    PROVE  /\ pc' \in [Procs -> Labels]
           /\ pc'[p] = l
           /\ \A q \in Procs : q # p => pc'[q] = pc[q]
BY DEF Goto

LEMMA EndFacts ==
    ASSUME NEW c \in Creators, NEW o \in Outcomes, End(c, o),
           pc \in [Procs -> Labels], outcome \in [Creators -> Outcomes]
    PROVE  /\ pc' \in [Procs -> Labels]
           /\ pc'[c] = "done"
           /\ \A q \in Procs : q # c => pc'[q] = pc[q]
           /\ outcome' \in [Creators -> Outcomes]
           /\ outcome'[c] = o
           /\ \A d \in Creators : d # c => outcome'[d] = outcome[d]
BY DEF End, Goto, Procs, Labels

LEMMA PlaceFacts ==
    ASSUME NEW p \in Procs, NEW V, NEW l \in Places, Place(p, V, l),
           at \in [Procs -> [Vms -> Places]]
    PROVE  /\ at' \in [Procs -> [Vms -> Places]]
           /\ \A v \in Vms : at'[p][v] = IF v \in V THEN l ELSE at[p][v]
           /\ \A q \in Procs : q # p => at'[q] = at[q]
<1>1. at' = [at EXCEPT ![p] = [v \in Vms |-> IF v \in V THEN l ELSE at[p][v]]]
  BY DEF Place
<1>2. [v \in Vms |-> IF v \in V THEN l ELSE at[p][v]] \in [Vms -> Places]
  OBVIOUS
<1> QED
  BY <1>1, <1>2

LEMMA FaultType ==
    ASSUME faults \in 0..MaxFaults
    PROVE  (Fault => faults' \in 0..MaxFaults) /\ (UNCHANGED faults => faults' \in 0..MaxFaults)
BY CreationAssumption DEF Fault

LEMMA UpdateMciType ==
    ASSUME mci \in MciRecord, NEW s \in MciStatuses, NEW a \in {"None", "Create"},
           UpdateMciInfo(s, a)
    PROVE  /\ mci' \in MciRecord
           /\ mci'.there = mci.there
           /\ mci.there => mci'.action = a
           /\ ~mci.there => mci' = mci
BY DEF UpdateMciInfo, MciRecord

LEMMA UpdateVmType ==
    ASSUME vm \in [Vms -> VmRecord], NEW v \in Vms, NEW r \in VmRecord, UpdateVmInfo(v, r)
    PROVE  /\ vm' \in [Vms -> VmRecord]
           /\ \A w \in Vms : w # v => vm'[w] = vm[w]
           /\ vm[v].there => vm'[v] = r
           /\ ~vm[v].there => vm'[v] = vm[v]
BY DEF UpdateVmInfo

LEMMA CleanupFacts ==
    ASSUME Cleanup
    PROVE  /\ mci' \in MciRecord /\ ~mci'.there
           /\ vm' \in [Vms -> VmRecord]
           /\ \A v \in Vms : ~vm'[v].there
BY ConstantTypes DEF Cleanup, NoMci, NoVm, NewVm

\* The status a fetch returns, and the record it leaves.
LEMMA FetchTypes ==
    ASSUME vm \in [Vms -> VmRecord], NEW v \in Vms, NEW n \in {"Running", "Undefined", "error"}
    PROVE  StatusOf(v, n) \in Statuses /\ RecordOf(v, n) \in VmRecord
<1>1. vm[v] \in VmRecord /\ vm[v].status \in Statuses
  BY DEF VmRecord
<1>2. {"Running", "Undefined", "Failed"} \subseteq Statuses
  BY DEF Statuses, Stable
<1>3. n # "error" => Corrected(vm[v], n) \in Statuses /\ Refreshed(vm[v], n) \in VmRecord
  BY <1>1, <1>2, CorrectedType, RefreshedType
<1>4. Corrected(vm[v], "Undefined") \in Statuses
  BY <1>1, <1>2, CorrectedType
<1>5. StatusOf(v, n) \in Statuses
  BY <1>1, <1>2, <1>3, <1>4 DEF StatusOf, Asked
<1>6. RecordOf(v, n) \in VmRecord
  BY <1>1, <1>3 DEF RecordOf
<1> QED
  BY <1>5, <1>6

LEMMA SeenType ==
    ASSUME NEW s \in Types, NEW v \in Vms, NEW status \in Statuses
    PROVE  /\ Seen(s, v, status) \in Types
           /\ DOMAIN Seen(s, v, status) = DOMAIN s \cup {v}
           /\ Seen(s, v, status)[v] = status
           /\ \A w \in DOMAIN s : w # v => Seen(s, v, status)[w] = s[w]
<1>1. PICK V \in SUBSET Vms : s \in [V -> Statuses]
  BY DEF Types
<1>2. Seen(s, v, status) \in [V \cup {v} -> Statuses]
  BY <1>1 DEF Seen
<1>3. V \cup {v} \in SUBSET Vms
  OBVIOUS
<1> QED
  BY <1>1, <1>2, <1>3 DEF Types, Seen

-----------------------------------------------------------------------------
(* Typing holds initially and is preserved by every action. *)

LEMMA TypeInit == Init => TypeOK
<1> SUFFICES ASSUME Init PROVE TypeOK
  OBVIOUS
<1>1. at \in [Procs -> [Vms -> Places]]
  BY ConstantTypes DEF Init
<1>2. seen \in [Procs -> Types]
  BY ConstantTypes DEF Init
<1>3. mci \in MciRecord /\ vm \in [Vms -> VmRecord] /\ read \in [Procs -> MciRecord]
  BY ConstantTypes DEF Init
<1>4. pc \in [Procs -> Labels] /\ outcome \in [Creators -> Outcomes]
  BY DEF Init, Labels, Outcomes
<1>5. faults \in 0..MaxFaults
  BY CreationAssumption DEF Init
<1> QED
  BY <1>1, <1>2, <1>3, <1>4, <1>5 DEF Init, TypeOK, Types

\* The variables that most steps leave alone.
Kept == UNCHANGED <<hold, looks, results>>

LEMMA TypeOfPart ==
    ASSUME TypeOK, Kept,
           mci' \in MciRecord, vm' \in [Vms -> VmRecord], made' \in [Vms -> Nat],
           pc' \in [Procs -> Labels], at' \in [Procs -> [Vms -> Places]],
           outcome' \in [Creators -> Outcomes], faults' \in 0..MaxFaults
    PROVE  TypeOK'
BY DEF TypeOK, Kept, looks, results

LEMMA GoOnFacts ==
    ASSUME TypeOK, NEW c \in Creators, GoOn(c)
    PROVE  /\ pc' \in [Procs -> Labels] /\ at' \in [Procs -> [Vms -> Places]]
           /\ \A q \in Procs : q # c => pc'[q] = pc[q] /\ at'[q] = at[q]
           /\ \/ pc'[c] = "objects" /\ \A v \in Vms : at'[c][v] = "object"
              \/ pc'[c] = "hold" /\ at'[c] = at[c]
<1>1. c \in Procs /\ "object" \in Places /\ {"objects", "hold"} \subseteq Labels
  BY DEF Procs, Places, Labels
<1>2. CASE Goto(c, "objects") /\ Place(c, Vms, "object")
  BY <1>1, <1>2, GotoFacts, PlaceFacts DEF TypeOK
<1>3. CASE Goto(c, "hold") /\ UNCHANGED at
  BY <1>1, <1>3, GotoFacts DEF TypeOK
<1> QED
  BY <1>2, <1>3 DEF GoOn

LEMMA TypeOfCreation ==
    ASSUME TypeOK, NEW c \in Creators, Request(c) \/ CreateMci(c)
    PROVE  TypeOK'
<1> c \in Procs
  BY DEF Procs
<1> USE DEF TypeOK
<1>1. CASE Request(c)
  BY <1>1, GotoFacts, TypeOfPart DEF Request, Labels, Kept
<1>2. CASE CheckMci(c)
  BY <1>2, GotoFacts, EndFacts, TypeOfPart DEF CheckMci, Labels, Outcomes, Kept
<1>3. CASE CreateMciObject(c)
  <2>1. mci' \in MciRecord
    BY <1>3 DEF CreateMciObject, MciRecord, MciStatuses
  <2>2. pc' \in [Procs -> Labels] /\ at' \in [Procs -> [Vms -> Places]]
    BY <1>3, GoOnFacts, GotoFacts DEF CreateMciObject, Labels
  <2> QED
    BY <1>3, <2>1, <2>2, TypeOfPart DEF CreateMciObject, Kept
<1>4. CASE Prepare(c)
  <2>1. mci.action \in {"None", "Create"} /\ "Preparing" \in MciStatuses
    BY DEF MciRecord, MciStatuses
  <2> QED
    BY <1>4, <2>1, UpdateMciType, GotoFacts, TypeOfPart DEF Prepare, Labels, Kept
<1>5. CASE Prepared(c)
  <2>1. mci.action \in {"None", "Create"} /\ {"Prepared", "Failed"} \subseteq MciStatuses
    BY DEF MciRecord, MciStatuses
  <2>2. mci' \in MciRecord /\ vm' \in [Vms -> VmRecord]
    BY <1>5, <2>1, UpdateMciType, CleanupFacts DEF Prepared
  <2>3. pc' \in [Procs -> Labels] /\ outcome' \in [Creators -> Outcomes]
    BY <1>5, GotoFacts, EndFacts DEF Prepared, Labels, Outcomes
  <2> QED
    BY <1>5, <2>2, <2>3, FaultType, TypeOfPart DEF Prepared, Kept
<1>6. CASE Start(c)
  <2>1. "Creating" \in MciStatuses
    BY DEF MciStatuses
  <2> QED
    BY <1>6, <2>1, UpdateMciType, GoOnFacts, TypeOfPart DEF Start, Kept
<1>7. CASE Hold(c)
  BY <1>7, GotoFacts DEF Hold, Labels, looks, results
<1>8. CASE Held(c)
  BY <1>8, GotoFacts, TypeOfPart DEF Held, Labels, Kept
<1>9. CASE Continue(c)
  <2>1. pc' \in [Procs -> Labels] /\ at' \in [Procs -> [Vms -> Places]]
    BY <1>9, GotoFacts, PlaceFacts DEF Continue, Labels, Places
  <2> QED
    BY <1>9, <2>1 DEF Continue, looks, results
<1>10. CASE Withdraw(c)
  BY <1>10, CleanupFacts, EndFacts DEF Withdraw, Outcomes, looks, results
<1>11. CASE ObjectsEnd(c)
  <2>1. mci' \in MciRecord /\ vm' \in [Vms -> VmRecord]
    BY <1>11, CleanupFacts DEF ObjectsEnd
  <2>2. pc' \in [Procs -> Labels] /\ at' \in [Procs -> [Vms -> Places]]
    BY <1>11, GotoFacts, EndFacts, PlaceFacts DEF ObjectsEnd, Labels, Places, Outcomes
  <2>3. outcome' \in [Creators -> Outcomes]
    BY <1>11, EndFacts DEF ObjectsEnd, Outcomes
  <2> QED
    BY <1>11, <2>1, <2>2, <2>3 DEF ObjectsEnd, looks
<1>12. CASE VmsEnd(c)
  <2>1. vm' \in [Vms -> VmRecord]
    <3>1. \A v \in Vms : [vm[v] EXCEPT !.status = "Failed"] \in VmRecord
      BY DEF VmRecord, Statuses, Stable
    <3> QED
      BY <1>12, <3>1 DEF VmsEnd
  <2>2. pc' \in [Procs -> Labels]
    BY <1>12, GotoFacts DEF VmsEnd, Labels
  <2> QED
    BY <1>12, <2>1, <2>2, TypeOfPart DEF VmsEnd, Kept
<1>13. CASE Complete(c)
  <2>1. mci.status \in MciStatuses
    BY DEF MciRecord
  <2> QED
    BY <1>13, <2>1, UpdateMciType, GotoFacts, TypeOfPart DEF Complete, Labels, Kept
<1>14. CASE Final(c)
  <2>1. {"Failed", "Fetched"} \subseteq MciStatuses
    BY DEF MciStatuses
  <2> QED
    BY <1>14, <2>1, UpdateMciType, EndFacts, TypeOfPart DEF Final, Outcomes, Kept
<1> QED
  BY <1>1, <1>2, <1>3, <1>4, <1>5, <1>6, <1>7, <1>8, <1>9, <1>10, <1>11, <1>12, <1>13, <1>14
  DEF CreateMci

LEMMA TypeOfVm ==
    ASSUME TypeOK, NEW c \in Creators, NEW v \in Vms, CreateVm(c, v)
    PROVE  TypeOK'
<1> c \in Procs
  BY DEF Procs
<1> USE DEF TypeOK
<1>1. NewVm \in VmRecord
  BY ConstantTypes
<1>2. CASE CreateVmObject(c, v)
  <2>1. vm' \in [Vms -> VmRecord] /\ faults' \in 0..MaxFaults
    BY <1>1, <1>2, FaultType DEF CreateVmObject
  <2>2. at' \in [Procs -> [Vms -> Places]]
    BY <1>2, PlaceFacts DEF CreateVmObject, Places
  <2>3. createErrors' \in [Creators -> SUBSET Vms]
    BY <1>2 DEF CreateVmObject
  <2> QED
    BY <1>2, <2>1, <2>2, <2>3 DEF CreateVmObject, looks
<1>3. CASE CreateVmPost(c, v)
  <2>1. [NewVm EXCEPT !.named = TRUE] \in VmRecord /\ [NewVm EXCEPT !.status = "Failed"] \in VmRecord
    BY <1>1 DEF VmRecord, Statuses, Stable
  <2>2. vm' \in [Vms -> VmRecord]
    BY <1>3, <2>1, UpdateVmType DEF CreateVmPost
  <2>3. at' \in [Procs -> [Vms -> Places]]
    BY <1>3, PlaceFacts DEF CreateVmPost, Places
  <2>4. failed' \in [Creators -> SUBSET Vms]
    <3>1. Failing(c, v) \/ UNCHANGED failed
      BY <1>3 DEF CreateVmPost
    <3> QED
      BY <3>1 DEF Failing
  <2>5. made' \in [Vms -> Nat]
    BY <1>3 DEF CreateVmPost
  <2>6. faults' \in 0..MaxFaults
    BY <1>3, FaultType DEF CreateVmPost
  <2> QED
    BY <1>3, <2>2, <2>3, <2>4, <2>5, <2>6 DEF CreateVmPost, looks
<1>4. CASE CreateVmFinish(c, v)
  <2>1. PICK n \in {"Running", "Undefined", "error"}, label \in BOOLEAN :
          LET s == IF label THEN StatusOf(v, n) ELSE "Failed" IN
          /\ IF label THEN Answered(v, n) ELSE n = "Running" /\ Fault
          /\ UpdateVmInfo(v, [there |-> TRUE, named |-> TRUE, status |-> s, action |-> "None"])
          /\ IF s = "Failed" THEN Failing(c, v) ELSE UNCHANGED failed
    BY <1>4 DEF CreateVmFinish
  <2> DEFINE s == IF label THEN StatusOf(v, n) ELSE "Failed"
             r == [there |-> TRUE, named |-> TRUE, status |-> s, action |-> "None"]
  <2>2. s \in Statuses
    BY FetchTypes DEF Statuses, Stable
  <2>3. r \in VmRecord
    BY <2>2 DEF VmRecord
  <2>4. UpdateVmInfo(v, r) /\ (Failing(c, v) \/ UNCHANGED failed)
    BY <2>1
  <2>5. Fault \/ UNCHANGED faults
    BY <2>1 DEF Answered
  <2> HIDE DEF s, r
  <2>6. vm' \in [Vms -> VmRecord]
    BY <2>3, <2>4, UpdateVmType
  <2>7. at' \in [Procs -> [Vms -> Places]]
    BY <1>4, PlaceFacts DEF CreateVmFinish, Places
  <2>8. failed' \in [Creators -> SUBSET Vms]
    BY <2>4 DEF Failing
  <2>9. faults' \in 0..MaxFaults
    BY <2>5, FaultType
  <2> QED
    BY <1>4, <2>6, <2>7, <2>8, <2>9 DEF CreateVmFinish, looks
<1> QED
  BY <1>2, <1>3, <1>4 DEF CreateVm

LEMMA TypeOfStatus ==
    ASSUME TypeOK, NEW p \in Procs, GetMciStatus(p)
    PROVE  TypeOK'
<1> USE DEF TypeOK
<1>1. CASE StatusRead(p)
  <2>1. pc' \in [Procs -> Labels] /\ outcome' \in [Creators -> Outcomes]
    BY <1>1, GotoFacts, EndFacts DEF StatusRead, Labels, Outcomes
  <2>2. at' \in [Procs -> [Vms -> Places]]
    BY <1>1, PlaceFacts DEF StatusRead, Places
  <2>3. seen' = seen /\ read' \in [Procs -> MciRecord]
    BY <1>1 DEF StatusRead, looks
  <2> QED
    BY <1>1, <2>1, <2>2, <2>3 DEF StatusRead, results
<1>2. ASSUME NEW v \in Vms, StatusFetch(p, v) PROVE TypeOK'
  <2>1. PICK n \in {"Running", "Undefined", "error"} :
          /\ Answered(v, n)
          /\ vm' = [vm EXCEPT ![v] = RecordOf(v, n)]
          /\ seen' = [seen EXCEPT ![p] = Seen(@, v, StatusOf(v, n))]
    BY <1>2 DEF StatusFetch
  <2>2. StatusOf(v, n) \in Statuses /\ RecordOf(v, n) \in VmRecord
    BY FetchTypes
  <2>3. vm' \in [Vms -> VmRecord]
    BY <2>1, <2>2
  <2>4. seen \in [Procs -> Types]
    BY DEF Types
  <2>5. Seen(seen[p], v, StatusOf(v, n)) \in Types
    BY <2>2, <2>4, SeenType
  <2>6. seen' \in [Procs -> Types]
    BY <2>1, <2>4, <2>5
  <2>7. at' \in [Procs -> [Vms -> Places]]
    BY <1>2, PlaceFacts DEF StatusFetch, Places
  <2>8. faults' \in 0..MaxFaults
    BY <2>1, FaultType DEF Answered
  <2> QED
    BY <1>2, <2>3, <2>6, <2>7, <2>8 DEF StatusFetch, results, Types
<1>3. CASE StatusEnd(p)
  <2>1. read[p].status \in MciStatuses /\ "Failed" \in MciStatuses
    BY DEF MciRecord, MciStatuses
  <2>2. \/ \E s \in {"Failed", read[p].status} : UpdateMciInfo(s, "None")
        \/ UNCHANGED mci
    BY <1>3 DEF StatusEnd
  <2>3. mci' \in MciRecord
    BY <2>1, <2>2, UpdateMciType
  <2>4. pc' \in [Procs -> Labels]
    BY <1>3, GotoFacts DEF StatusEnd, After, Labels
  <2>5. seen \in [Procs -> Types] /\ seen' \in [Procs -> Types]
    BY <1>3, ConstantTypes DEF StatusEnd, Types
  <2>6. read' \in [Procs -> MciRecord]
    BY <1>3, ConstantTypes DEF StatusEnd
  <2> QED
    BY <1>3, <2>3, <2>4, <2>5, <2>6 DEF StatusEnd, results, Types
<1> QED
  BY <1>1, <1>2, <1>3 DEF GetMciStatus

LEMMA TypeNext == TypeOK /\ [Next]_vars => TypeOK'
<1> SUFFICES ASSUME TypeOK, [Next]_vars PROVE TypeOK'
  OBVIOUS
<1>1. CASE UNCHANGED vars
  BY <1>1 DEF vars, looks, results, TypeOK
<1>2. ASSUME NEW a \in {"continue", "withdraw"}, Answer(a) PROVE TypeOK'
  BY <1>2 DEF Answer, looks, results, TypeOK
<1> QED
  BY <1>1, <1>2, TypeOfCreation, TypeOfVm, TypeOfStatus DEF Next

\* Every variable keeps its type, whatever requests for the MCI, status requests and
\* answers to held creations overlap, and whichever calls fail (CreateMci,
\* GetMciStatus).
THEOREM TypeCorrect == Spec => []TypeOK
BY TypeInit, TypeNext, PTL DEF Spec

-----------------------------------------------------------------------------
(* Creations of one MCI that do not race.                                  *)

Checking == {"check", "make"}
Early    == {"prepare", "preparing", "start", "hold", "held", "continue", "withdraw"}
Late     == {"objects", "vms", "complete", "status", "fetch", "final"}
Working  == Early \cup Late

\* One creator at a time checks and makes the MCI, one at a time creates it, and
\* the MCI is there meanwhile.
Alone ==
    /\ \A c, d \in Creators : pc[c] \in Checking /\ pc[d] \in Checking => c = d
    /\ \A c, d \in Creators : pc[c] \in Working /\ pc[d] \in Working => c = d
    /\ \A c \in Creators : pc[c] = "make" => ~mci.there
    /\ \A c \in Creators : pc[c] \in Working => mci.there

\* Where the goroutines for the VMs may be.
Stations(l) == IF l = "objects" THEN {"out", "object", "stuck"}
               ELSE IF l = "vms" THEN {"out", "post", "finish"}
               ELSE IF l = "fetch" THEN {"out", "fetch"}
               ELSE {"out"}

Placed == \A p \in Procs, v \in Vms : at[p][v] \in Stations(pc[p])

\* A goroutine that has an error to report never gets on.
Erring == \A c \in Creators, v \in Vms : v \in createErrors[c] => at[c][v] = "stuck"

\* No creation has got as far as the VM objects.
Begun == mci.there /\ \A c \in Creators : pc[c] \notin Early

\* Nothing is known of a VM, or nothing but that it is to be created.
Absent(v) == ~vm[v].there /\ made[v] = 0 /\ \A p \in Procs : v \notin DOMAIN seen[p]
Fresh(v) ==
    /\ made[v] = 0
    /\ vm[v].there => vm[v] = NewVm
    /\ \A p \in Procs : v \in DOMAIN seen[p] => seen[p][v] = "Creating"

NotAsked(v) == \E c \in Creators : pc[c] = "objects" \/ at[c][v] = "post"

Knowledge ==
    /\ ~Begun => \A v \in Vms : Absent(v)
    /\ \A v \in Vms : NotAsked(v) => Fresh(v)
    /\ \A v \in Vms : made[v] <= 1
    /\ \A p \in Procs, v \in Vms : at[p][v] = "fetch" => vm[v].there

Over == \A c \in Creators : outcome[c] \in {"ok", "failed"} =>
            /\ mci.there
            /\ mci.action = "None"
            /\ \A d \in Creators : pc[d] \notin Working

CreationInv == TypeOK /\ Alone /\ Placed /\ Erring /\ Knowledge /\ Over

-----------------------------------------------------------------------------
(* Shapes of steps. *)

LEMMA CreationInit == Init => CreationInv
<1> SUFFICES ASSUME Init PROVE CreationInv
  OBVIOUS
<1>1. TypeOK
  BY TypeInit
<1>2. pc = [p \in Procs |-> "idle"] /\ ~mci.there /\ \A v \in Vms : ~vm[v].there
  BY DEF Init, NoMci, NoVm, NewVm
<1>3. \A c \in Creators : pc[c] = "idle" /\ outcome[c] = "none" /\ createErrors[c] = {}
  BY <1>2 DEF Procs, Init
<1>4. \A p \in Procs, v \in Vms : at[p][v] = "out"
  BY DEF Init, Out
<1>5. Alone /\ Erring /\ Over
  BY <1>3 DEF Alone, Erring, Over, Checking, Working, Early, Late
<1>6. Placed
  BY <1>2, <1>4 DEF Placed, Stations
<1>7. \A p \in Procs : DOMAIN seen[p] = {}
  BY ConstantTypes DEF Init
<1>8. \A v \in Vms : made[v] = 0
  BY DEF Init
<1>9. \A v \in Vms : Absent(v) /\ Fresh(v)
  BY <1>2, <1>7, <1>8 DEF Absent, Fresh
<1>10. Knowledge
  BY <1>4, <1>8, <1>9 DEF Knowledge
<1> QED
  BY <1>1, <1>5, <1>6, <1>10 DEF CreationInv

\* Only p moves, and its goroutines are where they may be.
Moves(p) ==
    /\ \A q \in Procs : q # p => pc'[q] = pc[q] /\ at'[q] = at[q]
    /\ \A v \in Vms : at'[p][v] \in Stations(pc'[p])

LEMMA PlacedKept ==
    ASSUME Placed, NEW p \in Procs, Moves(p)
    PROVE  Placed'
BY DEF Placed, Moves

\* What p has seen stays as it is or is dropped, and nothing else is learned.
Idly(p) ==
    /\ UNCHANGED <<vm, made, createErrors>>
    /\ \A q \in Procs : seen'[q] = seen[q] \/ (q = p /\ seen'[q] = Unseen)
    /\ mci'.there = mci.there
    /\ \A v \in Vms : at'[p][v] = "fetch" => vm[v].there

LEMMA WorksAlone ==
    ASSUME CreationInv, NEW c \in Creators, pc[c] \in Working, Moves(c),
           \/ pc'[c] = "done"
           \/ pc'[c] \in Working /\ mci'.there = mci.there
    PROVE  /\ Alone'
           /\ mci.there
           /\ \A d \in Creators : d # c => pc'[d] \notin Working /\ pc'[d] # "make"
           /\ \A d \in Creators : outcome[d] \notin {"ok", "failed"}
<1>1. c \in Procs /\ \A d \in Creators : d # c => pc'[d] = pc[d] /\ pc[d] \notin Working /\ pc[d] # "make"
  BY DEF Procs, Moves, CreationInv, Alone
<1>2. mci.there /\ \A d \in Creators : outcome[d] \notin {"ok", "failed"}
  BY DEF CreationInv, Alone, Over
<1>3. pc'[c] \notin Checking
  BY DEF Checking, Working, Early, Late
<1>4. pc'[c] \in Working => mci'.there
  BY <1>2 DEF Working, Early, Late
<1>5. \A d \in Creators : pc'[d] \in Checking => d # c /\ pc[d] \in Checking
  BY <1>1, <1>3
<1>6. \A d \in Creators : pc'[d] \in Working => d = c
  BY <1>1
<1>7. \A d \in Creators : pc'[d] # "make"
  BY <1>1, <1>3 DEF Checking
<1>8. Alone'
  BY <1>4, <1>5, <1>6, <1>7 DEF Alone, CreationInv
<1> QED
  BY <1>1, <1>2, <1>8

\* Absence and freshness survive steps in which nothing is learned.
LEMMA KnowledgeKept ==
    ASSUME CreationInv, TypeOK', NEW p \in Procs, Moves(p), Idly(p),
           Begun => Begun',
           \A v \in Vms : NotAsked(v)' => NotAsked(v) \/ ~Begun
    PROVE  Knowledge'
<1>1. \A v \in Vms : Absent(v) => Absent(v)' /\ Fresh(v)'
  BY ConstantTypes DEF Absent, Fresh, Idly
<1>2. \A v \in Vms : Fresh(v) => Fresh(v)'
  BY ConstantTypes DEF Fresh, Idly
<1>3. \A v \in Vms : made'[v] <= 1
  BY DEF CreationInv, Knowledge, Idly
<1>4. \A q \in Procs, v \in Vms : at'[q][v] = "fetch" => vm'[v].there
  BY DEF CreationInv, Knowledge, Idly, Moves
<1>5. ~Begun' => \A v \in Vms : Absent(v)'
  BY <1>1 DEF CreationInv, Knowledge
<1>6. \A v \in Vms : NotAsked(v)' => Fresh(v)'
  BY <1>1, <1>2 DEF CreationInv, Knowledge
<1> QED
  BY <1>3, <1>4, <1>5, <1>6 DEF Knowledge

LEMMA ErringKept ==
    ASSUME CreationInv, NEW p \in Procs, pc[p] # "objects", Moves(p), createErrors' = createErrors
    PROVE  Erring'
<1>1. \A v \in Vms : at[p][v] # "stuck"
  BY DEF CreationInv, Placed, Stations
<1> QED
  BY <1>1 DEF CreationInv, Erring, Moves, Procs

\* A creation goes on to its next stage.
LEMMA OnwardParts ==
    ASSUME CreationInv, TypeOK', NEW c \in Creators, pc[c] \in Working \ {"objects"},
           Moves(c), Idly(c),
           pc'[c] \in (Working \ {"vms"}) \cup {"done"},
           pc'[c] \in Early \cup {"objects"} => pc[c] \in Early
    PROVE  Alone' /\ Placed' /\ Erring' /\ Knowledge'
<1>1. c \in Procs
  BY DEF Procs
<1>2. Alone' /\ \A d \in Creators : outcome[d] \notin {"ok", "failed"}
  BY WorksAlone DEF Idly
<1>3. Placed' /\ Erring'
  BY <1>1, PlacedKept, ErringKept DEF CreationInv, Idly
<1>5. Begun => Begun'
  BY <1>1 DEF Begun, Idly, Moves, Procs
<1>6. \A v \in Vms : at'[c][v] # "post"
  BY DEF Moves, Stations
<1>7. \A v \in Vms : NotAsked(v)' => NotAsked(v) \/ ~Begun
  BY <1>1, <1>6 DEF NotAsked, Begun, Moves, Procs
<1>8. Knowledge'
  BY <1>1, <1>5, <1>7, KnowledgeKept
<1> QED
  BY <1>2, <1>3, <1>8

LEMMA Onward ==
    ASSUME CreationInv, TypeOK', NEW c \in Creators, pc[c] \in Working \ {"objects"},
           Moves(c), Idly(c),
           pc'[c] \in (Working \ {"vms"}) \cup {"done"},
           pc'[c] \in Early \cup {"objects"} => pc[c] \in Early,
           \A d \in Creators : outcome'[d] \in {"ok", "failed"} => outcome'[d] = outcome[d]
    PROVE  CreationInv'
<1>1. \A d \in Creators : outcome[d] \notin {"ok", "failed"}
  BY WorksAlone DEF Idly
<1> QED
  BY <1>1, OnwardParts DEF CreationInv, Over

\* A creation that has not come to the VM objects withdraws the MCI.
LEMMA Withdrawal ==
    ASSUME CreationInv, TypeOK', NEW c \in Creators, pc[c] \in Early, Cleanup,
           UNCHANGED <<made, at, seen, createErrors>>,
           pc'[c] = "done", \A q \in Procs : q # c => pc'[q] = pc[q],
           \A d \in Creators : outcome'[d] \in {"ok", "failed"} => outcome'[d] = outcome[d]
    PROVE  CreationInv'
<1>1. c \in Procs /\ pc[c] \in Working /\ pc[c] # "objects"
  BY DEF Procs, Working, Early
<1>2. Stations(pc[c]) = {"out"} /\ Stations("done") = {"out"}
  BY DEF Stations, Early
<1>3. Moves(c)
  BY <1>1, <1>2 DEF Moves, CreationInv, Placed
<1>4. /\ Alone'
      /\ \A d \in Creators : outcome[d] \notin {"ok", "failed"}
  BY <1>1, <1>3, WorksAlone
<1>5. Placed' /\ Erring'
  BY <1>1, <1>3, PlacedKept, ErringKept DEF CreationInv
<1>6. Over'
  BY <1>4 DEF Over
<1>7. \A v \in Vms : Absent(v)
  BY DEF CreationInv, Knowledge, Begun
<1>8. ~mci'.there /\ \A v \in Vms : ~vm'[v].there
  BY CleanupFacts
<1>9. \A v \in Vms : Absent(v)' /\ Fresh(v)' /\ made'[v] = 0
  BY <1>7, <1>8 DEF Absent, Fresh
<1>10. \A q \in Procs, v \in Vms : at'[q][v] # "fetch"
  BY <1>7 DEF Absent, CreationInv, Knowledge
<1>11. Knowledge'
  BY <1>9, <1>10 DEF Knowledge
<1> QED
  BY <1>4, <1>5, <1>6, <1>11 DEF CreationInv

\* Outside the stages that have goroutines, a change of stage is a move.
LEMMA MovesOn ==
    ASSUME TypeOK, Placed, NEW p \in Procs, NEW l \in Labels, at[p] = Out \/ pc[p] \notin {"objects", "vms", "fetch"},
           UNCHANGED at, pc'[p] = l, \A q \in Procs : q # p => pc'[q] = pc[q]
    PROVE  Moves(p) /\ \A v \in Vms : at'[p][v] = "out"
<1>1. \A v \in Vms : at[p][v] = "out"
  BY DEF Placed, Stations, Out
<1>2. "out" \in Stations(l)
  BY DEF Stations
<1> QED
  BY <1>1, <1>2 DEF Moves

-----------------------------------------------------------------------------
(* The actions of a creation. *)

LEMMA RequestKeeps ==
    ASSUME CreationInv, TypeOK', "race" \notin Scope, NEW c \in Creators, Request(c)
    PROVE  CreationInv'
<1>1. c \in Procs /\ pc[c] = "idle" /\ "check" \in Labels
  BY DEF Request, Procs, Labels
<1>2. pc'[c] = "check" /\ \A q \in Procs : q # c => pc'[q] = pc[q]
  BY <1>1, GotoFacts DEF Request, CreationInv, TypeOK
<1>3. UNCHANGED <<mci, vm, made, at, seen, createErrors, outcome>>
  BY DEF Request, looks, results
<1>4. Moves(c)
  BY <1>1, <1>2, <1>3, MovesOn DEF CreationInv
<1>5. \A d \in Creators : d \in Procs /\ pc[d] \notin Checking
  BY DEF Request, Procs, Checking
<1>6. Alone'
  BY <1>2, <1>3, <1>5 DEF Alone, CreationInv, Working, Early, Late
<1>7. Over'
  BY <1>2, <1>3, <1>5 DEF Over, CreationInv, Working, Early, Late
<1>8. Placed' /\ Erring'
  BY <1>1, <1>3, <1>4, PlacedKept, ErringKept DEF CreationInv
<1>9. Begun => Begun'
  BY <1>2, <1>3, <1>5 DEF Begun, Early
<1>10. \A v \in Vms : NotAsked(v)' => NotAsked(v)
  BY <1>2, <1>3, <1>5 DEF NotAsked
<1>11. Idly(c)
  BY <1>1, <1>3, <1>4 DEF Idly, Moves, CreationInv, Knowledge
<1>12. Knowledge'
  BY <1>1, <1>4, <1>9, <1>10, <1>11, KnowledgeKept
<1> QED
  BY <1>6, <1>7, <1>8, <1>12 DEF CreationInv

LEMMA CheckKeeps ==
    ASSUME CreationInv, TypeOK', NEW c \in Creators, CheckMci(c)
    PROVE  CreationInv'
<1>1. c \in Procs /\ pc[c] = "check"
  BY DEF CheckMci, Procs
<1>2. /\ \A q \in Procs : q # c => pc'[q] = pc[q]
      /\ pc'[c] \in {"done", "make"}
      /\ pc'[c] = "make" => ~mci.there
      /\ \A d \in Creators : outcome'[d] \in {"ok", "failed"} => outcome'[d] = outcome[d]
  BY <1>1, GotoFacts, EndFacts DEF CheckMci, CreationInv, TypeOK, Labels, Outcomes
<1>3. UNCHANGED <<mci, vm, made, at, seen, createErrors>>
  BY DEF CheckMci, looks, results
<1>4. Moves(c)
  BY <1>1, <1>2, <1>3, MovesOn DEF CreationInv, Labels
<1>5. \A d \in Creators : d \in Procs /\ (pc'[d] \in Checking => pc[d] \in Checking)
                           /\ (pc'[d] \in Working => pc[d] \in Working)
  BY <1>1, <1>2 DEF Procs, Checking, Working, Early, Late
<1>6. Alone'
  BY <1>2, <1>3, <1>5 DEF Alone, CreationInv
<1>7. Over'
  BY <1>2, <1>3, <1>5 DEF Over, CreationInv
<1>8. Placed' /\ Erring'
  BY <1>1, <1>3, <1>4, PlacedKept, ErringKept DEF CreationInv
<1>9. Begun => Begun'
  BY <1>2, <1>3, <1>5 DEF Begun, Early
<1>10. \A v \in Vms : NotAsked(v)' => NotAsked(v)
  BY <1>2, <1>3, <1>5 DEF NotAsked
<1>11. Idly(c)
  BY <1>1, <1>3, <1>4 DEF Idly, Moves, CreationInv, Knowledge
<1>12. Knowledge'
  BY <1>1, <1>4, <1>9, <1>10, <1>11, KnowledgeKept
<1> QED
  BY <1>6, <1>7, <1>8, <1>12 DEF CreationInv

LEMMA MakeKeeps ==
    ASSUME CreationInv, TypeOK', NEW c \in Creators, CreateMciObject(c)
    PROVE  CreationInv'
<1>1. c \in Procs /\ pc[c] = "make" /\ ~mci.there /\ mci'.there
  BY DEF CreateMciObject, Procs, CreationInv, Alone
<1>2. UNCHANGED <<vm, made, seen, createErrors, outcome>>
  BY DEF CreateMciObject, looks, results
<1>3. \A v \in Vms : at[c][v] = "out"
  BY <1>1 DEF CreationInv, Placed, Stations
<1>4. /\ \A q \in Procs : q # c => pc'[q] = pc[q] /\ at'[q] = at[q]
      /\ pc'[c] \in {"objects", "hold", "prepare"}
      /\ \A v \in Vms : at'[c][v] \in Stations(pc'[c]) \ {"fetch", "post"}
  <2>1. CASE GoOn(c)
    BY <1>1, <1>3, <2>1, GoOnFacts DEF CreationInv, Stations
  <2>2. CASE Goto(c, "prepare") /\ UNCHANGED at
    BY <1>1, <1>3, <2>2, GotoFacts DEF CreationInv, TypeOK, Labels, Stations
  <2> QED
    BY <2>1, <2>2 DEF CreateMciObject
<1>5. Moves(c)
  BY <1>4 DEF Moves
<1>6. \A d \in Creators : d \in Procs /\ pc[d] \notin Working /\ (pc[d] = "make" => d = c)
  BY <1>1 DEF Procs, CreationInv, Alone, Checking
<1>7. pc'[c] \notin Checking
  BY <1>4 DEF Checking
<1>8. Alone'
  BY <1>1, <1>4, <1>6, <1>7 DEF Alone, CreationInv
<1>9. \A d \in Creators : outcome'[d] \notin {"ok", "failed"}
  BY <1>1, <1>2 DEF CreationInv, Over
<1>10. Placed' /\ Erring'
  BY <1>1, <1>2, <1>5, PlacedKept, ErringKept DEF CreationInv
<1>11. \A v \in Vms : Absent(v)
  BY <1>1 DEF CreationInv, Knowledge, Begun
<1>12. \A v \in Vms : Absent(v)' /\ Fresh(v)' /\ made'[v] = 0
  BY <1>2, <1>11 DEF Absent, Fresh
<1>13. \A q \in Procs, v \in Vms : at'[q][v] # "fetch"
  BY <1>4, <1>11 DEF Absent, CreationInv, Knowledge
<1>14. Knowledge'
  BY <1>12, <1>13 DEF Knowledge
<1> QED
  BY <1>8, <1>9, <1>10, <1>14 DEF CreationInv, Over

\* Preparing and holding.
LEMMA EarlyKeeps ==
    ASSUME CreationInv, TypeOK', NEW c \in Creators,
           Prepare(c) \/ Prepared(c) \/ Start(c) \/ Hold(c) \/ Held(c) \/ Continue(c) \/ Withdraw(c)
    PROVE  CreationInv'
<1>1. c \in Procs /\ pc[c] \in Early
  BY DEF Procs, Early, Prepare, Prepared, Start, Hold, Held, Continue, Withdraw
<1>2. pc[c] \in Working \ {"objects"} /\ pc[c] \notin {"objects", "vms", "fetch"}
  BY <1>1 DEF Working, Early
<1>3. mci \in MciRecord /\ mci.action \in {"None", "Create"} /\ TypeOK /\ Placed
  BY DEF CreationInv, TypeOK, MciRecord
<1>4. \A v \in Vms : at[c][v] = "out"
  BY <1>1, <1>2 DEF CreationInv, Placed, Stations
<1>5. ASSUME UNCHANGED <<vm, made, at, seen, createErrors>>, mci'.there = mci.there,
             NEW l \in Early \cup {"done"}, pc'[c] = l,
             \A q \in Procs : q # c => pc'[q] = pc[q],
             \A d \in Creators : outcome'[d] \in {"ok", "failed"} => outcome'[d] = outcome[d]
      PROVE  CreationInv'
  <2>1. l \in Labels /\ l \in (Working \ {"vms"}) \cup {"done"} /\ l # "objects"
    BY DEF Labels, Working, Early
  <2>2. Moves(c) /\ \A v \in Vms : at'[c][v] = "out"
    BY <1>1, <1>2, <1>3, <1>5, <2>1, MovesOn
  <2>3. Idly(c)
    BY <1>5, <2>2 DEF Idly
  <2> QED
    BY <1>1, <1>2, <1>5, <2>1, <2>2, <2>3, Onward
<1>6. ASSUME UNCHANGED <<vm, made, seen, createErrors, outcome>>, mci'.there = mci.there,
             pc'[c] = "objects", \A v \in Vms : at'[c][v] = "object",
             \A q \in Procs : q # c => pc'[q] = pc[q] /\ at'[q] = at[q]
      PROVE  CreationInv'
  <2>1. Moves(c) /\ Idly(c)
    BY <1>6 DEF Moves, Idly, Stations
  <2>2. "objects" \in Working \ {"vms"}
    BY DEF Working, Late
  <2> QED
    BY <1>1, <1>2, <1>6, <2>1, <2>2, Onward
<1>7. {"Preparing", "Prepared", "Failed", "Creating"} \subseteq MciStatuses
      /\ {"preparing", "start", "held", "withdraw", "continue", "objects"} \subseteq Labels
  BY DEF MciStatuses, Labels
<1>8. CASE Prepare(c)
  <2>1. mci'.there = mci.there
    BY <1>3, <1>7, <1>8, UpdateMciType DEF Prepare
  <2>2. pc'[c] = "preparing" /\ \A q \in Procs : q # c => pc'[q] = pc[q]
    BY <1>1, <1>3, <1>7, <1>8, GotoFacts DEF Prepare, TypeOK
  <2>3. "preparing" \in Early
    BY DEF Early
  <2> QED
    BY <1>5, <1>8, <2>1, <2>2, <2>3 DEF Prepare, looks, results
<1>9. CASE Prepared(c)
  <2>1. CASE UpdateMciInfo("Prepared", mci.action) /\ Goto(c, "start") /\ UNCHANGED <<vm, outcome, faults>>
    <3>1. mci'.there = mci.there
      BY <1>3, <1>7, <2>1, UpdateMciType
    <3>2. pc'[c] = "start" /\ \A q \in Procs : q # c => pc'[q] = pc[q]
      BY <1>1, <1>3, <1>7, <2>1, GotoFacts DEF TypeOK
    <3> QED
      BY <1>5, <1>9, <2>1, <3>1, <3>2 DEF Prepared, looks, results, Early
  <2>2. CASE UpdateMciInfo("Failed", mci.action) /\ UNCHANGED vm /\ End(c, "unprepared")
    <3>1. mci'.there = mci.there
      BY <1>3, <1>7, <2>2, UpdateMciType
    <3>2. /\ pc'[c] = "done" /\ \A q \in Procs : q # c => pc'[q] = pc[q]
          /\ \A d \in Creators : outcome'[d] \in {"ok", "failed"} => outcome'[d] = outcome[d]
      BY <1>3, <2>2, EndFacts DEF TypeOK, Outcomes
    <3> QED
      BY <1>5, <1>9, <2>2, <3>1, <3>2 DEF Prepared, looks, results
  <2>3. CASE Cleanup /\ End(c, "unprepared")
    <3>1. /\ pc'[c] = "done" /\ \A q \in Procs : q # c => pc'[q] = pc[q]
          /\ \A d \in Creators : outcome'[d] \in {"ok", "failed"} => outcome'[d] = outcome[d]
      BY <1>3, <2>3, EndFacts DEF TypeOK, Outcomes
    <3> QED
      BY <1>1, <1>9, <2>3, <3>1, Withdrawal DEF Prepared, looks, results
  <2> QED
    BY <1>9, <2>1, <2>2, <2>3 DEF Prepared
<1>10. CASE Start(c)
  <2>1. mci'.there = mci.there
    BY <1>3, <1>7, <1>10, UpdateMciType DEF Start
  <2>2. UNCHANGED <<vm, made, seen, createErrors, outcome>>
    BY <1>10 DEF Start, looks, results
  <2>3. CASE Goto(c, "objects") /\ Place(c, Vms, "object")
    <3>1. pc'[c] = "objects" /\ \A q \in Procs : q # c => pc'[q] = pc[q]
      BY <1>1, <1>3, <1>7, <2>3, GotoFacts DEF TypeOK
    <3>2. (\A v \in Vms : at'[c][v] = "object") /\ \A q \in Procs : q # c => at'[q] = at[q]
      BY <1>1, <1>3, <2>3, PlaceFacts DEF TypeOK, Places
    <3> QED
      BY <1>6, <2>1, <2>2, <3>1, <3>2
  <2>4. CASE Goto(c, "hold") /\ UNCHANGED at
    <3>1. "hold" \in Labels /\ "hold" \in Early
      BY DEF Labels, Early
    <3>2. pc'[c] = "hold" /\ \A q \in Procs : q # c => pc'[q] = pc[q]
      BY <1>1, <1>3, <2>4, <3>1, GotoFacts DEF TypeOK
    <3> QED
      BY <1>5, <2>1, <2>2, <2>4, <3>1, <3>2
  <2> QED
    BY <1>10, <2>3, <2>4 DEF Start, GoOn
<1>11. CASE Hold(c)
  <2>1. pc'[c] = "held" /\ \A q \in Procs : q # c => pc'[q] = pc[q]
    BY <1>1, <1>3, <1>7, <1>11, GotoFacts DEF Hold, TypeOK
  <2>2. "held" \in Early
    BY DEF Early
  <2> QED
    BY <1>5, <1>11, <2>1, <2>2 DEF Hold, looks, results
<1>12. CASE Held(c)
  <2>1. pc'[c] \in {"withdraw", "continue"} /\ \A q \in Procs : q # c => pc'[q] = pc[q]
    BY <1>1, <1>3, <1>7, <1>12, GotoFacts DEF Held, TypeOK
  <2> QED
    BY <1>5, <1>12, <2>1 DEF Held, looks, results, Early
<1>13. CASE Continue(c)
  <2>1. pc'[c] = "objects" /\ \A q \in Procs : q # c => pc'[q] = pc[q]
    BY <1>1, <1>3, <1>7, <1>13, GotoFacts DEF Continue, TypeOK
  <2>2. (\A v \in Vms : at'[c][v] = "object") /\ \A q \in Procs : q # c => at'[q] = at[q]
    BY <1>1, <1>3, <1>13, PlaceFacts DEF Continue, TypeOK, Places
  <2> QED
    BY <1>6, <1>13, <2>1, <2>2 DEF Continue, looks, results
<1>14. CASE Withdraw(c)
  <2>1. /\ pc'[c] = "done" /\ \A q \in Procs : q # c => pc'[q] = pc[q]
        /\ \A d \in Creators : outcome'[d] \in {"ok", "failed"} => outcome'[d] = outcome[d]
    BY <1>3, <1>14, EndFacts DEF Withdraw, TypeOK, Outcomes
  <2> QED
    BY <1>1, <1>14, <2>1, Withdrawal DEF Withdraw, looks, results
<1> QED
  BY <1>8, <1>9, <1>10, <1>11, <1>12, <1>13, <1>14

LEMMA ObjectsEndKeeps ==
    ASSUME CreationInv, TypeOK', NEW c \in Creators, ObjectsEnd(c)
    PROVE  CreationInv'
<1>1. c \in Procs /\ pc[c] = "objects" /\ pc[c] \in Working /\ at[c] = Out
  BY DEF ObjectsEnd, Procs, Working, Late
<1>2. createErrors \in [Creators -> SUBSET Vms] /\ at \in [Procs -> [Vms -> Places]] /\ TypeOK
  BY DEF CreationInv, TypeOK
<1>3. createErrors[c] = {}
  BY <1>1, <1>2 DEF CreationInv, Erring, Out
<1>4. createErrors' = createErrors
  BY <1>2, <1>3 DEF ObjectsEnd
<1>5. UNCHANGED <<mci, vm, made, seen>>
  BY <1>3 DEF ObjectsEnd, looks
<1>6. /\ \A q \in Procs : q # c => pc'[q] = pc[q] /\ at'[q] = at[q]
      /\ \A d \in Creators : outcome'[d] \in {"ok", "failed"} => outcome'[d] = outcome[d]
      /\ \/ pc'[c] = "done" /\ \A v \in Vms : at'[c][v] = "out"
         \/ pc'[c] = "vms" /\ \A v \in Vms : at'[c][v] = "post"
  <2>1. CASE End(c, "error") /\ UNCHANGED <<mci, vm, at>>
    BY <1>1, <1>2, <2>1, EndFacts DEF TypeOK, Outcomes, Out
  <2>2. CASE Goto(c, "vms") /\ Place(c, Vms, "post") /\ UNCHANGED outcome
    <3>1. pc'[c] = "vms" /\ \A q \in Procs : q # c => pc'[q] = pc[q]
      BY <1>1, <1>2, <2>2, GotoFacts DEF TypeOK, Labels
    <3>2. (\A v \in Vms : at'[c][v] = "post") /\ \A q \in Procs : q # c => at'[q] = at[q]
      BY <1>1, <1>2, <2>2, PlaceFacts DEF Places
    <3> QED
      BY <2>2, <3>1, <3>2
  <2> QED
    BY <1>3, <2>1, <2>2 DEF ObjectsEnd
<1>7. Moves(c) /\ Idly(c)
  BY <1>4, <1>5, <1>6 DEF Moves, Idly, Stations
<1>8. pc'[c] \in Working \cup {"done"}
  BY <1>6 DEF Working, Late
<1>9. Alone' /\ \A d \in Creators : outcome[d] \notin {"ok", "failed"}
  BY <1>1, <1>5, <1>7, <1>8, WorksAlone
<1>10. Placed' /\ Over'
  BY <1>1, <1>6, <1>7, <1>9, PlacedKept DEF CreationInv, Over
<1>11. Erring'
  BY <1>1, <1>3, <1>4, <1>6 DEF CreationInv, Erring, Procs
<1>12. \A d \in Creators : d \in Procs
  BY DEF Procs
<1>13. (Begun => Begun') /\ \A v \in Vms : NotAsked(v)' => NotAsked(v)
  BY <1>1, <1>5, <1>6, <1>12 DEF Begun, NotAsked, Early
<1>14. Knowledge'
  BY <1>1, <1>7, <1>13, KnowledgeKept
<1> QED
  BY <1>9, <1>10, <1>11, <1>14 DEF CreationInv

LEMMA VmsEndKeeps ==
    ASSUME CreationInv, TypeOK', NEW c \in Creators, VmsEnd(c)
    PROVE  CreationInv'
<1>1. c \in Procs /\ pc[c] = "vms" /\ pc[c] \in Working /\ at[c] = Out
  BY DEF VmsEnd, Procs, Working, Late
<1>2. UNCHANGED <<mci, made, at, seen, createErrors, outcome>>
  BY DEF VmsEnd, looks, results
<1>3. vm \in [Vms -> VmRecord] /\ TypeOK /\ Placed /\ pc \in [Procs -> Labels]
  BY DEF CreationInv, TypeOK
<1>4. \A v \in Vms : vm'[v].there = vm[v].there
  BY <1>3 DEF VmsEnd, VmRecord
<1>5. pc'[c] \in {"status", "complete"} /\ \A q \in Procs : q # c => pc'[q] = pc[q]
  BY <1>1, <1>3, GotoFacts DEF VmsEnd, Labels
<1>6. pc'[c] \in Labels /\ pc'[c] \in Working
  BY <1>5 DEF Labels, Working, Late
<1>7. Moves(c) /\ \A v \in Vms : at'[c][v] = "out"
  BY <1>1, <1>2, <1>3, <1>5, <1>6, MovesOn
<1>8. Alone' /\ mci.there /\ \A d \in Creators : outcome[d] \notin {"ok", "failed"}
  BY <1>1, <1>2, <1>6, <1>7, WorksAlone
<1>9. Placed' /\ Erring' /\ Over'
  BY <1>1, <1>2, <1>7, <1>8, PlacedKept, ErringKept DEF CreationInv, Over
<1>10. \A d \in Creators : d \in Procs /\ pc'[d] \notin Early \cup {"objects", "vms"}
  <2>1. \A d \in Creators : d # c => pc'[d] \notin Working
    BY <1>1, <1>2, <1>6, <1>7, WorksAlone
  <2> QED
    BY <1>5, <2>1 DEF Procs, Working, Early, Late
<1>11. Begun' /\ \A v \in Vms : ~NotAsked(v)'
  BY <1>2, <1>8, <1>9, <1>10 DEF Begun, NotAsked, Placed, Stations
<1>12. Knowledge'
  BY <1>2, <1>4, <1>11 DEF Knowledge, CreationInv
<1> QED
  BY <1>8, <1>9, <1>12 DEF CreationInv

LEMMA CompleteKeeps ==
    ASSUME CreationInv, TypeOK', NEW c \in Creators, Complete(c) \/ Final(c)
    PROVE  CreationInv'
<1>1. c \in Procs /\ pc[c] \in {"complete", "final"} /\ pc[c] \in Working \ {"objects"}
  BY DEF Complete, Final, Procs, Working, Late
<1>2. mci \in MciRecord /\ mci.status \in MciStatuses /\ {"Failed", "Fetched"} \subseteq MciStatuses /\ TypeOK /\ Placed
  BY DEF CreationInv, TypeOK, MciRecord, MciStatuses
<1>3. UNCHANGED <<vm, made, at, seen, createErrors>>
  BY DEF Complete, Final, looks, results
<1>4. mci'.there = mci.there /\ (mci.there => mci'.action = "None")
  BY <1>2, UpdateMciType DEF Complete, Final
<1>5. /\ \A q \in Procs : q # c => pc'[q] = pc[q]
      /\ \/ Complete(c) /\ pc'[c] = "status" /\ outcome' = outcome
         \/ pc'[c] = "done"
  BY <1>1, <1>2, GotoFacts, EndFacts DEF Complete, Final, TypeOK, Labels, Outcomes
<1>6. pc'[c] \in Labels /\ pc'[c] \in (Working \ {"vms"}) \cup {"done"} /\ pc'[c] \notin Early \cup {"objects"}
  BY <1>5 DEF Labels, Working, Early, Late
<1>7. Moves(c) /\ Idly(c)
  BY <1>1, <1>2, <1>3, <1>4, <1>5, <1>6, MovesOn DEF Idly
<1>8. Alone' /\ Placed' /\ Erring' /\ Knowledge'
  BY <1>1, <1>6, <1>7, OnwardParts
<1>9. mci.there /\ (\A d \in Creators : d # c => pc'[d] \notin Working)
      /\ (\A d \in Creators : outcome[d] \notin {"ok", "failed"})
  BY <1>1, <1>4, <1>6, <1>7, WorksAlone
<1>10. Over'
  BY <1>4, <1>5, <1>9 DEF Over, Working, Early, Late
<1> QED
  BY <1>8, <1>10 DEF CreationInv

-----------------------------------------------------------------------------
(* The goroutines for the VMs. *)

\* Who works on the VMs does so alone.
LEMMA WorkerFacts ==
    ASSUME CreationInv, NEW c \in Creators, pc[c] \in {"objects", "vms"}, NEW v \in Vms
    PROVE  /\ Begun
           /\ \A d \in Creators : d # c => pc[d] # "objects" /\ at[d][v] # "post"
           /\ NotAsked(v) => Fresh(v)
           /\ pc[c] = "objects" \/ at[c][v] = "post" => Fresh(v)
<1>1. pc[c] \in Working /\ mci.there
  BY DEF Working, Late, CreationInv, Alone
<1>2. \A d \in Creators : d # c => pc[d] \notin Working
  BY <1>1 DEF CreationInv, Alone
<1>3. \A d \in Creators : d # c => pc[d] \notin {"objects", "vms"} /\ at[d][v] # "post" /\ pc[d] \notin Early
  BY <1>2 DEF Working, Late, CreationInv, Placed, Stations, Procs
<1>4. pc[c] \notin Early
  BY DEF Early
<1> QED
  BY <1>1, <1>3, <1>4 DEF Begun, CreationInv, Knowledge, NotAsked

\* One goroutine of c gets on with its VM v, which is then no longer to be asked for.
LEMMA VmStep ==
    ASSUME CreationInv, TypeOK', NEW c \in Creators, NEW v \in Vms,
           pc[c] \in {"objects", "vms"}, UNCHANGED <<mci, pc, seen, outcome>>,
           NEW l \in Places, Place(c, {v}, l), l \in Stations(pc[c]) \ {"post"},
           \A w \in Vms : w # v => vm'[w] = vm[w] /\ made'[w] = made[w],
           vm[v].there => vm'[v].there,
           made'[v] <= 1,
           pc[c] = "objects" => Fresh(v)',
           \A d \in Creators, w \in Vms : w \in createErrors'[d] => at'[d][w] = "stuck"
    PROVE  CreationInv'
<1>1. c \in Procs /\ at \in [Procs -> [Vms -> Places]] /\ TypeOK
  BY DEF Procs, CreationInv, TypeOK
<1>2. /\ \A w \in Vms : at'[c][w] = IF w = v THEN l ELSE at[c][w]
      /\ \A q \in Procs : q # c => at'[q] = at[q]
  BY <1>1, PlaceFacts
<1>3. Alone' /\ Over' /\ Erring'
  BY DEF CreationInv, Alone, Over, Erring
<1>4. Placed'
  BY <1>1, <1>2 DEF CreationInv, Placed
<1>5. Begun'
  BY WorkerFacts DEF Begun
<1>6. \A w \in Vms : NotAsked(w)' => Fresh(w)'
  <2> SUFFICES ASSUME NEW w \in Vms, NotAsked(w)' PROVE Fresh(w)'
    OBVIOUS
  <2>1. CASE w = v
    <3>1. \A d \in Creators : d # c => pc[d] # "objects" /\ at'[d][v] # "post"
      BY <1>2, WorkerFacts DEF Procs
    <3>2. at'[c][v] # "post"
      BY <1>2
    <3>3. pc[c] = "objects"
      BY <2>1, <3>1, <3>2 DEF NotAsked
    <3> QED
      BY <2>1, <3>3
  <2>2. CASE w # v
    <3>1. NotAsked(w)
      BY <1>2, <2>2 DEF NotAsked, Procs
    <3>2. Fresh(w)
      BY <3>1 DEF CreationInv, Knowledge
    <3> QED
      BY <2>2, <3>2 DEF Fresh
  <2> QED
    BY <2>1, <2>2
<1>7. \A w \in Vms : made'[w] <= 1
  BY DEF CreationInv, Knowledge
<1>8. \A q \in Procs, w \in Vms : at'[q][w] = "fetch" => vm'[w].there
  <2>1. l # "fetch"
    BY DEF Stations
  <2> QED
    BY <1>2, <2>1 DEF CreationInv, Knowledge
<1> QED
  BY <1>3, <1>4, <1>5, <1>6, <1>7, <1>8 DEF CreationInv, Knowledge

LEMMA CreateVmKeeps ==
    ASSUME CreationInv, TypeOK', NEW c \in Creators, NEW v \in Vms, CreateVm(c, v)
    PROVE  CreationInv'
<1>1. c \in Procs /\ TypeOK /\ pc[c] \in {"objects", "vms"} /\ UNCHANGED <<mci, pc, seen, outcome>>
  BY DEF Procs, CreationInv, CreateVm, CreateVmObject, CreateVmPost, CreateVmFinish, looks
<1>2. /\ vm \in [Vms -> VmRecord] /\ made \in [Vms -> Nat] /\ made[v] <= 1
      /\ at \in [Procs -> [Vms -> Places]] /\ createErrors \in [Creators -> SUBSET Vms]
  BY DEF CreationInv, TypeOK, Knowledge
<1>3. NewVm \in VmRecord /\ NewVm.there
  BY ConstantTypes DEF NewVm
<1>4. {"out", "stuck", "finish"} \subseteq Places
  BY DEF Places
<1>5. \A l \in Places : Place(c, {v}, l) =>
         /\ \A w \in Vms : at'[c][w] = IF w = v THEN l ELSE at[c][w]
         /\ \A q \in Procs : q # c => at'[q] = at[q]
  BY <1>1, <1>2, PlaceFacts
<1>6. CASE CreateVmObject(c, v)
  <2>1. pc[c] = "objects" /\ at[c][v] = "object" /\ made' = made /\ Fresh(v)
    BY <1>6, WorkerFacts DEF CreateVmObject
  <2>2. mci.there
    BY <1>1, WorkerFacts DEF Begun
  <2>3. CASE vm' = [vm EXCEPT ![v] = NewVm] /\ Place(c, {v}, "out") /\ UNCHANGED createErrors
    <3>1. Fresh(v)'
      BY <1>1, <1>2, <2>1, <2>3 DEF Fresh
    <3>2. \A d \in Creators, w \in Vms : w \in createErrors'[d] => at'[d][w] = "stuck"
      BY <1>4, <1>5, <2>1, <2>3 DEF CreationInv, Erring, Procs
    <3>3. "out" \in Stations(pc[c]) \ {"post"}
      BY DEF Stations
    <3>4. (\A w \in Vms : w # v => vm'[w] = vm[w] /\ made'[w] = made[w]) /\ vm'[v].there /\ made'[v] <= 1
      BY <1>2, <1>3, <2>1, <2>3
    <3> QED
      BY <1>1, <1>4, <2>3, <3>1, <3>2, <3>3, <3>4, VmStep
  <2>4. CASE createErrors' = [createErrors EXCEPT ![c] = @ \cup {v}] /\ Place(c, {v}, "stuck") /\ UNCHANGED vm
    <3>1. Fresh(v)'
      BY <1>1, <2>1, <2>4 DEF Fresh
    <3>2. \A d \in Creators, w \in Vms : w \in createErrors'[d] => at'[d][w] = "stuck"
      BY <1>2, <1>4, <1>5, <2>4 DEF CreationInv, Erring, Procs
    <3>3. "stuck" \in Stations(pc[c]) \ {"post"}
      BY <2>1 DEF Stations
    <3> QED
      BY <1>1, <1>2, <1>4, <2>1, <2>4, <3>1, <3>2, <3>3, VmStep
  <2> QED
    BY <1>6, <2>3, <2>4 DEF CreateVmObject
<1>7. ASSUME pc[c] = "vms", at[c][v] \in {"post", "finish"}, UNCHANGED createErrors,
             NEW l \in {"out", "finish"}, Place(c, {v}, l),
             NEW r \in VmRecord, r.there, UpdateVmInfo(v, r) \/ UNCHANGED vm,
             \A w \in Vms : w # v => made'[w] = made[w], made'[v] <= 1
      PROVE  CreationInv'
  <2>1. l \in Places /\ l \in Stations(pc[c]) \ {"post"}
    BY <1>4, <1>7 DEF Stations
  <2>2. (\A w \in Vms : w # v => vm'[w] = vm[w]) /\ (vm[v].there => vm'[v].there)
    BY <1>2, <1>7, UpdateVmType
  <2>3. \A d \in Creators, w \in Vms : w \in createErrors'[d] => at'[d][w] = "stuck"
    BY <1>5, <1>7, <2>1 DEF CreationInv, Erring, Procs
  <2>4. pc[c] = "objects" => Fresh(v)'
    BY <1>7
  <2> QED
    BY <1>1, <1>7, <2>1, <2>2, <2>3, <2>4, VmStep
<1>8. CASE CreateVmPost(c, v)
  <2>1. pc[c] = "vms" /\ at[c][v] = "post" /\ made[v] = 0 /\ UNCHANGED createErrors
    BY <1>8, WorkerFacts DEF CreateVmPost, Fresh
  <2>2. made' = made \/ made' = [made EXCEPT ![v] = @ + 1]
    BY <1>8 DEF CreateVmPost
  <2>3. made'[v] <= 1 /\ \A w \in Vms : w # v => made'[w] = made[w]
    BY <1>2, <2>1, <2>2
  <2>4. \E l \in {"out", "finish"} : Place(c, {v}, l)
    BY <1>8 DEF CreateVmPost
  <2>5. \E r \in {[NewVm EXCEPT !.named = TRUE], [NewVm EXCEPT !.status = "Failed"]} :
           UpdateVmInfo(v, r) \/ UNCHANGED vm
    BY <1>8 DEF CreateVmPost
  <2>6. \A r \in {[NewVm EXCEPT !.named = TRUE], [NewVm EXCEPT !.status = "Failed"]} : r \in VmRecord /\ r.there
    BY <1>3 DEF VmRecord, NewVm, Statuses, Stable
  <2> QED
    BY <1>7, <2>1, <2>3, <2>4, <2>5, <2>6
<1>9. CASE CreateVmFinish(c, v)
  <2>1. pc[c] = "vms" /\ at[c][v] = "finish" /\ made' = made /\ Place(c, {v}, "out") /\ UNCHANGED createErrors
    BY <1>9 DEF CreateVmFinish
  <2>2. \E s \in Statuses : UpdateVmInfo(v, [there |-> TRUE, named |-> TRUE, status |-> s, action |-> "None"])
    <3>1. "Failed" \in Statuses
      BY DEF Statuses, Stable
    <3> QED
      BY <1>2, <1>9, <3>1, FetchTypes DEF CreateVmFinish
  <2>3. \A s \in Statuses : LET r == [there |-> TRUE, named |-> TRUE, status |-> s, action |-> "None"]
                            IN  r \in VmRecord /\ r.there
    BY DEF VmRecord
  <2> QED
    BY <1>2, <1>7, <2>1, <2>2, <2>3
<1> QED
  BY <1>6, <1>8, <1>9 DEF CreateVm

-----------------------------------------------------------------------------
(* Status requests. *)

LEMMA PollerKeeps ==
    ASSUME CreationInv, TypeOK', NEW p \in Procs \ Creators, Moves(p), Idly(p),
           pc[p] # "objects", mci'.action \in {"None", mci.action}, UNCHANGED outcome
    PROVE  CreationInv'
<1>1. \A c \in Creators : c \in Procs /\ pc'[c] = pc[c] /\ at'[c] = at[c]
  BY DEF Moves, Procs
<1>2. mci'.there = mci.there
  BY DEF Idly
<1>3. Alone' /\ Over'
  BY <1>1, <1>2 DEF Alone, Over, CreationInv
<1>4. Placed' /\ Erring'
  BY PlacedKept, ErringKept DEF CreationInv, Idly
<1>5. (Begun => Begun') /\ \A v \in Vms : NotAsked(v)' => NotAsked(v)
  BY <1>1, <1>2 DEF Begun, NotAsked
<1>6. Knowledge'
  BY <1>5, KnowledgeKept
<1> QED
  BY <1>3, <1>4, <1>6 DEF CreationInv

LEMMA StatusReadKeeps ==
    ASSUME CreationInv, TypeOK', NEW p \in Procs, StatusRead(p)
    PROVE  CreationInv'
<1>1. TypeOK /\ {"fetch", "final"} \subseteq Labels /\ "fetch" \in Places
  BY DEF CreationInv, Labels, Places
<1>2. pc[p] \in {"status", "idle"} /\ \A v \in Vms : at[p][v] = "out"
  BY DEF StatusRead, CreationInv, Placed, Stations
<1>3. UNCHANGED <<mci, vm, made, seen, createErrors>>
  BY DEF StatusRead, looks, results
<1>4. mci.there \/ p \notin Creators
  <2>1. p \in Creators => pc[p] \in Working
    BY DEF StatusRead, Working, Late
  <2> QED
    BY <2>1 DEF CreationInv, Alone
<1>5. mci.there /\ outcome' = outcome
  BY <1>4 DEF StatusRead
<1>6. Goto(p, IF Listed = {} THEN "final" ELSE "fetch") /\ Place(p, Listed, "fetch") /\ (Listed = {} => p \in Creators)
  BY <1>5 DEF StatusRead
<1>7. /\ pc'[p] = (IF Listed = {} THEN "final" ELSE "fetch")
      /\ \A q \in Procs : q # p => pc'[q] = pc[q]
  BY <1>1, <1>6, GotoFacts DEF TypeOK
<1>8. /\ \A v \in Vms : at'[p][v] = IF v \in Listed THEN "fetch" ELSE "out"
      /\ \A q \in Procs : q # p => at'[q] = at[q]
  BY <1>1, <1>2, <1>6, PlaceFacts DEF TypeOK
<1>9. Moves(p)
  BY <1>7, <1>8 DEF Moves, Stations
<1>10. Idly(p)
  BY <1>3, <1>8 DEF Idly, Listed
<1>11. CASE p \in Creators
  <2>1. pc[p] \in Working \ {"objects"}
    BY <1>11 DEF StatusRead, Working, Late
  <2>2. pc'[p] \in (Working \ {"vms"}) \cup {"done"} /\ pc'[p] \notin Early \cup {"objects"}
    BY <1>7 DEF Working, Early, Late
  <2> QED
    BY <1>5, <1>9, <1>10, <1>11, <2>1, <2>2, Onward
<1>12. CASE p \notin Creators
  BY <1>2, <1>3, <1>5, <1>9, <1>10, <1>12, PollerKeeps
<1> QED
  BY <1>11, <1>12

LEMMA StatusEndKeeps ==
    ASSUME CreationInv, TypeOK', NEW p \in Procs, StatusEnd(p)
    PROVE  CreationInv'
<1>1. TypeOK /\ Placed /\ pc[p] = "fetch" /\ at[p] = Out /\ After(p) \in Labels
  BY DEF StatusEnd, CreationInv, After, Labels
<1>2. UNCHANGED <<vm, made, at, createErrors, outcome>>
  BY DEF StatusEnd, results
<1>3. mci'.there = mci.there /\ mci'.action \in {"None", mci.action}
  <2>1. mci \in MciRecord /\ read[p].status \in MciStatuses /\ "Failed" \in MciStatuses
    BY <1>1 DEF TypeOK, MciRecord, MciStatuses
  <2>2. \/ \E s \in {"Failed", read[p].status} : UpdateMciInfo(s, "None")
        \/ UNCHANGED mci
    BY DEF StatusEnd
  <2> QED
    BY <2>1, <2>2, UpdateMciType
<1>4. pc'[p] = After(p) /\ \A q \in Procs : q # p => pc'[q] = pc[q]
  BY <1>1, GotoFacts DEF StatusEnd, TypeOK
<1>5. Moves(p) /\ \A v \in Vms : at'[p][v] = "out"
  BY <1>1, <1>2, <1>4, MovesOn
<1>6. \A q \in Procs : seen'[q] = seen[q] \/ (q = p /\ seen'[q] = Unseen)
  BY <1>1 DEF StatusEnd, TypeOK
<1>7. Idly(p)
  BY <1>2, <1>3, <1>5, <1>6 DEF Idly
<1>8. CASE p \in Creators
  <2>1. pc[p] \in Working \ {"objects"} /\ pc'[p] = "final"
    BY <1>1, <1>4, <1>8 DEF Working, Late, After
  <2>2. pc'[p] \in (Working \ {"vms"}) \cup {"done"} /\ pc'[p] \notin Early \cup {"objects"}
    BY <2>1 DEF Working, Early, Late
  <2> QED
    BY <1>2, <1>5, <1>7, <1>8, <2>1, <2>2, Onward
<1>9. CASE p \notin Creators
  BY <1>1, <1>2, <1>3, <1>5, <1>7, <1>9, PollerKeeps
<1> QED
  BY <1>8, <1>9

\* For a VM that was not asked for, a fetch returns that it is being created.
LEMMA FetchFresh ==
    ASSUME NEW v \in Vms, vm[v] = NewVm, NEW n \in {"Running", "Undefined", "error"}
    PROVE  RecordOf(v, n) = vm[v] /\ StatusOf(v, n) = "Creating"
<1>1. ~Asked(v) /\ ~NeedNotAsk(vm[v]) /\ vm[v].there
  BY DEF Asked, NeedNotAsk, NewVm
<1>2. Corrected(vm[v], "Undefined") = "Creating"
  BY DEF Corrected, NewVm, OnTheWay, During
<1> QED
  BY <1>1, <1>2 DEF RecordOf, StatusOf

LEMMA FetchKeeps ==
    ASSUME CreationInv, TypeOK', NEW p \in Procs, NEW v \in Vms, StatusFetch(p, v)
    PROVE  CreationInv'
<1>1. /\ TypeOK /\ vm \in [Vms -> VmRecord] /\ seen \in [Procs -> Types]
      /\ at \in [Procs -> [Vms -> Places]] /\ "out" \in Places
  BY DEF CreationInv, TypeOK, Types, Places
<1>2. pc[p] = "fetch" /\ at[p][v] = "fetch" /\ vm[v].there
  BY DEF StatusFetch, CreationInv, Knowledge
<1>3. UNCHANGED <<mci, made, pc, createErrors, outcome>>
  BY DEF StatusFetch, results
<1>4. PICK n \in {"Running", "Undefined", "error"} :
        /\ vm' = [vm EXCEPT ![v] = RecordOf(v, n)]
        /\ seen' = [seen EXCEPT ![p] = Seen(@, v, StatusOf(v, n))]
  BY DEF StatusFetch
<1>5. StatusOf(v, n) \in Statuses
  BY <1>1, FetchTypes
<1>6. /\ \A w \in Vms : at'[p][w] = IF w = v THEN "out" ELSE at[p][w]
      /\ \A q \in Procs : q # p => at'[q] = at[q]
  BY <1>1, PlaceFacts DEF StatusFetch
<1>7. Moves(p)
  BY <1>2, <1>3, <1>6 DEF Moves, CreationInv, Placed, Stations
<1>8. Alone' /\ Over'
  BY <1>3 DEF Alone, Over, CreationInv
<1>9. Placed' /\ Erring'
  BY <1>2, <1>3, <1>7, PlacedKept, ErringKept DEF CreationInv
<1>10. (\A w \in Vms : w # v => vm'[w] = vm[w]) /\ vm'[v] = RecordOf(v, n)
  BY <1>1, <1>4
<1>11. RecordOf(v, n).there = vm[v].there
  BY <1>1 DEF RecordOf, Refreshed, VmRecord
<1>12. \A q \in Procs : q # p => seen'[q] = seen[q]
  BY <1>1, <1>4
<1>13. \A w \in DOMAIN seen'[p] :
          IF w = v THEN seen'[p][w] = StatusOf(v, n) ELSE w \in DOMAIN seen[p] /\ seen'[p][w] = seen[p][w]
  <2>1. seen'[p] = Seen(seen[p], v, StatusOf(v, n)) /\ seen[p] \in Types
    BY <1>1, <1>4
  <2> DEFINE new == Seen(seen[p], v, StatusOf(v, n))
  <2>2. /\ DOMAIN new = DOMAIN seen[p] \cup {v}
        /\ new[v] = StatusOf(v, n)
        /\ \A w \in DOMAIN seen[p] : w # v => new[w] = seen[p][w]
    BY <1>5, <2>1, SeenType
  <2> HIDE DEF new
  <2>3. seen'[p] = new
    BY <2>1 DEF new
  <2> QED
    BY <2>2, <2>3
<1>14. Begun /\ Begun'
  BY <1>2, <1>3 DEF CreationInv, Knowledge, Absent, Begun
<1>15. \A w \in Vms : NotAsked(w)' => NotAsked(w)
  BY <1>3, <1>6 DEF NotAsked, Procs
<1>16. \A w \in Vms : Fresh(w) => Fresh(w)'
  <2> SUFFICES ASSUME NEW w \in Vms, Fresh(w) PROVE Fresh(w)'
    OBVIOUS
  <2>1. CASE w = v
    <3>1. vm[v] = NewVm
      BY <1>2, <2>1 DEF Fresh
    <3>2. vm'[v] = NewVm /\ StatusOf(v, n) = "Creating"
      BY <1>10, <3>1, FetchFresh
    <3> QED
      BY <1>3, <1>12, <1>13, <2>1, <3>2 DEF Fresh
  <2>2. CASE w # v
    BY <1>3, <1>10, <1>12, <1>13, <2>2 DEF Fresh
  <2> QED
    BY <2>1, <2>2
<1>17. \A q \in Procs, w \in Vms : at'[q][w] = "fetch" => vm'[w].there
  BY <1>2, <1>6, <1>10, <1>11 DEF CreationInv, Knowledge
<1>18. Knowledge'
  BY <1>3, <1>14, <1>15, <1>16, <1>17 DEF CreationInv, Knowledge
<1> QED
  BY <1>8, <1>9, <1>18 DEF CreationInv

-----------------------------------------------------------------------------
(* The theorems. *)

LEMMA CreationNext ==
    ASSUME "race" \notin Scope
    PROVE  CreationInv /\ [Next]_vars => CreationInv'
<1> SUFFICES ASSUME CreationInv, [Next]_vars PROVE CreationInv'
  OBVIOUS
<1>1. TypeOK'
  BY TypeNext DEF CreationInv
<1>2. ASSUME UNCHANGED <<mci, vm, made, pc, at, seen, createErrors, outcome>> PROVE CreationInv'
  <2>1. Alone' /\ Placed' /\ Erring' /\ Over'
    BY <1>2 DEF CreationInv, Alone, Placed, Erring, Over
  <2>2. Knowledge'
    BY <1>2 DEF CreationInv, Knowledge, Begun, NotAsked, Absent, Fresh
  <2> QED
    BY <1>1, <2>1, <2>2 DEF CreationInv
<1>3. CASE UNCHANGED vars
  BY <1>2, <1>3 DEF vars, looks, results
<1>4. ASSUME NEW a \in {"continue", "withdraw"}, Answer(a) PROVE CreationInv'
  BY <1>2, <1>4 DEF Answer, looks, results
<1>5. ASSUME NEW c \in Creators, Request(c) \/ CreateMci(c) PROVE CreationInv'
  BY <1>1, <1>5, RequestKeeps, CheckKeeps, MakeKeeps, EarlyKeeps, ObjectsEndKeeps, VmsEndKeeps,
     CompleteKeeps DEF CreateMci
<1>6. ASSUME NEW p \in Procs, GetMciStatus(p) PROVE CreationInv'
  BY <1>1, <1>6, StatusReadKeeps, StatusEndKeeps, FetchKeeps DEF GetMciStatus
<1> QED
  BY <1>1, <1>3, <1>4, <1>5, <1>6, CreateVmKeeps DEF Next

LEMMA CreationCorrect ==
    ASSUME "race" \notin Scope
    PROVE  Spec => []CreationInv
BY CreationInit, CreationNext, PTL DEF Spec

\* However many requests for the MCI there are, held, withdrawn or failing, as long as
\* their checks do not overlap the CSP is made to create each VM at most once
\* (CreateMci, "MCI already exists").
THEOREM OneVmEach ==
    ASSUME "race" \notin Scope
    PROVE  Spec => []NoDuplicateVm
<1>1. CreationInv => NoDuplicateVm
  BY DEF CreationInv, Knowledge, NoDuplicateVm
<1> QED
  BY <1>1, CreationCorrect, PTL

\* An MCI whose creation returned is not under the action Create, whatever status
\* requests wrote back meanwhile (CreateMci and the recovery path of GetMciStatus).
THEOREM CreationIsOver ==
    ASSUME "race" \notin Scope
    PROVE  Spec => []NoEndlessCreate
<1>1. CreationInv => NoEndlessCreate
  BY DEF CreationInv, Over, NoEndlessCreate
<1> QED
  BY <1>1, CreationCorrect, PTL

\* What a poller does with its status request is its own step.
LEMMA OwnStep ==
    ASSUME TypeOK, [Next]_vars, NEW p \in Pollers, pc[p] = "fetch", pc'[p] = "idle"
    PROVE  StatusEnd(p)
<1> USE DEF TypeOK
<1>1. p \in Procs /\ \A c \in Creators : c \in Procs /\ c # p
  BY CreationAssumption DEF Procs
<1>2. \A q \in Procs : \A l : q # p /\ Goto(q, l) => pc'[p] = pc[p]
  BY <1>1 DEF Goto
<1>3. \A c \in Creators : \A o : End(c, o) => pc'[p] = pc[p]
  BY <1>1, <1>2 DEF End
<1>4. ASSUME NEW c \in Creators, Request(c) \/ CreateMci(c) PROVE pc'[p] = pc[p]
  <2>1. CASE Request(c) \/ CheckMci(c) \/ CreateMciObject(c) \/ Prepare(c) \/ Prepared(c)
    BY <1>1, <1>2, <1>3, <2>1 DEF Request, CheckMci, CreateMciObject, GoOn, Prepare, Prepared
  <2>2. CASE Start(c) \/ Hold(c) \/ Held(c) \/ Continue(c) \/ Withdraw(c)
    BY <1>1, <1>2, <1>3, <2>2 DEF Start, GoOn, Hold, Held, Continue, Withdraw
  <2>3. CASE ObjectsEnd(c) \/ VmsEnd(c) \/ Complete(c) \/ Final(c)
    BY <1>1, <1>2, <1>3, <2>3 DEF ObjectsEnd, VmsEnd, Complete, Final
  <2> QED
    BY <1>4, <2>1, <2>2, <2>3 DEF CreateMci
<1>5. ASSUME NEW c \in Creators, NEW v \in Vms, CreateVm(c, v) PROVE pc'[p] = pc[p]
  BY <1>5 DEF CreateVm, CreateVmObject, CreateVmPost, CreateVmFinish
<1>6. ASSUME NEW a \in {"continue", "withdraw"}, Answer(a) PROVE pc'[p] = pc[p]
  BY <1>6 DEF Answer
<1>7. ASSUME NEW q \in Procs, GetMciStatus(q), q # p \/ ~StatusEnd(q) PROVE pc'[p] = pc[p]
  <2>1. ASSUME NEW v \in Vms, StatusFetch(q, v) PROVE pc'[p] = pc[p]
    BY <2>1 DEF StatusFetch
  <2>2. CASE StatusRead(q)
    <3>1. q # p
      BY <1>1, <2>2 DEF StatusRead
    <3> QED
      BY <1>2, <1>3, <2>2, <3>1 DEF StatusRead
  <2>3. CASE StatusEnd(q) /\ q # p
    BY <1>2, <2>3 DEF StatusEnd
  <2> QED
    BY <1>7, <2>1, <2>2, <2>3 DEF GetMciStatus
<1> QED
  BY <1>4, <1>5, <1>6, <1>7 DEF Next, vars

\* The recovery path of a status request does not end the creation while a VM it
\* looked at has not been answered for (GetMciStatus).
THEOREM RecoveryCorrect ==
    ASSUME "race" \notin Scope
    PROVE  Spec => RecoveryWaits
<1> DEFINE Waits == \A p \in Pollers :
         pc[p] = "fetch" /\ pc'[p] = "idle" /\ mci.action = "Create" /\ mci'.action = "None"
            => \A c \in Creators, v \in DOMAIN seen[p] : at[c][v] # "post"
<1>1. ASSUME CreationInv, CreationInv', [Next]_vars PROVE Waits
  <2> SUFFICES ASSUME NEW p \in Pollers,
                      pc[p] = "fetch", pc'[p] = "idle", mci.action = "Create", mci'.action = "None",
                      NEW c \in Creators, NEW v \in DOMAIN seen[p], at[c][v] = "post"
               PROVE  FALSE
    OBVIOUS
  <2>1. v \in Vms /\ p \in Procs /\ mci \in MciRecord /\ read[p].action \in {"None", "Create"}
    BY <1>1 DEF CreationInv, TypeOK, MciRecord, Procs
  <2>2. StatusEnd(p)
    BY <1>1, OwnStep DEF CreationInv
  <2>3. read[p].action # "None" /\ Done(read[p].action, seen[p])
    BY <2>2 DEF StatusEnd
  <2>4. seen[p][v] # "Creating"
    BY <2>1, <2>3 DEF Done, Pending
  <2>5. Fresh(v)
    BY <1>1, <2>1 DEF CreationInv, Knowledge, NotAsked
  <2> QED
    BY <2>1, <2>4, <2>5 DEF Fresh
<1> QED
  BY <1>1, CreationCorrect, PTL DEF Spec, RecoveryWaits

=============================================================================
