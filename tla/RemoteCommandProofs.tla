------------------------ MODULE RemoteCommandProofs ------------------------
(* Theorems about RemoteCommand, for any number of requests, clients, VMs, *)
(* earlier records, failing calls and crashes.                             *)
EXTENDS RemoteCommand, FiniteSetTheorems, TLAPS

-----------------------------------------------------------------------------
(* Indices of records: a set of records whose indices are bounded has one  *)
(* with the highest index, so that the next index is above them all.       *)

Bounded(cmds) == \E n \in Nat : \A rec \in cmds : rec.index <= n
Unique(cmds)  == \A a, b \in cmds : a.index = b.index => a = b

Smaller == {ss \in Nat \X Nat : ss[1] < ss[2]}

LEMMA LeastNumber ==
    ASSUME NEW T \in SUBSET Nat, T # {}
    PROVE  \E x \in T : \A y \in T : x <= y
<1>1. IsWellFoundedOn(Smaller, Nat)
  BY NatLessThanWellFounded DEF OpToRel, Smaller
<1>2. PICK x \in T : \A y \in T : <<y, x>> \notin Smaller
  BY <1>1, WFMin
<1>3. \A y \in T : ~(y < x)
  BY <1>2 DEF Smaller
<1> QED
  BY <1>3

LEMMA HighestIndex ==
    ASSUME NEW cmds \in SUBSET Records, cmds # {}, Bounded(cmds)
    PROVE  \E rec \in cmds : \A c \in cmds : c.index <= rec.index
<1> DEFINE U == {n \in Nat : \A rec \in cmds : rec.index <= n}
<1>1. U \in SUBSET Nat /\ U # {}
  BY DEF Bounded
<1>2. PICK m \in U : \A n \in U : m <= n
  BY <1>1, LeastNumber
<1>3. \A rec \in cmds : rec.index \in Nat /\ rec.index # 0
  BY DEF Records
<1>4. ASSUME \A rec \in cmds : rec.index # m PROVE FALSE
  <2>1. m \in Nat /\ m # 0
    BY <1>2, <1>3, <1>4
  <2>2. m - 1 \in U
    BY <1>2, <1>3, <1>4, <2>1
  <2> QED
    BY <1>2, <2>1, <2>2
<1> QED
  BY <1>2, <1>3, <1>4

LEMMA NextIsAbove ==
    ASSUME NEW cmds \in SUBSET Records, Bounded(cmds)
    PROVE  /\ NextIndex(cmds) \in Nat \ {0}
           /\ \A rec \in cmds : rec.index < NextIndex(cmds)
<1>1. CASE cmds = {}
  BY <1>1 DEF NextIndex
<1>2. CASE cmds # {}
  <2>1. PICK top \in cmds : \A c \in cmds : c.index <= top.index
    BY <1>2, HighestIndex
  <2>2. \A rec \in cmds : rec.index \in Nat /\ rec.index \in Indices(cmds)
    BY DEF Records, Indices
  <2>3. \A i \in Indices(cmds) : i \in Nat /\ i <= top.index
    BY <2>1, <2>2 DEF Indices
  <2>4. Max(Indices(cmds)) = top.index
    <3>1. \A i \in Indices(cmds) : top.index >= i
      BY <2>2, <2>3
    <3>2. /\ Max(Indices(cmds)) \in Indices(cmds)
          /\ \A i \in Indices(cmds) : Max(Indices(cmds)) >= i
      BY <2>1, <2>2, <3>1 DEF Max
    <3> QED
      BY <2>2, <2>3, <3>1, <3>2
  <2> QED
    BY <1>2, <2>1, <2>2, <2>4 DEF NextIndex
<1> QED
  BY <1>1, <1>2

\* A finite set of records is bounded.
LEMMA FiniteIsBounded ==
    ASSUME NEW cmds \in SUBSET Records, IsFiniteSet(cmds)
    PROVE  Bounded(cmds)
<1> DEFINE Above(x) == {y \in cmds : y.index > x.index}
           Sets == {Above(x) : x \in cmds}
<1>1. CASE cmds = {}
  BY <1>1 DEF Bounded
<1>2. CASE cmds # {}
  <2>1. Sets \subseteq FiniteSubsetsOf(cmds) /\ Sets # {}
    <3>1. \A x \in cmds : Above(x) \in SUBSET cmds /\ Above(x) \in Sets
      OBVIOUS
    <3>2. Sets \subseteq SUBSET cmds /\ Sets # {}
      BY <1>2, <3>1
    <3> QED
      BY <3>2, FS_FiniteSubsetsOfFinite
  <2>2. PICK S \in Sets : \A T \in Sets : <<T, S>> \notin StrictSubsetOrdering(cmds)
    BY <2>1, FS_StrictSubsetOrderingWellFounded, WFMin
  <2>3. PICK x \in cmds : S = Above(x)
    OBVIOUS
  <2>4. \A y \in cmds : y.index \in Nat
    BY DEF Records
  <2>5. ASSUME NEW y \in cmds, y.index > x.index PROVE FALSE
    <3>1. Above(y) \subseteq Above(x) /\ y \in Above(x) /\ y \notin Above(y)
      BY <2>4, <2>5
    <3>2. Above(y) \in Sets /\ Above(y) \subseteq cmds /\ Above(x) \subseteq cmds
      OBVIOUS
    <3> QED
      BY <2>2, <2>3, <3>1, <3>2 DEF StrictSubsetOrdering
  <2> QED
    BY <2>4, <2>5 DEF Bounded
<1> QED
  BY <1>1, <1>2

-----------------------------------------------------------------------------
(* VM objects whose records have different indices, and what keeps them so. *)

Good == {o \in Objects : Unique(o.cmds) /\ Bounded(o.cmds)}

\* What an update may be asked to do.
Args == Requests \cup Nat \cup SUBSET Nat
Fits(change, arg) ==
    \/ change = "add" /\ arg \in Requests
    \/ change = "drop" /\ arg \in SUBSET Nat
    \/ change \in Statuses /\ arg \in Nat

Updates == {u \in [vm : Vms \cup {None}, change : Changes, arg : Args, got : Good, tries : Nat] :
               u.vm # None => Fits(u.change, u.arg)}

LEMMA FreshGood == FreshVm \in Good /\ Idle \in Updates
<1>1. FreshVm \in Objects /\ FreshVm.cmds = {}
  BY DEF FreshVm, VmWith, Objects
<1>2. FreshVm \in Good
  BY <1>1 DEF Good, Unique, Bounded
<1> QED
  BY <1>2 DEF Idle, Updates, Changes, Args

LEMMA PastGood == ASSUME NEW v \in Vms PROVE VmWith(PastOf[v]) \in Good
<1>1. PastOf[v] \in SUBSET Records /\ IsFiniteSet(PastOf[v])
      /\ \A a, b \in PastOf[v] : a.index = b.index => a = b
  BY PastAssumption
<1>2. Bounded(PastOf[v])
  BY <1>1, FiniteIsBounded
<1> QED
  BY <1>1, <1>2 DEF VmWith, Good, Objects, Unique

LEMMA ChangedKeeps ==
    ASSUME NEW cmds \in SUBSET Records, Unique(cmds), Bounded(cmds),
           NEW change, NEW arg, Fits(change, arg)
    PROVE  /\ Changed(cmds, change, arg) \in SUBSET Records
           /\ Unique(Changed(cmds, change, arg))
           /\ Bounded(Changed(cmds, change, arg))
<1>1. CASE change = "add"
  <2> DEFINE new == [index |-> NextIndex(cmds), req |-> arg, status |-> "Queued"]
  <2>1. Changed(cmds, change, arg) = cmds \cup {new}
    BY <1>1 DEF Changed
  <2>2. new \in Records /\ new.index = NextIndex(cmds)
    BY <1>1, NextIsAbove DEF Fits, Records, Statuses
  <2>3. \A rec \in cmds : rec.index \in Nat /\ rec.index < new.index
    BY <2>2, NextIsAbove DEF Records
  <2> HIDE DEF new
  <2>4. Unique(cmds \cup {new})
    BY <2>3 DEF Unique
  <2>5. Bounded(cmds \cup {new})
    BY <2>2, <2>3 DEF Bounded, Records
  <2> QED
    BY <2>1, <2>2, <2>4, <2>5
<1>2. CASE change = "drop"
  <2>1. Changed(cmds, change, arg) \subseteq cmds
    BY <1>2 DEF Changed
  <2> QED
    BY <2>1 DEF Unique, Bounded
<1>3. CASE change \in Statuses
  <2>1. Changed(cmds, change, arg) = WithStatus(cmds, arg, change)
    BY <1>3 DEF Changed, Statuses
  <2>2. \A a \in WithStatus(cmds, arg, change) :
          /\ a \in Records
          /\ \E c \in cmds : /\ c.index = a.index
                             /\ a = IF c.index = arg THEN [c EXCEPT !.status = change] ELSE c
    BY <1>3 DEF WithStatus, Records
  <2>3. Unique(WithStatus(cmds, arg, change)) /\ Bounded(WithStatus(cmds, arg, change))
    BY <2>2 DEF Unique, Bounded
  <2> QED
    BY <2>1, <2>2, <2>3
<1> QED
  BY <1>1, <1>2, <1>3 DEF Fits

LEMMA ChangedGood ==
    ASSUME NEW o \in Good, NEW change, NEW arg, Fits(change, arg)
    PROVE  [o EXCEPT !.cmds = Changed(o.cmds, change, arg)] \in Good
<1>1. o.cmds \in SUBSET Records /\ Unique(o.cmds) /\ Bounded(o.cmds)
  BY DEF Good, Objects
<1> DEFINE new == Changed(o.cmds, change, arg)
<1>2. new \in SUBSET Records /\ Unique(new) /\ Bounded(new)
  BY <1>1, ChangedKeeps
<1> HIDE DEF new
<1>3. [o EXCEPT !.cmds = new] \in Good
  BY <1>2 DEF Good, Objects
<1> QED
  BY <1>3 DEF new

LEMMA FlagsGood ==
    ASSUME NEW o \in Good
    PROVE  [o EXCEPT !.pinned = TRUE] \in Good /\ [o EXCEPT !.running = FALSE] \in Good
BY DEF Good, Objects

LEMMA InterruptedGood ==
    ASSUME NEW o \in Good
    PROVE  [o EXCEPT !.cmds = {Interrupted(rec) : rec \in @}] \in Good
<1> DEFINE new == {Interrupted(rec) : rec \in o.cmds}
<1>1. o.cmds \in SUBSET Records /\ Unique(o.cmds) /\ Bounded(o.cmds)
  BY DEF Good, Objects
<1>2. \A rec \in o.cmds : Interrupted(rec) \in Records /\ Interrupted(rec).index = rec.index
  BY <1>1 DEF Interrupted, Records, Statuses
<1>3. new \in SUBSET Records /\ Unique(new) /\ Bounded(new)
  BY <1>1, <1>2 DEF Unique, Bounded
<1> HIDE DEF new
<1>4. [o EXCEPT !.cmds = new] \in Good
  BY <1>3 DEF Good, Objects
<1> QED
  BY <1>4 DEF new

-----------------------------------------------------------------------------
(* The invariant: types, with every copy of an object a good one. *)

StoreInv == obj \in [Vms -> Good] /\ disturbed \in SUBSET Vms
UpdateInv == op \in [Processes -> Updates] /\ held \in [Processes -> Good]
CallInv ==
    /\ DOMAIN call = Clients
    /\ \A c \in Clients :
          /\ call[c].kind \in {"none", "cancel", "status", "terminate"}
          /\ call[c].kind \in {"status", "terminate"} => call[c].vm \in Vms
    /\ keysLeft \in [Clients -> SUBSET Keys]
    /\ calls \in Nat

CommandInv == StoreInv /\ ProgressType /\ UpdateInv /\ CallInv /\ faults \in Nat

LEMMA InvImplies == CommandInv => TypeOK /\ IndicesUnique
<1> SUFFICES ASSUME CommandInv PROVE TypeOK /\ IndicesUnique
  OBVIOUS
<1>1. StoreType /\ IndicesUnique
  BY DEF CommandInv, StoreInv, StoreType, IndicesUnique, Good, Unique
<1>2. UpdateType
  <2>1. op \in [Processes -> Updates] /\ held \in [Processes -> Good]
    BY DEF CommandInv, UpdateInv
  <2>2. held \in [Processes -> Objects] /\ \A p \in Processes : op[p] \in Updates
    BY <2>1 DEF Good
  <2> QED
    BY <2>1, <2>2 DEF UpdateType, Updates, Good
<1>3. CallType
  BY DEF CommandInv, CallInv, CallType
<1> QED
  BY <1>1, <1>2, <1>3 DEF TypeOK, CommandInv

LEMMA GoroutineFacts ==
    ASSUME NEW g \in Goroutines
    PROVE  /\ g[1] \in Requests /\ g[2] \in Vms /\ g \in Processes
           /\ KeyOf(g) \in Keys
BY DEF Goroutines, Processes, KeyOf, Keys

LEMMA CommandInit == Init => CommandInv
<1> SUFFICES ASSUME Init PROVE CommandInv
  OBVIOUS
<1>1. StoreInv
  BY PastGood DEF Init, StoreInv
<1>2. UpdateInv
  BY FreshGood DEF Init, UpdateInv
<1>3. CallInv /\ faults \in Nat
  BY DEF Init, CallInv, NoCall
<1>4. ProgressType
  BY TargetAssumption DEF Init, ProgressType, RunPCs
<1> QED
  BY <1>1, <1>2, <1>3, <1>4 DEF CommandInv

LEMMA UpdateFacts ==
    ASSUME CommandInv, NEW p \in Processes, NEW v \in Vms, NEW change, NEW arg,
           Fits(change, arg), Update(p, v, change, arg)
    PROVE  op' \in [Processes -> Updates] /\ disturbed' \in SUBSET Vms /\ faults' \in Nat
<1>1. faults' \in Nat /\ disturbed' \in SUBSET Vms
  BY DEF Update, StoreCall, CommandInv, StoreInv
<1>2. CASE StartUpdate(p, v, change, arg)
  <2>1. change \in Changes /\ arg \in Args /\ obj[v] \in Good
    BY DEF Fits, Changes, Args, CommandInv, StoreInv
  <2>2. [vm |-> v, change |-> change, arg |-> arg, got |-> obj[v], tries |-> 1] \in Updates
    BY <2>1 DEF Updates
  <2> QED
    BY <1>1, <1>2, <2>2 DEF StartUpdate, CommandInv, UpdateInv
<1>3. CASE op' = op
  BY <1>1, <1>3 DEF CommandInv, UpdateInv
<1> QED
  BY <1>1, <1>2, <1>3 DEF Update

LEMMA PutFacts ==
    ASSUME StoreInv, NEW v \in Vms, NEW new \in Good, NEW base, NEW harmful,
           PutObject(v, new, base, harmful)
    PROVE  StoreInv'
BY DEF StoreInv, PutObject

\* The variables of requests and goroutines, and those of clients, by themselves.
LEMMA Unmoved ==
    ASSUME CommandInv
    PROVE  /\ UNCHANGED <<up, requestVars, runVars>> => ProgressType'
           /\ UNCHANGED clientVars => CallInv'
           /\ UNCHANGED <<op, held>> => UpdateInv'
           /\ UNCHANGED storeVars => StoreInv'
BY DEF CommandInv, ProgressType, requestVars, runVars, CallInv, clientVars, UpdateInv,
       storeVars, StoreInv

-----------------------------------------------------------------------------
(* Each kind of step keeps the invariant. *)

\* A retry of an update, with the object read again.
LEMMA RetryUpdates ==
    ASSUME NEW u \in Updates, NEW o \in Good
    PROVE  [u EXCEPT !.got = o, !.tries = @ + 1] \in Updates
<1>1. u \in [vm : Vms \cup {None}, change : Changes, arg : Args, got : Good, tries : Nat]
  BY DEF Updates
<1>2. u.tries + 1 \in Nat
  BY <1>1
<1> DEFINE new == [u EXCEPT !.got = o, !.tries = @ + 1]
<1>3. new \in [vm : Vms \cup {None}, change : Changes, arg : Args, got : Good, tries : Nat]
  BY <1>1, <1>2
<1>4. new.vm = u.vm /\ new.change = u.change /\ new.arg = u.arg
  BY <1>1
<1> HIDE DEF new
<1>5. new \in Updates
  BY <1>3, <1>4 DEF Updates
<1> QED
  BY <1>5 DEF new

LEMMA StoreStepKeeps ==
    ASSUME CommandInv, NEW p \in Processes, StoreStep(p)
    PROVE  CommandInv'
<1> DEFINE u == op[p]
<1>1. /\ u \in Updates /\ u.got \in Good /\ u.tries \in Nat
      /\ u.vm # None => u.vm \in Vms /\ Fits(u.change, u.arg)
      /\ op \in [Processes -> Updates] /\ held \in [Processes -> Good] /\ obj \in [Vms -> Good]
  BY DEF CommandInv, UpdateInv, Updates, StoreInv
<1>2. CASE WriteRecord(p)
  <2>1. u.vm \in Vms /\ Fits(u.change, u.arg)
    BY <1>1, <1>2 DEF WriteRecord
  <2>2. [u.got EXCEPT !.cmds = Changed(u.got.cmds, u.change, u.arg)] \in Good
    BY <1>1, <2>1, ChangedGood
  <2>3. StoreInv'
    BY <1>2, <2>1, <2>2, PutFacts DEF WriteRecord, CommandInv
  <2>4. UpdateInv'
    BY <1>1, <1>2, FreshGood DEF WriteRecord, UpdateInv
  <2>5. NextIndex(u.got.cmds) \in Nat
    BY <1>1, NextIsAbove DEF Good, Objects
  <2>6. ProgressType'
    BY <1>2, <2>5 DEF WriteRecord, requestVars, CommandInv, ProgressType
  <2>7. CallInv' /\ faults' \in Nat
    BY <1>2, Unmoved DEF WriteRecord, StoreCall, CommandInv
  <2> QED
    BY <2>3, <2>4, <2>6, <2>7 DEF CommandInv
<1>3. CASE WriteFails(p)
  <2>1. u.vm \in Vms /\ Fits(u.change, u.arg)
    BY <1>1, <1>3 DEF WriteFails
  <2>2. ProgressType'
    BY <1>3, Unmoved DEF WriteFails
  <2>3. faults' \in Nat
    BY <1>3 DEF WriteFails, StoreCall, CommandInv
  <2>4. StoreInv'
    BY <1>3, <2>1 DEF WriteFails, CommandInv, StoreInv
  <2>5. held' = held /\ keysLeft' = keysLeft /\ calls' = calls
    BY <1>3 DEF WriteFails
  <2>6. CASE GiveUp(p)
    <3>1. UpdateInv'
      BY <1>1, <2>5, <2>6, FreshGood DEF GiveUp, UpdateInv
    <3>2. \A c \in Clients : call'[c] \in {call[c], NoCall}
      BY <2>6 DEF GiveUp
    <3>3. DOMAIN call' = Clients
      BY <2>6 DEF GiveUp
    <3>4. CallInv'
      BY <2>5, <3>2, <3>3 DEF CommandInv, CallInv, NoCall
    <3> QED
      BY <2>2, <2>3, <2>4, <3>1, <3>4 DEF CommandInv
  <2>7. CASE op' = [op EXCEPT ![p].got = obj[u.vm], ![p].tries = @ + 1] /\ UNCHANGED call
    <3>1. obj[u.vm] \in Good
      BY <1>1, <2>1
    <3>2. [u EXCEPT !.got = obj[u.vm], !.tries = @ + 1] \in Updates
      BY <1>1, <3>1, RetryUpdates
    <3>3. op' = [op EXCEPT ![p] = [u EXCEPT !.got = obj[u.vm], !.tries = @ + 1]]
      BY <2>7
    <3>4. UpdateInv'
      BY <1>1, <2>5, <3>2, <3>3 DEF UpdateInv
    <3>5. CallInv'
      BY <2>5, <2>7, Unmoved DEF clientVars
    <3> QED
      BY <2>2, <2>3, <2>4, <3>4, <3>5 DEF CommandInv
  <2> QED
    BY <1>3, <2>6, <2>7 DEF WriteFails
<1> QED
  BY <1>2, <1>3 DEF StoreStep

LEMMA RequestKeeps ==
    ASSUME CommandInv, NEW r \in Requests,
           Request(r) \/ RejectCommand(r) \/ RequestStep(r) \/ Deadline(r)
    PROVE  CommandInv'
<1>1. r \in Processes
  BY DEF Processes
<1>2. ASSUME NEW v \in Vms, QueueCommand(r, v) PROVE CommandInv'
  <2>1. Fits("add", r)
    BY DEF Fits
  <2>2. op' \in [Processes -> Updates] /\ disturbed' \in SUBSET Vms /\ faults' \in Nat
    BY <1>1, <1>2, <2>1, UpdateFacts DEF QueueCommand
  <2>3. ProgressType'
    BY <1>2 DEF QueueCommand, CommandInv, ProgressType, runVars
  <2>4. StoreInv' /\ UpdateInv'
    BY <1>2, <2>2 DEF QueueCommand, CommandInv, StoreInv, UpdateInv
  <2> QED
    BY <1>2, <2>2, <2>3, <2>4, Unmoved DEF QueueCommand, CommandInv
<1>3. ASSUME UNCHANGED <<storeVars, op, held, clientVars, faults>>, ProgressType' PROVE CommandInv'
  BY <1>3, Unmoved DEF CommandInv
<1>4. CASE Request(r) \/ RejectCommand(r) \/ CommandsDone(r)
  <2>1. ProgressType'
    BY <1>4 DEF Request, RejectCommand, CommandsDone, CommandInv, ProgressType, runVars
  <2> QED
    BY <1>3, <1>4, <2>1 DEF Request, RejectCommand, CommandsDone
<1>5. CASE StartCommands(r)
  <2>1. ProgressType'
    BY <1>5 DEF StartCommands, CommandInv, ProgressType, RunPCs
  <2> QED
    BY <1>3, <1>5, <2>1 DEF StartCommands
<1>6. CASE Deadline(r)
  <2>1. ProgressType'
    BY <1>6 DEF Deadline, CommandInv, ProgressType, requestVars
  <2> QED
    BY <1>3, <1>6, <2>1 DEF Deadline
<1> QED
  BY <1>2, <1>4, <1>5, <1>6 DEF RequestStep

LEMMA ReportKeeps ==
    ASSUME CommandInv, NEW g \in Goroutines, NEW from, NEW to \in RunPCs, NEW status \in Statuses,
           Report(g, from, to, status)
    PROVE  CommandInv'
<1>1. g \in Processes /\ g[2] \in Vms /\ index[g] \in Nat
  BY GoroutineFacts DEF CommandInv, ProgressType
<1>2. Fits(status, index[g])
  BY <1>1 DEF Fits
<1>3. op' \in [Processes -> Updates] /\ disturbed' \in SUBSET Vms /\ faults' \in Nat
  <2>1. CASE index[g] > 0
    BY <1>1, <1>2, <2>1, UpdateFacts DEF Report
  <2>2. CASE ~(index[g] > 0)
    BY <2>2 DEF Report, CommandInv, UpdateInv, StoreInv
  <2> QED
    BY <2>1, <2>2
<1>4. ProgressType'
  BY DEF Report, GoTo, CommandInv, ProgressType, requestVars
<1> QED
  BY <1>3, <1>4, Unmoved DEF Report, CommandInv, StoreInv, UpdateInv

LEMMA MoveKeeps ==
    ASSUME CommandInv, NEW g \in Goroutines, NEW from, NEW to \in RunPCs, Move(g, from, to)
    PROVE  CommandInv'
<1>1. ProgressType'
  BY DEF Move, GoTo, CommandInv, ProgressType, requestVars
<1> QED
  BY <1>1, Unmoved DEF Move, CommandInv

LEMMA FailKeeps ==
    ASSUME CommandInv, NEW g \in Goroutines, NEW from, Fail(g, from)
    PROVE  CommandInv'
<1>1. "leave" \in RunPCs /\ {"Failed", "Timeout", "Cancelled"} \subseteq Statuses
  BY DEF RunPCs, Statuses
<1> QED
  BY <1>1, ReportKeeps, MoveKeeps DEF Fail

LEMMA RunKeeps ==
    ASSUME CommandInv, NEW g \in Goroutines, RunStep(g) \/ Handshake(g) \/ SessionEnds(g)
    PROVE  CommandInv'
<1>1. {"mark", "check", "connect", "handshake", "pin", "run", "leave", "done"} \subseteq RunPCs
      /\ {"Handling", "Completed", "Failed"} \subseteq Statuses
  BY DEF RunPCs, Statuses
<1>2. g \in Processes /\ g[2] \in Vms
  BY GoroutineFacts
<1>3. CASE Register(g) \/ Unregister(g)
  <2>1. ProgressType'
    BY <1>1, <1>3 DEF Register, Unregister, GoTo, CommandInv, ProgressType, requestVars
  <2> QED
    BY <1>3, <2>1, Unmoved DEF Register, Unregister, CommandInv
<1>4. CASE MarkHandling(g)
  BY <1>1, <1>4, ReportKeeps DEF MarkHandling
<1>5. CASE CheckVm(g)
  BY <1>1, <1>5, ReportKeeps, MoveKeeps DEF CheckVm
<1>6. CASE Connect(g)
  BY <1>1, <1>6, FailKeeps, MoveKeeps DEF Connect
<1>7. CASE Handshake(g)
  <2>1. CASE GoTo(g, "handshake", "pin") /\ held' = [held EXCEPT ![g] = obj[g[2]]]
             /\ UNCHANGED <<up, storeVars, requestVars, index, ctx, registry, op, clientVars, faults>>
    <3>1. ProgressType'
      BY <1>1, <2>1 DEF GoTo, CommandInv, ProgressType, requestVars
    <3>2. UpdateInv'
      BY <1>2, <2>1 DEF CommandInv, UpdateInv, StoreInv
    <3> QED
      BY <2>1, <3>1, <3>2, Unmoved DEF CommandInv
  <2> QED
    BY <1>1, <1>7, <2>1, FailKeeps, MoveKeeps DEF Handshake
<1>8. CASE PinHostKey(g)
  <2>1. held[g] \in Good /\ FreshVm \in Good
    BY <1>2, FreshGood DEF CommandInv, UpdateInv
  <2>2. StoreInv'
    BY <1>2, <1>8, <2>1, FlagsGood, PutFacts DEF PinHostKey, CommandInv
  <2>3. UpdateInv'
    BY <1>8, <2>1 DEF PinHostKey, CommandInv, UpdateInv
  <2>4. ProgressType'
    BY <1>1, <1>8 DEF PinHostKey, GoTo, CommandInv, ProgressType, requestVars
  <2> QED
    BY <1>8, <2>2, <2>3, <2>4, Unmoved DEF PinHostKey, CommandInv
<1>9. CASE SessionAborts(g)
  BY <1>9, FailKeeps DEF SessionAborts
<1>10. CASE SessionEnds(g)
  BY <1>1, <1>10, ReportKeeps, FailKeeps DEF SessionEnds
<1> QED
  BY <1>3, <1>4, <1>5, <1>6, <1>7, <1>8, <1>9, <1>10 DEF RunStep

LEMMA CancelAtType ==
    ASSUME ProgressType, NEW key, CancelAt(key)
    PROVE  /\ ctx' \in [Goroutines -> {"live", "cancelled", "deadline", "over"}]
           /\ registry' \in [Keys -> Goroutines \cup {None}]
BY DEF ProgressType, CancelAt

LEMMA CancelKeeps ==
    ASSUME CommandInv, NEW c \in Clients, NEW v \in Vms, CancelCommand(c, v)
    PROVE  CommandInv'
<1>1. PICK rec \in Listed(v) :
        /\ Update(c, v, "Cancelled", rec.index)
        /\ call' = IF op' = op THEN call
                   ELSE [call EXCEPT ![c] = [kind |-> "cancel", vm |-> v, key |-> RecordKey(rec, v)]]
  BY DEF CancelCommand
<1>2. c \in Processes /\ rec.index \in Nat
  BY DEF Processes, Listed, CommandInv, StoreInv, Good, Objects, Records
<1>3. Fits("Cancelled", rec.index)
  BY <1>2 DEF Fits, Statuses
<1>4. op' \in [Processes -> Updates] /\ disturbed' \in SUBSET Vms /\ faults' \in Nat
  BY <1>1, <1>2, <1>3, UpdateFacts
<1>5. CallInv'
  BY <1>1 DEF CancelCommand, Calls, CommandInv, CallInv
<1>6. StoreInv' /\ UpdateInv'
  BY <1>4 DEF CancelCommand, CommandInv, StoreInv, UpdateInv
<1> QED
  BY <1>4, <1>5, <1>6, Unmoved DEF CancelCommand, CommandInv

LEMMA DeleteKeeps ==
    ASSUME CommandInv, NEW c \in Clients, NEW v \in Vms,
           NEW indices \in SUBSET Indices(obj[v].cmds), DeleteRecords(c, v, indices)
    PROVE  CommandInv'
<1>1. c \in Processes /\ Indices(obj[v].cmds) \subseteq Nat
  BY DEF Processes, Indices, CommandInv, StoreInv, Good, Objects, Records
<1>2. Fits("drop", indices)
  BY <1>1 DEF Fits
<1>3. op' \in [Processes -> Updates] /\ disturbed' \in SUBSET Vms /\ faults' \in Nat
  BY <1>1, <1>2, UpdateFacts DEF DeleteRecords
<1>4. CallInv'
  BY DEF DeleteRecords, Calls, CommandInv, CallInv
<1>5. StoreInv' /\ UpdateInv'
  BY <1>3 DEF DeleteRecords, CommandInv, StoreInv, UpdateInv
<1> QED
  BY <1>3, <1>4, <1>5, Unmoved DEF DeleteRecords, CommandInv

LEMMA ClientKeeps ==
    ASSUME CommandInv, NEW c \in Clients, ClientStep(c)
    PROVE  CommandInv'
<1>1. /\ c \in Processes /\ FreshVm \in Good /\ held[c] \in Good
      /\ call[c].kind \in {"status", "terminate"} => call[c].vm \in Vms
  BY FreshGood DEF Processes, CommandInv, UpdateInv, CallInv
<1>2. ASSUME NEW v \in Vms, GetVmObject(c, v) \/ TerminateVm(c, v) PROVE CommandInv'
  <2>1. UpdateInv'
    BY <1>1, <1>2 DEF GetVmObject, TerminateVm, CommandInv, UpdateInv, StoreInv
  <2>2. CallInv'
    <3>1. {k \in Keys : registry[k] # None /\ k[2] = NameOf[v] /\ k[1] # Internal} \in SUBSET Keys
      OBVIOUS
    <3> QED
      BY <1>2, <3>1 DEF GetVmObject, TerminateVm, Calls, CommandInv, CallInv
  <2> QED
    BY <1>2, <2>1, <2>2, Unmoved DEF GetVmObject, TerminateVm, CommandInv
<1>3. CASE CancelContext(c)
  <2>1. ProgressType'
    BY <1>3, CancelAtType DEF CancelContext, CommandInv, ProgressType, requestVars
  <2>2. CallInv'
    BY <1>3 DEF CancelContext, CommandInv, CallInv, NoCall
  <2> QED
    BY <1>3, <2>1, <2>2, Unmoved DEF CancelContext, CommandInv
<1>4. CASE UpdateVmInfo(c) \/ VmTerminating(c)
  <2>1. StoreInv'
    BY <1>1, <1>4, FlagsGood, PutFacts DEF UpdateVmInfo, VmTerminating, CommandInv
  <2>2. op' = op /\ held' = [held EXCEPT ![c] = FreshVm]
    BY <1>4 DEF UpdateVmInfo, VmTerminating
  <2>3. UpdateInv'
    BY <1>1, <2>2 DEF CommandInv, UpdateInv
  <2>4. call' = [call EXCEPT ![c] = NoCall] /\ keysLeft' = keysLeft /\ calls' = calls
    BY <1>4 DEF UpdateVmInfo, VmTerminating
  <2>5. CallInv'
    BY <2>4 DEF CommandInv, CallInv, NoCall
  <2> QED
    BY <1>4, <2>1, <2>3, <2>5, Unmoved DEF UpdateVmInfo, VmTerminating, CommandInv
<1>5. ASSUME NEW k \in Keys, CancelActiveCommand(c, k) PROVE CommandInv'
  <2>1. registry[k] \in Goroutines \cup {None}
    BY DEF CommandInv, ProgressType
  <2>2. ProgressType'
    BY <1>5, CancelAtType DEF CancelActiveCommand, CommandInv, ProgressType, requestVars
  <2>3. op' \in [Processes -> Updates] /\ disturbed' \in SUBSET Vms /\ faults' \in Nat
    <3>1. CASE UNCHANGED <<op, faults, disturbed>>
      BY <3>1 DEF CommandInv, StoreInv, UpdateInv
    <3>2. CASE registry[k] # None /\ Update(c, registry[k][2], "Cancelled", index[registry[k]])
      <4>1. registry[k][2] \in Vms /\ index[registry[k]] \in Nat
        BY <2>1, <3>2, GoroutineFacts DEF CommandInv, ProgressType
      <4>2. Fits("Cancelled", index[registry[k]])
        BY <4>1 DEF Fits, Statuses
      <4> QED
        BY <1>1, <3>2, <4>1, <4>2, UpdateFacts
    <3> QED
      BY <1>5, <3>1, <3>2 DEF CancelActiveCommand
  <2>4. CallInv'
    BY <1>5 DEF CancelActiveCommand, CommandInv, CallInv
  <2>5. StoreInv' /\ UpdateInv'
    BY <1>5, <2>3 DEF CancelActiveCommand, CommandInv, StoreInv, UpdateInv
  <2> QED
    BY <2>2, <2>3, <2>4, <2>5 DEF CommandInv
<1> QED
  BY <1>2, <1>3, <1>4, <1>5, CancelKeeps, DeleteKeeps DEF ClientStep

LEMMA ServerKeeps ==
    ASSUME CommandInv, Crash \/ \E skipped \in SUBSET Vms : Restart(skipped)
    PROVE  CommandInv'
<1>1. CASE Crash
  <2>1. StoreInv' /\ faults' \in Nat
    BY <1>1, Unmoved DEF Crash, CommandInv
  <2>2. UpdateInv'
    BY <1>1, FreshGood DEF Crash, UpdateInv
  <2>3. CallInv'
    BY <1>1 DEF Crash, CommandInv, CallInv, NoCall
  <2>4. ProgressType'
    <3>1. pc' \in [Goroutines -> RunPCs] /\ up' \in BOOLEAN
      BY <1>1 DEF Crash, RunPCs
    <3>2. reqPc' \in [Requests -> {"idle", "queue", "wait", "returned", "rejected", "lost"}]
          /\ todo' \in [Requests -> SUBSET Vms]
      BY <1>1 DEF Crash, CommandInv, ProgressType
    <3>3. ctx' \in [Goroutines -> {"live", "cancelled", "deadline", "over"}]
          /\ registry' \in [Keys -> Goroutines \cup {None}]
          /\ index' \in [Goroutines -> Nat]
      BY <1>1 DEF Crash
    <3> QED
      BY <3>1, <3>2, <3>3 DEF ProgressType
  <2> QED
    BY <2>1, <2>2, <2>3, <2>4 DEF CommandInv
<1>2. ASSUME NEW skipped \in SUBSET Vms, Restart(skipped) PROVE CommandInv'
  <2>1. StoreInv'
    BY <1>2, InterruptedGood DEF Restart, CommandInv, StoreInv
  <2>2. ProgressType'
    BY <1>2 DEF Restart, CommandInv, ProgressType, requestVars, runVars
  <2> QED
    BY <1>2, <2>1, <2>2, Unmoved DEF Restart, CommandInv
<1> QED
  BY <1>1, <1>2

LEMMA CommandNext == CommandInv /\ [Next]_vars => CommandInv'
<1> SUFFICES ASSUME CommandInv, [Next]_vars PROVE CommandInv'
  OBVIOUS
<1>1. CASE UNCHANGED vars
  <2>1. UNCHANGED <<up, storeVars, requestVars, runVars, op, held, clientVars, faults>>
    BY <1>1 DEF vars
  <2> QED
    BY <2>1, Unmoved DEF CommandInv
<1> QED
  BY <1>1, StoreStepKeeps, RequestKeeps, RunKeeps, ClientKeeps, ServerKeeps DEF Next

LEMMA CommandCorrect == Spec => []CommandInv
BY CommandInit, CommandNext, PTL DEF Spec

\* Every variable keeps its type, and every copy of an object under way is one of a VM
\* (updateVmCommandStatusSafe, cancelFuncs).
THEOREM TypeCorrect == Spec => []TypeOK
BY CommandCorrect, InvImplies, PTL

\* Although updates read and put back the whole object without a lock, and put back
\* old ones, no two records of a VM have the same index (getNextCommandIndex).
THEOREM IndicesCorrect == Spec => []IndicesUnique
BY CommandCorrect, InvImplies, PTL

-----------------------------------------------------------------------------
(* The registry of cancel functions. *)

\* A command that runs and can still be cancelled.
Claims(g) == ~Ended(g) /\ ctx[g] = "live"
Sole(g)   == \A h \in Goroutines : KeyOf(h) = KeyOf(g) => h = g

LEMMA CancellableBy ==
    Cancellable <=> \A g \in Goroutines : Claims(g) /\ Sole(g) => registry[KeyOf(g)] = g
BY DEF Cancellable, Claims, Sole

LEMMA CancellableByNext ==
    Cancellable' <=> \A g \in Goroutines : Claims(g)' /\ Sole(g) => registry'[KeyOf(g)] = g
BY DEF Cancellable, Claims, Sole, KeyOf

\* Commands that end, or whose contexts do, take nothing away.
LEMMA NoNewClaims ==
    ASSUME Cancellable, UNCHANGED registry, \A g \in Goroutines : Claims(g)' => Claims(g)
    PROVE  Cancellable'
BY CancellableBy, CancellableByNext

LEMMA GoToClaims ==
    ASSUME ProgressType, NEW g \in Goroutines, NEW from, NEW to, GoTo(g, from, to),
           UNCHANGED ctx, from \notin {"none", "spawned", "done"}
    PROVE  \A h \in Goroutines : Claims(h)' => Claims(h)
BY DEF ProgressType, GoTo, Claims, Ended

LEMMA RunCancellable ==
    ASSUME CommandInv, Cancellable, NEW g \in Goroutines, RunStep(g) \/ Handshake(g) \/ SessionEnds(g)
    PROVE  Cancellable'
<1> ProgressType /\ KeyOf(g) \in Keys /\ RegistryKey(g) = KeyOf(g)
  BY GoroutineFacts DEF CommandInv, RegistryKey
<1>1. CASE Register(g)
  <2>1. /\ registry' = [registry EXCEPT ![KeyOf(g)] = g]
        /\ \A h \in Goroutines : h # g /\ Claims(h)' => Claims(h)
    BY <1>1 DEF Register, GoTo, Claims, Ended, ProgressType
  <2>2. ASSUME NEW h \in Goroutines, Claims(h)', Sole(h) PROVE registry'[KeyOf(h)] = h
    <3>1. CASE h = g
      BY <2>1, <3>1 DEF ProgressType
    <3>2. CASE h # g
      <4>1. KeyOf(h) # KeyOf(g) /\ registry[KeyOf(h)] = h
        BY <2>1, <2>2, <3>2, CancellableBy DEF Sole
      <4> QED
        BY <2>1, <4>1, GoroutineFacts DEF ProgressType
    <3> QED
      BY <3>1, <3>2
  <2> QED
    BY <2>2, CancellableByNext
<1>2. CASE Unregister(g)
  <2>1. /\ registry' = [registry EXCEPT ![KeyOf(g)] = None]
        /\ \A h \in Goroutines : Claims(h)' => h # g /\ Claims(h)
    BY <1>2 DEF Unregister, GoTo, Claims, Ended, ProgressType
  <2>2. ASSUME NEW h \in Goroutines, Claims(h)', Sole(h) PROVE registry'[KeyOf(h)] = h
    <3>1. KeyOf(h) # KeyOf(g) /\ registry[KeyOf(h)] = h
      BY <2>1, <2>2, CancellableBy DEF Sole
    <3> QED
      BY <2>1, <3>1, GoroutineFacts DEF ProgressType
  <2> QED
    BY <2>2, CancellableByNext
<1>3. ASSUME NEW from \in RunPCs \ {"none", "spawned", "done"}, NEW to, GoTo(g, from, to),
             UNCHANGED <<ctx, registry>>
      PROVE  Cancellable'
  BY <1>3, GoToClaims, NoNewClaims
<1>4. \A from, to, status : Report(g, from, to, status) => GoTo(g, from, to) /\ UNCHANGED <<ctx, registry>>
  BY DEF Report
<1>5. \A from, to : Move(g, from, to) => GoTo(g, from, to) /\ UNCHANGED <<ctx, registry>>
  BY DEF Move
<1>6. \A from : Fail(g, from) => GoTo(g, from, "leave") /\ UNCHANGED <<ctx, registry>>
  BY <1>4, <1>5 DEF Fail
<1>7. {"mark", "check", "connect", "handshake", "pin", "run"} \subseteq RunPCs \ {"none", "spawned", "done"}
  BY DEF RunPCs
<1>8. CASE MarkHandling(g) \/ CheckVm(g) \/ Connect(g)
  BY <1>3, <1>4, <1>5, <1>6, <1>7, <1>8 DEF MarkHandling, CheckVm, Connect
<1>9. CASE Handshake(g)
  BY <1>3, <1>5, <1>6, <1>7, <1>9 DEF Handshake
<1>10. CASE PinHostKey(g)
  BY <1>3, <1>7, <1>10 DEF PinHostKey
<1>11. CASE SessionAborts(g) \/ SessionEnds(g)
  BY <1>3, <1>4, <1>6, <1>7, <1>11 DEF SessionAborts, SessionEnds
<1> QED
  BY <1>1, <1>2, <1>8, <1>9, <1>10, <1>11 DEF RunStep

\* Whose cancel function is called has no claim any more.
LEMMA CancelAtKeeps ==
    ASSUME CommandInv, Cancellable, NEW key, CancelAt(key), UNCHANGED pc
    PROVE  Cancellable'
<1>1. ASSUME NEW g \in Goroutines, Claims(g)', Sole(g) PROVE registry'[KeyOf(g)] = g
  <2>1. ctx'[g] = "live" /\ ~Ended(g)
    BY <1>1 DEF Claims, Ended
  <2>2. ctx[g] = "live" /\ g # registry[key]
    BY <2>1 DEF CancelAt
  <2>3. registry[KeyOf(g)] = g
    BY <1>1, <2>1, <2>2, CancellableBy DEF Claims
  <2>4. KeyOf(g) # key
    BY <2>2, <2>3
  <2> QED
    BY <2>3, <2>4, GoroutineFacts DEF CancelAt, CommandInv, ProgressType
<1> QED
  BY <1>1, CancellableByNext

LEMMA CancellableNext == CommandInv /\ Cancellable /\ [Next]_vars => Cancellable'
<1> SUFFICES ASSUME CommandInv, Cancellable, [Next]_vars PROVE Cancellable'
  OBVIOUS
<1>1. ASSUME UNCHANGED <<pc, ctx, registry>> PROVE Cancellable'
  BY <1>1, NoNewClaims DEF Claims, Ended
<1>2. CASE UNCHANGED vars
  BY <1>1, <1>2 DEF vars, runVars
<1>3. ASSUME NEW r \in Requests, Request(r) \/ RejectCommand(r) \/ RequestStep(r) \/ Deadline(r)
      PROVE  Cancellable'
  <2>1. CASE Request(r) \/ RejectCommand(r) \/ CommandsDone(r) \/ \E v \in Vms : QueueCommand(r, v)
    BY <1>1, <2>1 DEF Request, RejectCommand, CommandsDone, QueueCommand, runVars
  <2>2. CASE StartCommands(r)
    BY <2>2, NoNewClaims DEF StartCommands, Claims, Ended
  <2>3. CASE Deadline(r)
    BY <2>3, NoNewClaims DEF Deadline, Claims, Ended
  <2> QED
    BY <1>3, <2>1, <2>2, <2>3 DEF RequestStep
<1>4. ASSUME NEW c \in Clients, ClientStep(c) PROVE Cancellable'
  <2>1. CASE CancelContext(c)
    <3>1. CASE UNCHANGED <<ctx, registry>>
      BY <1>1, <2>1, <3>1 DEF CancelContext
    <3>2. CASE CancelAt(call[c].key)
      BY <2>1, <3>2, CancelAtKeeps DEF CancelContext
    <3> QED
      BY <2>1, <3>1, <3>2 DEF CancelContext
  <2>2. ASSUME NEW k \in Keys, CancelActiveCommand(c, k) PROVE Cancellable'
    <3>1. CASE UNCHANGED <<ctx, registry>>
      BY <1>1, <2>2, <3>1 DEF CancelActiveCommand
    <3>2. CASE CancelAt(k)
      BY <2>2, <3>2, CancelAtKeeps DEF CancelActiveCommand
    <3> QED
      BY <2>2, <3>1, <3>2 DEF CancelActiveCommand
  <2>3. CASE UpdateVmInfo(c) \/ VmTerminating(c)
    BY <1>1, <2>3 DEF UpdateVmInfo, VmTerminating, runVars
  <2>4. ASSUME NEW v \in Vms, CancelCommand(c, v) \/ GetVmObject(c, v) \/ TerminateVm(c, v)
                 \/ \E indices \in SUBSET Indices(obj[v].cmds) : DeleteRecords(c, v, indices)
        PROVE  Cancellable'
    BY <1>1, <2>4 DEF CancelCommand, GetVmObject, TerminateVm, DeleteRecords, runVars
  <2> QED
    BY <1>4, <2>1, <2>2, <2>3, <2>4 DEF ClientStep
<1>5. ASSUME NEW p \in Processes, StoreStep(p) PROVE Cancellable'
  BY <1>1, <1>5 DEF StoreStep, WriteRecord, WriteFails, runVars
<1>6. CASE Crash
  <2>1. \A g \in Goroutines : Ended(g)'
    BY <1>6 DEF Crash, Ended
  <2> QED
    BY <2>1, CancellableByNext DEF Claims
<1>7. ASSUME NEW skipped \in SUBSET Vms, Restart(skipped) PROVE Cancellable'
  BY <1>1, <1>7 DEF Restart, runVars
<1> QED
  BY <1>2, <1>3, <1>4, <1>5, <1>6, <1>7, RunCancellable DEF Next

\* A command that runs under an id nobody else uses has its own cancel function in
\* cancelFuncs until its context is done, whatever is cancelled, terminated, deleted
\* or restarted meanwhile (registerCancelFunc, CancelActiveCommandsForVm).
THEOREM CancellableCorrect == Spec => []Cancellable
<1>1. Init => Cancellable
  BY DEF Init, Cancellable, Ended
<1> QED
  BY <1>1, CommandCorrect, CancellableNext, PTL DEF Spec

-----------------------------------------------------------------------------
(* How a command ended is in its record.  What is known of a VM that is not  *)
(* disturbed: the records of a command there are under the index of its      *)
(* goroutine as long as that runs, and they are terminal from the moment the *)
(* goroutine has reported the end.  Only the goroutine itself writes         *)
(* Handling (remoteCommand.go:357), and is past that when it reports an end  *)
(* (remoteCommand.go:365 to :446) and then leaves the registry (:324).       *)

RecordsOf(g) == {rec \in obj[g[2]].cmds : rec.req = g[1]}
Tracked(g) == pc[g] # "done" /\ reqPc[g[1]] # "rejected"
Over(g) == \/ pc[g] = "leave" /\ op[g].vm = None
           \/ pc[g] = "done" /\ up

Placed(g) ==
    /\ pc[g] = "none" <=> reqPc[g[1]] \in {"idle", "queue", "rejected"}
    /\ reqPc[g[1]] = "idle" => g[2] \in todo[g[1]]
    /\ reqPc[g[1]] \in {"idle", "queue"} /\ g[2] \in todo[g[1]] => index[g] = 0
Reporting(g) ==
    op[g].vm # None =>
        /\ op[g].vm = g[2] /\ op[g].arg = index[g] /\ index[g] # 0
        /\ op[g].change \in Statuses /\ pc[g] \in {"check", "leave"}
        /\ pc[g] = "leave" => op[g].change \in Terminal
Kept(g) ==
    g[2] \notin disturbed =>
        /\ Tracked(g) => \A rec \in RecordsOf(g) : rec.index = index[g]
        /\ Tracked(g) /\ index[g] # 0 => RecordsOf(g) # {}
        /\ Over(g) => \A rec \in RecordsOf(g) : rec.status \in Terminal
At(g) == Placed(g) /\ Reporting(g) /\ Kept(g)

Queueing(r) ==
    /\ todo[r] \subseteq TargetsOf[r]
    /\ op[r].vm # None => /\ op[r].change = "add" /\ op[r].arg = r /\ reqPc[r] = "queue"
                          /\ op[r].vm \in TargetsOf[r] \ todo[r]
                          /\ index[<<r, op[r].vm>>] = 0
Calling(c) == op[c].vm # None => op[c].change \in {"Cancelled", "drop"}
Known ==
    \A v \in Vms \ disturbed : \A rec \in obj[v].cmds :
        rec.req # None => <<rec.req, v>> \in Goroutines

EndInv ==
    /\ \A g \in Goroutines : At(g)
    /\ \A r \in Requests : Queueing(r)
    /\ \A c \in Clients : Calling(c)
    /\ Known

LEMMA Pairs ==
    /\ \A g, h \in Goroutines : g[1] = h[1] /\ g[2] = h[2] => g = h
    /\ \A r \in Requests, v \in Vms : v \in TargetsOf[r] => <<r, v>> \in Goroutines
    /\ \A g \in Goroutines : g[1] \in Requests /\ g[2] \in Vms /\ g[2] \in TargetsOf[g[1]]
                             /\ g = <<g[1], g[2]>>
BY DEF Goroutines

\* The index of a record is above 0.
LEMMA RecordType ==
    ASSUME CommandInv, NEW v \in Vms, NEW rec \in obj[v].cmds
    PROVE  rec.index \in Nat /\ rec.index # 0 /\ rec \in Records
BY DEF CommandInv, StoreInv, Good, Objects, Records

\* A step under which no undisturbed VM has its records changed.
Still == \A v \in Vms : v \notin disturbed' => v \notin disturbed /\ obj'[v].cmds = obj[v].cmds

LEMMA StillUpdate ==
    ASSUME NEW p, NEW v, NEW change, NEW arg, Update(p, v, change, arg), UNCHANGED obj
    PROVE  Still
BY DEF Update, Still

LEMMA StillPut ==
    ASSUME CommandInv, NEW v \in Vms, NEW new, NEW base, NEW harmful,
           new.cmds = base.cmds, PutObject(v, new, base, harmful)
    PROVE  Still
<1>1. obj \in [Vms -> Good]
  BY DEF CommandInv, StoreInv
<1>2. obj' = [obj EXCEPT ![v] = new] /\ disturbed \subseteq disturbed'
  BY DEF PutObject
<1>3. v \notin disturbed' => obj[v].cmds = base.cmds
  BY DEF PutObject
<1> QED
  BY <1>1, <1>2, <1>3 DEF Still

LEMMA KnownStill == ASSUME Known, Still PROVE Known'
BY DEF Known, Still

LEMMA KeptStill ==
    ASSUME NEW g \in Goroutines, Kept(g), Still, index'[g] = index[g],
           Tracked(g)' => Tracked(g), Over(g)' => Over(g)
    PROVE  Kept(g)'
<1>1. g[2] \in Vms
  BY Pairs
<1> SUFFICES ASSUME g[2] \notin disturbed'
             PROVE  /\ Tracked(g)' => \A rec \in RecordsOf(g)' : rec.index = index'[g]
                    /\ Tracked(g)' /\ index'[g] # 0 => RecordsOf(g)' # {}
                    /\ Over(g)' => \A rec \in RecordsOf(g)' : rec.status \in Terminal
  BY DEF Kept
<1>2. g[2] \notin disturbed /\ RecordsOf(g)' = RecordsOf(g)
  BY <1>1 DEF Still, RecordsOf
<1> QED
  BY <1>2 DEF Kept

\* What the step does not touch of a goroutine.
SameAt(g) == /\ up' = up /\ pc'[g] = pc[g] /\ op'[g] = op[g] /\ index'[g] = index[g]
             /\ reqPc'[g[1]] = reqPc[g[1]] /\ todo'[g[1]] = todo[g[1]]

LEMMA AtSame == ASSUME NEW g \in Goroutines, At(g), SameAt(g), Still PROVE At(g)'
<1>1. Kept(g)'
  BY KeptStill DEF At, SameAt, Tracked, Over
<1>2. Placed(g)' /\ Reporting(g)'
  BY DEF At, SameAt, Placed, Reporting
<1> QED
  BY <1>1, <1>2 DEF At

\* Requests and clients whose variables a step leaves alone; a record that goes
\* leaves no index behind.
LEMMA QueueingSame ==
    ASSUME NEW r \in Requests, Queueing(r), op'[r] = op[r], reqPc'[r] = reqPc[r],
           todo'[r] = todo[r], \A g \in Goroutines : index'[g] \in {index[g], 0}
    PROVE  Queueing(r)'
<1>1. ASSUME op[r].vm # None PROVE index'[<<r, op[r].vm>>] = 0
  <2>1. op[r].vm \in TargetsOf[r] /\ index[<<r, op[r].vm>>] = 0
    BY <1>1 DEF Queueing
  <2>2. <<r, op[r].vm>> \in Goroutines
    BY <2>1, TargetAssumption, Pairs
  <2> QED
    BY <2>1, <2>2
<1> QED
  BY <1>1 DEF Queueing

LEMMA EndFrom ==
    ASSUME EndInv, Still,
           \A g \in Goroutines : At(g)',
           \A r \in Requests : Queueing(r)',
           \A c \in Clients : Calling(c)'
    PROVE  EndInv'
BY KnownStill DEF EndInv

\* The goroutine's own steps.
LEMMA RunOthers ==
    ASSUME CommandInv, EndInv, NEW g \in Goroutines, Still, At(g)', UNCHANGED <<up, requestVars>>,
           \A p \in Processes \ {g} : op'[p] = op[p],
           \A h \in Goroutines \ {g} : pc'[h] = pc[h] /\ index'[h] = index[h],
           index'[g] \in {index[g], 0}
    PROVE  EndInv'
<1>1. /\ Requests \cup Clients \cup Goroutines = Processes
      /\ \A p \in Requests \cup Clients : p # g
  BY ProcessAssumption DEF Processes
<1>2. ASSUME NEW h \in Goroutines, h # g PROVE At(h)'
  <2>1. SameAt(h)
    BY <1>1, <1>2 DEF SameAt, requestVars
  <2> QED
    BY <2>1, AtSame DEF EndInv
<1>3. ASSUME NEW r \in Requests PROVE Queueing(r)'
  <2>1. op'[r] = op[r] /\ reqPc'[r] = reqPc[r] /\ todo'[r] = todo[r]
    BY <1>1 DEF requestVars
  <2> QED
    BY <2>1, QueueingSame DEF EndInv
<1>4. ASSUME NEW c \in Clients PROVE Calling(c)'
  <2>1. op'[c] = op[c]
    BY <1>1
  <2> QED
    BY <2>1 DEF EndInv, Calling
<1> QED
  BY <1>2, <1>3, <1>4, EndFrom

LEMMA QuietVm == ASSUME NEW p, Quiet(p) PROVE op[p].vm = None
BY DEF Quiet, Idle

\* Where a goroutine that runs may go: it stays tracked and its request is not
\* one that has not started it.
LEMMA Started ==
    ASSUME CommandInv, NEW g \in Goroutines, At(g), NEW from, NEW to, GoTo(g, from, to),
           from \notin {"none", "done", "leave"}, to \notin {"none", "done"},
           UNCHANGED requestVars
    PROVE  /\ pc'[g] = to /\ pc[g] = from /\ op[g].vm = None
           /\ Placed(g)' /\ Tracked(g) /\ Tracked(g)' /\ ~Over(g)
           /\ \A h \in Goroutines \ {g} : pc'[h] = pc[h]
<1>1. pc \in [Goroutines -> RunPCs]
  BY DEF CommandInv, ProgressType
<1>2. /\ pc'[g] = to /\ pc[g] = from /\ op[g].vm = None
      /\ \A h \in Goroutines \ {g} : pc'[h] = pc[h]
  BY <1>1, QuietVm DEF GoTo
<1>3. reqPc[g[1]] \notin {"idle", "queue", "rejected"} /\ reqPc'[g[1]] = reqPc[g[1]]
  BY <1>2 DEF At, Placed, requestVars
<1> QED
  BY <1>2, <1>3 DEF Placed, Tracked, Over

LEMMA MoveEnds ==
    ASSUME CommandInv, EndInv, NEW g \in Goroutines, NEW from, NEW to, GoTo(g, from, to),
           from \notin {"none", "done", "leave"}, to \notin {"none", "done"},
           UNCHANGED <<up, requestVars, index, op>>, Still,
           \/ to # "leave"
           \/ index[g] = 0
           \/ obj' = obj /\ StatusOf(g) \subseteq Terminal
    PROVE  EndInv'
<1>1. /\ pc'[g] = to /\ op[g].vm = None /\ Placed(g)' /\ Tracked(g) /\ Tracked(g)' /\ ~Over(g)
      /\ \A h \in Goroutines \ {g} : pc'[h] = pc[h]
  BY Started DEF EndInv
<1>2. Reporting(g)' /\ Kept(g) /\ g[2] \in Vms
  BY <1>1, Pairs DEF EndInv, At, Reporting
<1>3. CASE to # "leave"
  <2>1. ~Over(g)'
    BY <1>1, <1>3 DEF Over
  <2>2. Kept(g)'
    BY <1>1, <1>2, <2>1, KeptStill
  <2> QED
    BY <1>1, <1>2, <2>2, RunOthers DEF At
<1>4. CASE index[g] = 0 \/ (obj' = obj /\ StatusOf(g) \subseteq Terminal)
  <2>1. ASSUME g[2] \notin disturbed', NEW rec \in RecordsOf(g)'
        PROVE  rec \in RecordsOf(g) /\ rec.status \in Terminal
    <3>1. rec \in RecordsOf(g) /\ rec \in obj[g[2]].cmds /\ g[2] \notin disturbed
      BY <1>2, <2>1 DEF Still, RecordsOf
    <3>2. rec.index = index[g] /\ rec.index # 0
      BY <1>1, <1>2, <3>1, RecordType DEF Kept
    <3>3. rec.status \in StatusOf(g)
      BY <3>1, <3>2 DEF StatusOf
    <3> QED
      BY <1>4, <3>1, <3>2, <3>3
  <2>2. g[2] \notin disturbed' => g[2] \notin disturbed /\ RecordsOf(g)' = RecordsOf(g)
    BY <1>2 DEF Still, RecordsOf
  <2>3. Kept(g)'
    BY <1>1, <1>2, <2>1, <2>2 DEF Kept
  <2> QED
    BY <1>1, <1>2, <2>3, RunOthers DEF At
<1> QED
  BY <1>3, <1>4

\* A report begins the update of the record, finds that there is none to make, or is
\* given up for good.
LEMMA ReportEnds ==
    ASSUME CommandInv, EndInv, NEW g \in Goroutines, NEW from, NEW to, NEW status \in Statuses,
           Report(g, from, to, status), from \notin {"none", "done", "leave"},
           to \in {"check", "leave"}, to = "leave" => status \in Terminal
    PROVE  EndInv'
<1>1. GoTo(g, from, to) /\ UNCHANGED <<up, obj, requestVars, index>>
  BY DEF Report
<1>2. /\ pc'[g] = to /\ pc[g] = from /\ op[g].vm = None /\ Placed(g)' /\ Tracked(g) /\ Tracked(g)'
      /\ \A h \in Goroutines \ {g} : pc'[h] = pc[h]
  BY <1>1, Started DEF EndInv
<1>3. g[2] \in Vms /\ index[g] \in Nat /\ g \in Processes
  BY Pairs DEF CommandInv, ProgressType, Processes
<1>4. CASE index[g] = 0
  <2>1. UNCHANGED <<op, disturbed>>
    BY <1>4 DEF Report
  <2> QED
    BY <1>1, <1>4, <2>1, MoveEnds DEF Still
<1>5. CASE index[g] # 0
  <2>1. Update(g, g[2], status, index[g])
    BY <1>3, <1>5 DEF Report
  <2>2. Still
    BY <1>1, <2>1, StillUpdate
  <2>3. \A p \in Processes \ {g} : op'[p] = op[p]
    BY <2>1 DEF Update, StartUpdate, CommandInv, UpdateInv
  <2>4. CASE StartUpdate(g, g[2], status, index[g]) /\ UNCHANGED disturbed
    <3>1. op'[g].vm = g[2] /\ op'[g].change = status /\ op'[g].arg = index[g] /\ g[2] # None
      BY <1>3, <2>4, NoneAssumption DEF StartUpdate, CommandInv, UpdateInv
    <3>2. Reporting(g)'
      BY <1>1, <1>2, <1>5, <3>1 DEF Reporting
    <3>3. ~Over(g)'
      BY <1>2, <3>1 DEF Over
    <3>4. Kept(g)'
      BY <1>1, <1>2, <2>2, <3>3, KeptStill DEF EndInv, At
    <3> QED
      BY <1>1, <1>2, <2>2, <2>3, <3>2, <3>4, RunOthers DEF At
  <2>5. CASE UNCHANGED op /\ g[2] \in disturbed'
    <3>1. Reporting(g)' /\ Kept(g)'
      BY <1>2, <2>5 DEF Reporting, Kept
    <3> QED
      BY <1>1, <1>2, <2>2, <2>3, <3>1, RunOthers DEF At
  <2>6. ASSUME ~Applies(obj[g[2]].cmds, status, index[g]) PROVE g[2] \in disturbed
    <3>1. ~Found(obj[g[2]].cmds, index[g])
      BY <2>6 DEF Applies
    <3>2. \A rec \in RecordsOf(g) : rec.index # index[g]
      BY <3>1 DEF Found, Indices, RecordsOf
    <3> QED
      BY <1>2, <1>5, <3>2 DEF EndInv, At, Kept
  <2> QED
    BY <1>3, <2>1, <2>4, <2>5, <2>6 DEF Update
<1> QED
  BY <1>4, <1>5

LEMMA FailEnds ==
    ASSUME CommandInv, EndInv, NEW g \in Goroutines, NEW from, Fail(g, from),
           from \in {"connect", "handshake", "run"}
    PROVE  EndInv'
<1>1. {"Failed", "Timeout", "Cancelled"} \subseteq Terminal /\ Terminal \subseteq Statuses
  BY DEF Terminal, Statuses
<1>2. CASE ~ToConfirm(g) /\ Move(g, from, "leave")
  <2>1. StatusOf(g) \subseteq Terminal
    BY <1>1, <1>2 DEF ToConfirm
  <2>2. GoTo(g, from, "leave") /\ UNCHANGED <<up, requestVars, index, op, obj, disturbed>>
    BY <1>2 DEF Move, storeVars
  <2> QED
    BY <2>1, <2>2, MoveEnds DEF Still
<1>3. ASSUME NEW status \in {"Failed", "Timeout", "Cancelled"}, Report(g, from, "leave", status)
      PROVE  EndInv'
  BY <1>1, <1>3, ReportEnds
<1> QED
  BY <1>2, <1>3 DEF Fail

LEMMA RunEnds ==
    ASSUME CommandInv, EndInv, NEW g \in Goroutines, RunStep(g) \/ Handshake(g) \/ SessionEnds(g)
    PROVE  EndInv'
<1>1. ASSUME NEW from \in {"check", "connect", "handshake"}, NEW to \in {"connect", "handshake", "run"},
             Move(g, from, to)
      PROVE  EndInv'
  <2>1. GoTo(g, from, to) /\ UNCHANGED <<up, requestVars, index, op, obj, disturbed>>
    BY <1>1 DEF Move, storeVars
  <2> QED
    BY <2>1, MoveEnds DEF Still
<1>2. {"Handling", "Failed", "Completed"} \subseteq Statuses /\ {"Failed", "Completed"} \subseteq Terminal
  BY DEF Statuses, Terminal
<1>3. CASE Register(g)
  <2>1. GoTo(g, "spawned", "mark") /\ UNCHANGED <<up, requestVars, index, op, obj, disturbed>>
    BY <1>3 DEF Register, storeVars
  <2> QED
    BY <2>1, MoveEnds DEF Still
<1>4. CASE MarkHandling(g)
  BY <1>2, <1>4, ReportEnds DEF MarkHandling
<1>5. CASE CheckVm(g)
  BY <1>1, <1>2, <1>5, ReportEnds DEF CheckVm
<1>6. CASE Connect(g)
  BY <1>1, <1>6, FailEnds DEF Connect
<1>7. CASE Handshake(g)
  <2>1. CASE GoTo(g, "handshake", "pin") /\ UNCHANGED <<up, storeVars, requestVars, index, op>>
    BY <2>1, MoveEnds DEF Still, storeVars
  <2> QED
    BY <1>1, <1>7, <2>1, FailEnds DEF Handshake
<1>8. CASE PinHostKey(g)
  <2>1. GoTo(g, "pin", "run") /\ UNCHANGED <<up, requestVars, index, op>>
    BY <1>8 DEF PinHostKey
  <2>2. held[g] \in Objects /\ g[2] \in Vms
    BY Pairs DEF CommandInv, UpdateInv, Good, Processes
  <2>3. [held[g] EXCEPT !.pinned = TRUE].cmds = held[g].cmds
    BY <2>2 DEF Objects
  <2>4. Still
    BY <1>8, <2>2, <2>3, StillPut DEF PinHostKey
  <2> QED
    BY <2>1, <2>4, MoveEnds
<1>9. CASE SessionAborts(g)
  BY <1>9, FailEnds DEF SessionAborts
<1>10. CASE SessionEnds(g)
  BY <1>2, <1>10, ReportEnds, FailEnds DEF SessionEnds
<1>11. CASE Unregister(g)
  <2>1. /\ pc[g] = "leave" /\ pc'[g] = "done" /\ op[g].vm = None /\ index'[g] = 0
        /\ UNCHANGED <<up, requestVars, op, obj, disturbed>>
        /\ \A h \in Goroutines \ {g} : pc'[h] = pc[h] /\ index'[h] = index[h]
    BY <1>11, QuietVm DEF Unregister, GoTo, storeVars, CommandInv, ProgressType
  <2>2. Still /\ Over(g) /\ ~Tracked(g)' /\ Kept(g) /\ Placed(g)
    BY <2>1 DEF Still, Over, Tracked, EndInv, At
  <2>3. Kept(g)'
    BY <2>1, <2>2 DEF Kept, RecordsOf
  <2>4. Placed(g)' /\ Reporting(g)'
    BY <2>1, <2>2 DEF Placed, Reporting, requestVars
  <2> QED
    BY <2>1, <2>2, <2>3, <2>4, RunOthers DEF At
<1> QED
  BY <1>3, <1>4, <1>5, <1>6, <1>7, <1>8, <1>9, <1>10, <1>11 DEF RunStep

\* Requests.
LEMMA RequestEnds ==
    ASSUME CommandInv, EndInv, NEW r \in Requests,
           Request(r) \/ RejectCommand(r) \/ RequestStep(r) \/ Deadline(r)
    PROVE  EndInv'
<1>1. /\ \A g \in Goroutines : At(g) /\ Placed(g) /\ Reporting(g) /\ Kept(g) /\ g # r
      /\ \A q \in Requests : Queueing(q)
      /\ \A c \in Clients : Calling(c) /\ c # r
      /\ Requests \cup Clients \cup Goroutines = Processes
      /\ reqPc \in [Requests -> {"idle", "queue", "wait", "returned", "rejected", "lost"}]
      /\ pc \in [Goroutines -> RunPCs] /\ todo \in [Requests -> SUBSET Vms]
  BY ProcessAssumption DEF EndInv, At, CommandInv, ProgressType, Processes
\* A goroutine whose request moves on without it.
<1>2. ASSUME NEW g \in Goroutines, Still, Placed(g)', UNCHANGED <<up, index>>, op'[g] = op[g],
             pc'[g] = pc[g], Tracked(g)' => Tracked(g)
      PROVE  At(g)'
  <2>1. Reporting(g)' /\ (Over(g)' => Over(g))
    BY <1>1, <1>2 DEF Reporting, Over
  <2> QED
    BY <1>1, <1>2, <2>1, KeptStill DEF At
<1>3. ASSUME UNCHANGED <<op, index>>, Still, \A g \in Goroutines : At(g)', Queueing(r)',
             \A q \in Requests \ {r} : reqPc'[q] = reqPc[q] /\ todo'[q] = todo[q]
      PROVE  EndInv'
  <2>1. \A q \in Requests : Queueing(q)'
    BY <1>1, <1>3, QueueingSame
  <2>2. \A c \in Clients : Calling(c)'
    BY <1>1, <1>3 DEF Calling
  <2> QED
    BY <1>3, <2>1, <2>2, EndFrom
<1>4. CASE Request(r)
  <2>1. /\ reqPc[r] = "idle" /\ reqPc' = [reqPc EXCEPT ![r] = "queue"]
        /\ UNCHANGED <<up, obj, disturbed, todo, index, pc, op>>
    BY <1>4 DEF Request, storeVars, runVars
  <2>2. Still
    BY <2>1 DEF Still
  <2>3. ASSUME NEW g \in Goroutines PROVE At(g)'
    <3>1. Placed(g)' /\ (Tracked(g)' => Tracked(g))
      BY <1>1, <2>1, Pairs DEF Placed, Tracked
    <3> QED
      BY <1>2, <2>1, <2>2, <3>1
  <2>4. Queueing(r)'
    BY <1>1, <2>1 DEF Queueing
  <2> QED
    BY <1>1, <1>3, <2>1, <2>2, <2>3, <2>4
<1>5. CASE RejectCommand(r)
  <2>1. /\ reqPc[r] = "queue" /\ reqPc' = [reqPc EXCEPT ![r] = "rejected"] /\ op[r].vm = None
        /\ todo' = [todo EXCEPT ![r] = {}]
        /\ UNCHANGED <<up, obj, disturbed, index, pc, op>>
    BY <1>5, QuietVm DEF RejectCommand, storeVars, runVars
  <2>2. Still
    BY <2>1 DEF Still
  <2>3. ASSUME NEW g \in Goroutines PROVE At(g)'
    <3>1. Placed(g)' /\ (Tracked(g)' => Tracked(g))
      BY <1>1, <2>1, Pairs DEF Placed, Tracked
    <3> QED
      BY <1>2, <2>1, <2>2, <3>1
  <2>4. Queueing(r)'
    BY <1>1, <2>1 DEF Queueing
  <2> QED
    BY <1>1, <1>3, <2>1, <2>2, <2>3, <2>4
<1>6. CASE CommandsDone(r)
  <2>1. /\ reqPc[r] = "wait" /\ reqPc' = [reqPc EXCEPT ![r] = "returned"]
        /\ UNCHANGED <<up, obj, disturbed, todo, index, pc, op>>
    BY <1>6 DEF CommandsDone, storeVars, runVars
  <2>2. Still
    BY <2>1 DEF Still
  <2>3. ASSUME NEW g \in Goroutines PROVE At(g)'
    <3>1. Placed(g)' /\ (Tracked(g)' => Tracked(g))
      BY <1>1, <2>1, Pairs DEF Placed, Tracked
    <3> QED
      BY <1>2, <2>1, <2>2, <3>1
  <2>4. Queueing(r)'
    BY <1>1, <2>1 DEF Queueing
  <2> QED
    BY <1>1, <1>3, <2>1, <2>2, <2>3, <2>4
<1>7. CASE StartCommands(r)
  <2>1. /\ reqPc[r] = "queue" /\ reqPc' = [reqPc EXCEPT ![r] = "wait"] /\ op[r].vm = None
        /\ pc' = [g \in Goroutines |-> IF g[1] = r THEN "spawned" ELSE pc[g]]
        /\ UNCHANGED <<up, obj, disturbed, todo, index, op>>
    BY <1>7, QuietVm DEF StartCommands, storeVars
  <2>2. Still
    BY <2>1 DEF Still
  <2>3. ASSUME NEW g \in Goroutines PROVE At(g)'
    <3>1. CASE g[1] # r
      BY <1>1, <2>1, <2>2, <3>1, Pairs, AtSame DEF SameAt
    <3>2. CASE g[1] = r
      <4>1. pc[g] = "none" /\ pc'[g] = "spawned" /\ reqPc'[g[1]] = "wait" /\ op[g].vm = None
        BY <1>1, <2>1, <3>2, Pairs DEF Placed, Reporting
      <4>2. Placed(g)' /\ Reporting(g)' /\ ~Over(g)' /\ Tracked(g)
        BY <2>1, <3>2, <4>1 DEF Placed, Reporting, Over, Tracked
      <4> QED
        BY <1>1, <2>1, <2>2, <4>2, KeptStill DEF At
    <3> QED
      BY <3>1, <3>2
  <2>4. Queueing(r)'
    BY <1>1, <2>1 DEF Queueing
  <2> QED
    BY <1>1, <1>3, <2>1, <2>2, <2>3, <2>4
<1>8. CASE Deadline(r)
  <2>1. UNCHANGED <<up, obj, disturbed, reqPc, todo, index, pc, op>>
    BY <1>8 DEF Deadline, storeVars, requestVars
  <2>2. Still
    BY <2>1 DEF Still
  <2>3. \A g \in Goroutines : At(g)'
    BY <1>1, <2>1, <2>2, AtSame DEF SameAt
  <2>4. Queueing(r)'
    BY <1>1, <2>1 DEF Queueing
  <2> QED
    BY <1>3, <2>1, <2>2, <2>3, <2>4
<1>9. ASSUME NEW v \in Vms, QueueCommand(r, v) PROVE EndInv'
  <2>1. /\ reqPc[r] = "queue" /\ op[r].vm = None /\ v \in todo[r]
        /\ todo' = [todo EXCEPT ![r] = @ \ {v}] /\ Update(r, v, "add", r)
        /\ UNCHANGED <<up, obj, reqPc, index, pc>>
    BY <1>9, QuietVm DEF QueueCommand, runVars
  <2>2. Still
    BY <2>1, StillUpdate
  <2>3. \A p \in Processes \ {r} : op'[p] = op[p]
    BY <2>1 DEF Update, StartUpdate, CommandInv, UpdateInv
  <2>4. ASSUME NEW g \in Goroutines PROVE At(g)'
    <3>1. Placed(g)' /\ (Tracked(g)' => Tracked(g))
      BY <1>1, <2>1, Pairs DEF Placed, Tracked
    <3> QED
      BY <1>1, <1>2, <2>1, <2>2, <2>3, <3>1
  <2>5. Queueing(r)'
    <3>1. v \in TargetsOf[r] /\ <<r, v>> \in Goroutines
      BY <1>1, <2>1, Pairs DEF Queueing
    <3>2. index[<<r, v>>] = 0
      BY <1>1, <2>1, <3>1 DEF Placed
    <3>3. todo'[r] = todo[r] \ {v} /\ todo'[r] \subseteq TargetsOf[r]
      BY <1>1, <2>1 DEF Queueing
    <3>4. CASE UNCHANGED op
      BY <2>1, <3>3, <3>4 DEF Queueing
    <3>5. CASE StartUpdate(r, v, "add", r)
      <4>1. op'[r].vm = v /\ op'[r].change = "add" /\ op'[r].arg = r
        BY <1>1, <3>5 DEF StartUpdate, CommandInv, UpdateInv
      <4> QED
        BY <2>1, <3>1, <3>2, <3>3, <4>1 DEF Queueing
    <3> QED
      BY <2>1, <3>4, <3>5 DEF Update
  <2>6. ASSUME NEW q \in Requests PROVE Queueing(q)'
    <3>1. CASE q # r
      <4>1. op'[q] = op[q] /\ reqPc'[q] = reqPc[q] /\ todo'[q] = todo[q] /\ index' = index
        BY <1>1, <2>1, <2>3, <3>1
      <4> QED
        BY <1>1, <4>1, QueueingSame
    <3> QED
      BY <2>5, <3>1
  <2>7. \A c \in Clients : Calling(c)'
    BY <1>1, <2>3 DEF Calling
  <2> QED
    BY <2>2, <2>4, <2>6, <2>7, EndFrom
<1> QED
  BY <1>4, <1>5, <1>6, <1>7, <1>8, <1>9 DEF RequestStep

\* Clients: they begin updates of their own, and put objects back.
LEMMA ClientEnds ==
    ASSUME CommandInv, EndInv, NEW c \in Clients, ClientStep(c)
    PROVE  EndInv'
<1>1. /\ c \in Processes /\ c \notin Requests \cup Goroutines
      /\ Requests \cup Clients \cup Goroutines = Processes
      /\ op \in [Processes -> Updates] /\ held[c] \in Objects
  BY ProcessAssumption DEF Processes, CommandInv, UpdateInv, Good
<1>2. ASSUME UNCHANGED <<up, reqPc, todo, index, pc>>, Still,
             \A p \in Processes \ {c} : op'[p] = op[p],
             op'[c] = op[c] \/ op'[c].change \in {"Cancelled", "drop"}
      PROVE  EndInv'
  <2>1. \A g \in Goroutines : At(g)'
    BY <1>1, <1>2, AtSame DEF SameAt, EndInv
  <2>2. \A r \in Requests : Queueing(r)'
    BY <1>1, <1>2, QueueingSame DEF EndInv
  <2>3. \A d \in Clients : Calling(d)'
    BY <1>1, <1>2 DEF Calling, EndInv
  <2> QED
    BY <1>2, <2>1, <2>2, <2>3, EndFrom
<1>3. ASSUME NEW v, NEW change \in {"Cancelled", "drop"}, NEW arg, Update(c, v, change, arg),
             UNCHANGED <<obj, up, reqPc, todo, index, pc>>
      PROVE  EndInv'
  <2>1. /\ \A p \in Processes \ {c} : op'[p] = op[p]
        /\ op'[c] = op[c] \/ op'[c].change = change
    <3>1. CASE UNCHANGED op
      BY <3>1
    <3>2. CASE StartUpdate(c, v, change, arg)
      BY <1>1, <3>2, Zenon DEF StartUpdate
    <3> QED
      BY <1>3, <3>1, <3>2 DEF Update
  <2> QED
    BY <1>2, <1>3, <2>1, StillUpdate
<1>4. ASSUME UNCHANGED <<obj, disturbed, up, reqPc, todo, index, pc, op>> PROVE EndInv'
  <2>1. Still
    BY <1>4 DEF Still
  <2> QED
    BY <1>2, <1>4, <2>1
<1>5. ASSUME NEW v \in Vms, CancelCommand(c, v) PROVE EndInv'
  BY <1>3, <1>5 DEF CancelCommand, requestVars, runVars
<1>6. ASSUME NEW v \in Vms, NEW indices \in SUBSET Indices(obj[v].cmds), DeleteRecords(c, v, indices)
      PROVE  EndInv'
  BY <1>3, <1>6 DEF DeleteRecords, requestVars, runVars
<1>7. ASSUME NEW v \in Vms, GetVmObject(c, v) \/ TerminateVm(c, v) PROVE EndInv'
  BY <1>4, <1>7 DEF GetVmObject, TerminateVm, storeVars, requestVars, runVars
<1>8. CASE CancelContext(c)
  BY <1>4, <1>8 DEF CancelContext, storeVars, requestVars
<1>9. ASSUME NEW k \in Keys, CancelActiveCommand(c, k) PROVE EndInv'
  BY <1>3, <1>4, <1>9 DEF CancelActiveCommand, requestVars
<1>10. CASE UpdateVmInfo(c) \/ VmTerminating(c)
  <2>1. [held[c] EXCEPT !.running = FALSE].cmds = held[c].cmds
    BY <1>1 DEF Objects
  <2>2. call[c].vm \in Vms
    BY <1>10 DEF UpdateVmInfo, VmTerminating, CommandInv, CallInv
  <2>3. Still
    BY <1>10, <2>1, <2>2, StillPut DEF UpdateVmInfo, VmTerminating
  <2>4. UNCHANGED <<up, reqPc, todo, index, pc, op>>
    BY <1>10 DEF UpdateVmInfo, VmTerminating, requestVars, runVars
  <2> QED
    BY <1>2, <2>3, <2>4
<1> QED
  BY <1>5, <1>6, <1>7, <1>8, <1>9, <1>10 DEF ClientStep

-----------------------------------------------------------------------------
(* The write of an update: on an undisturbed VM it changes the records that  *)
(* are there.                                                                *)

\* What a write of p may do: the records of another VM stay, and those of its
\* own VM are changed as asked unless the VM is disturbed.
LEMMA WriteFacts ==
    ASSUME CommandInv, NEW p \in Processes, WriteRecord(p)
    PROVE  /\ op[p].vm \in Vms /\ op'[p].vm = None /\ UNCHANGED <<up, requestVars, pc>>
           /\ \A q \in Processes \ {p} : op'[q] = op[q]
           /\ \A v \in Vms \ {op[p].vm} : obj'[v] = obj[v]
           /\ disturbed \subseteq disturbed'
           /\ op[p].vm \notin disturbed' =>
                /\ op[p].vm \notin disturbed /\ op[p].got.cmds = obj[op[p].vm].cmds
                /\ ~DropsLive(op[p])
                /\ obj'[op[p].vm].cmds = Changed(obj[op[p].vm].cmds, op[p].change, op[p].arg)
<1>1. /\ op \in [Processes -> Updates] /\ obj \in [Vms -> Good] /\ op[p] \in Updates
      /\ op[p].got \in Good /\ op[p].vm \in Vms
  <2>1. op \in [Processes -> Updates] /\ obj \in [Vms -> Good] /\ op[p] \in Updates
    BY DEF CommandInv, UpdateInv, StoreInv
  <2> QED
    BY <2>1 DEF WriteRecord, Updates
<1> DEFINE v == op[p].vm
           cmds == Changed(op[p].got.cmds, op[p].change, op[p].arg)
           new == [op[p].got EXCEPT !.cmds = cmds]
<1>2. /\ PutObject(v, new, op[p].got, DropsLive(op[p])) /\ op' = [op EXCEPT ![p] = Idle]
      /\ UNCHANGED <<up, requestVars, pc>>
  BY DEF WriteRecord
<1>3. new.cmds = cmds
  <2>1. op[p].got \in [cmds : SUBSET Records, pinned : BOOLEAN, running : BOOLEAN]
    BY <1>1 DEF Good, Objects
  <2> QED
    BY <2>1
<1>4. Idle.vm = None
  BY DEF Idle
<1>5. op'[p] = Idle /\ \A q \in Processes \ {p} : op'[q] = op[q]
  BY <1>1, <1>2
<1> HIDE DEF new, cmds
<1>6. /\ obj' = [obj EXCEPT ![v] = new] /\ disturbed \subseteq disturbed'
      /\ v \notin disturbed' => /\ v \notin disturbed /\ ~DropsLive(op[p])
                                /\ obj[v].cmds = op[p].got.cmds
  BY <1>2 DEF PutObject
<1>7. obj'[v].cmds = cmds /\ \A w \in Vms \ {v} : obj'[w] = obj[w]
  BY <1>1, <1>3, <1>6
<1> QED
  BY <1>1, <1>2, <1>4, <1>5, <1>6, <1>7 DEF cmds

\* Goroutines of other VMs do not notice.
LEMMA WriteElsewhere ==
    ASSUME CommandInv, EndInv, NEW p \in Processes, WriteRecord(p),
           NEW g \in Goroutines, g # p, g[2] # op[p].vm, index'[g] = index[g]
    PROVE  At(g)'
<1>1. /\ UNCHANGED <<up, requestVars, pc>> /\ op'[g] = op[g]
      /\ obj'[g[2]] = obj[g[2]] /\ g[2] \in Vms
      /\ g[2] \notin disturbed' => g[2] \notin disturbed
  BY WriteFacts, Pairs DEF Processes
<1>2. Placed(g)' /\ Reporting(g)'
  BY <1>1 DEF EndInv, At, Placed, Reporting, requestVars
<1>3. RecordsOf(g)' = RecordsOf(g) /\ (Tracked(g)' <=> Tracked(g)) /\ (Over(g)' <=> Over(g))
  BY <1>1 DEF RecordsOf, Tracked, Over, requestVars
<1>4. Kept(g)'
  BY <1>1, <1>3 DEF EndInv, At, Kept
<1> QED
  BY <1>2, <1>4 DEF At

\* A new status leaves the other records alone, and the indices and requests of all.
LEMMA StatusOnly ==
    ASSUME NEW cmds \in SUBSET Records, NEW i, NEW status \in Statuses
    PROVE  /\ \A rec \in WithStatus(cmds, i, status) :
                \E c \in cmds : /\ c.index = rec.index /\ c.req = rec.req
                                /\ c.index # i => rec = c
                                /\ c.index = i => rec.status = status
           /\ \A c \in cmds :
                \E rec \in WithStatus(cmds, i, status) : c.index = rec.index /\ c.req = rec.req
<1>1. ASSUME NEW c \in cmds
      PROVE  /\ [c EXCEPT !.status = status].index = c.index
             /\ [c EXCEPT !.status = status].req = c.req
             /\ [c EXCEPT !.status = status].status = status
  BY DEF Records
<1>2. ASSUME NEW rec \in WithStatus(cmds, i, status)
      PROVE  \E c \in cmds : /\ c.index = rec.index /\ c.req = rec.req
                             /\ c.index # i => rec = c
                             /\ c.index = i => rec.status = status
  BY <1>1, <1>2 DEF WithStatus
<1>3. ASSUME NEW c \in cmds
      PROVE  \E rec \in WithStatus(cmds, i, status) : c.index = rec.index /\ c.req = rec.req
  <2>1. CASE c.index = i
    <3>1. [c EXCEPT !.status = status] \in WithStatus(cmds, i, status)
      BY <2>1 DEF WithStatus
    <3> QED
      BY <1>1, <3>1
  <2>2. CASE c.index # i
    BY <2>2 DEF WithStatus
  <2> QED
    BY <2>1, <2>2
<1> QED
  BY <1>2, <1>3

\* What is true of a goroutine's records under a changed set of records.
LEMMA KeptChanged ==
    ASSUME NEW g \in Goroutines, Kept(g), index'[g] = index[g], g[2] \notin disturbed,
           Tracked(g)' => Tracked(g),
           \A rec \in RecordsOf(g)' : \E c \in RecordsOf(g) : c.index = rec.index,
           Tracked(g) /\ index[g] # 0 /\ RecordsOf(g) # {} => RecordsOf(g)' # {},
           Over(g)' => \A rec \in RecordsOf(g)' : rec.status \in Terminal
    PROVE  Kept(g)'
BY DEF Kept

\* The record under the index of a goroutine that runs is its own.
LEMMA OwnIndex ==
    ASSUME CommandInv, EndInv, NEW g \in Goroutines, NEW h \in Goroutines, g[2] = h[2],
           h[2] \notin disturbed, Tracked(h), index[h] # 0,
           NEW rec \in RecordsOf(g), rec.index = index[h]
    PROVE  g = h
<1>1. /\ Kept(h) /\ h[2] \in Vms /\ rec \in obj[h[2]].cmds /\ rec.req = g[1]
      /\ Unique(obj[h[2]].cmds)
  BY Pairs DEF EndInv, At, RecordsOf, CommandInv, StoreInv, Good
<1>2. PICK own \in RecordsOf(h) : own.index = index[h]
  BY <1>1 DEF Kept
<1>3. own = rec
  BY <1>1, <1>2 DEF Unique, RecordsOf
<1> QED
  BY <1>1, <1>2, <1>3, Pairs DEF RecordsOf

\* A client's write: a cancellation or a deletion.
LEMMA ClientWrites ==
    ASSUME CommandInv, EndInv, NEW c \in Clients, WriteRecord(c), NEW g \in Goroutines
    PROVE  At(g)' /\ index' = index
<1>1. /\ c \in Processes /\ c # g /\ op[c].change \in {"Cancelled", "drop"}
      /\ op[c].vm \in Vms /\ op[c].vm # None
      /\ UNCHANGED <<up, requestVars, pc>> /\ op'[g] = op[g]
  <2>1. c \in Processes /\ g \in Processes /\ c # g
    BY ProcessAssumption DEF Processes
  <2> QED
    BY <2>1, WriteFacts DEF WriteRecord, EndInv, Calling
<1>2. index' = index
  BY <1>1 DEF WriteRecord
<1>3. CASE g[2] # op[c].vm
  BY <1>1, <1>2, <1>3, WriteElsewhere
<1>4. CASE g[2] = op[c].vm
  <2>1. Placed(g)' /\ Reporting(g)' /\ Kept(g)
    BY <1>1, <1>2 DEF EndInv, At, Placed, Reporting, requestVars
  <2>2. (Tracked(g)' <=> Tracked(g)) /\ (Over(g)' <=> Over(g))
    BY <1>1 DEF Tracked, Over, requestVars
  <2>3. CASE g[2] \in disturbed'
    BY <1>2, <2>1, <2>3 DEF At, Kept
  <2>4. CASE g[2] \notin disturbed'
    <3> DEFINE cmds == obj[g[2]].cmds
    <3>1. /\ g[2] \notin disturbed /\ ~DropsLive(op[c])
          /\ obj'[g[2]].cmds = Changed(cmds, op[c].change, op[c].arg)
          /\ cmds \in SUBSET Records
      BY <1>1, <1>4, <2>4, WriteFacts DEF CommandInv, StoreInv, Good, Objects
    <3>2. CASE op[c].change = "drop"
      <4>1. RecordsOf(g)' = {rec \in RecordsOf(g) : rec.index \notin op[c].arg}
        BY <3>1, <3>2 DEF Changed, RecordsOf
      <4>2. ASSUME Tracked(g), index[g] # 0, RecordsOf(g) # {} PROVE RecordsOf(g)' # {}
        <5>1. index[g] \notin op[c].arg
          BY <1>4, <3>1, <3>2, <4>2 DEF DropsLive, LiveOn, Tracked
        <5>2. \A rec \in RecordsOf(g) : rec.index = index[g]
          BY <2>1, <3>1, <4>2 DEF Kept
        <5> QED
          BY <4>1, <4>2, <5>1, <5>2
      <4>3. Over(g)' => \A rec \in RecordsOf(g)' : rec.status \in Terminal
        BY <2>1, <2>2, <3>1, <4>1 DEF Kept
      <4>4. \A rec \in RecordsOf(g)' : \E d \in RecordsOf(g) : d.index = rec.index
        BY <4>1
      <4>5. Kept(g)'
        BY <1>2, <2>1, <2>2, <3>1, <4>2, <4>3, <4>4, KeptChanged
      <4> QED
        BY <1>2, <2>1, <4>5 DEF At
    <3>3. CASE op[c].change = "Cancelled"
      <4>1. /\ obj'[g[2]].cmds = WithStatus(cmds, op[c].arg, "Cancelled")
            /\ "Cancelled" \in Statuses /\ "Cancelled" \in Terminal
        BY <3>1, <3>3 DEF Changed, Statuses, Terminal
      <4>2. \A rec \in RecordsOf(g)' : \E d \in RecordsOf(g) :
               d.index = rec.index /\ (rec = d \/ rec.status = "Cancelled")
        BY <3>1, <4>1, StatusOnly DEF RecordsOf
      <4>3. RecordsOf(g) # {} => RecordsOf(g)' # {}
        BY <3>1, <4>1, StatusOnly DEF RecordsOf
      <4>4. Over(g)' => \A rec \in RecordsOf(g)' : rec.status \in Terminal
        BY <2>1, <2>2, <3>1, <4>1, <4>2 DEF Kept
      <4>5. Kept(g)'
        BY <1>2, <2>1, <2>2, <3>1, <4>2, <4>3, <4>4, KeptChanged
      <4> QED
        BY <1>2, <2>1, <4>5 DEF At
    <3> QED
      BY <1>1, <3>2, <3>3
  <2> QED
    BY <2>3, <2>4
<1> QED
  BY <1>2, <1>3, <1>4

\* A goroutine's write: Handling while it goes on, how it ended when it leaves.
LEMMA RunWrites ==
    ASSUME CommandInv, EndInv, NEW h \in Goroutines, WriteRecord(h), NEW g \in Goroutines
    PROVE  At(g)' /\ index' = index
<1>1. /\ h \in Processes /\ g \in Processes /\ op[h].vm \in Vms /\ op[h].vm # None
      /\ UNCHANGED <<up, requestVars, pc>>
      /\ op'[h].vm = None /\ (g # h => op'[g] = op[g])
  <2>1. h \in Processes /\ g \in Processes
    BY DEF Processes
  <2> QED
    BY <2>1, WriteFacts DEF WriteRecord
<1>2. /\ op[h].vm = h[2] /\ op[h].arg = index[h] /\ index[h] # 0 /\ op[h].change \in Statuses
      /\ pc[h] \in {"check", "leave"} /\ (pc[h] = "leave" => op[h].change \in Terminal)
  BY <1>1 DEF EndInv, At, Reporting
<1>3. index' = index
  BY <1>2 DEF WriteRecord, Statuses
<1>4. Tracked(h)
  BY <1>2 DEF EndInv, At, Placed, Tracked
<1>5. Placed(g)' /\ Reporting(g)' /\ Kept(g)
  <2>1. Placed(g) /\ Reporting(g) /\ Kept(g)
    BY DEF EndInv, At
  <2>2. CASE g = h
    BY <1>1, <1>3, <2>1, <2>2 DEF Placed, Reporting, requestVars
  <2>3. CASE g # h
    BY <1>1, <1>3, <2>1, <2>3 DEF Placed, Reporting, requestVars
  <2> QED
    BY <2>1, <2>2, <2>3
<1>6. /\ Tracked(g)' <=> Tracked(g)
      /\ Over(g)' => Over(g) \/ (g = h /\ pc[h] = "leave")
  BY <1>1, <1>2 DEF Tracked, Over, requestVars
<1>7. CASE g[2] # h[2]
  BY <1>1, <1>2, <1>3, <1>7, WriteElsewhere
<1>8. CASE g[2] = h[2] /\ g[2] \in disturbed'
  BY <1>3, <1>5, <1>8 DEF At, Kept
<1>9. CASE g[2] = h[2] /\ g[2] \notin disturbed'
  <2> DEFINE cmds == obj[g[2]].cmds
  <2>1. /\ g[2] \notin disturbed /\ cmds \in SUBSET Records
        /\ obj'[g[2]].cmds = Changed(cmds, op[h].change, index[h])
    BY <1>1, <1>2, <1>9, WriteFacts DEF CommandInv, StoreInv, Good, Objects
  <2>2. obj'[g[2]].cmds = WithStatus(cmds, index[h], op[h].change)
    BY <1>2, <2>1 DEF Changed, Statuses
  <2>3. \A rec \in RecordsOf(g)' : \E d \in RecordsOf(g) :
           /\ d.index = rec.index
           /\ d.index # index[h] => rec = d
           /\ d.index = index[h] => rec.status = op[h].change
    BY <1>2, <2>1, <2>2, StatusOnly DEF RecordsOf
  <2>4. RecordsOf(g) # {} => RecordsOf(g)' # {}
    BY <1>2, <2>1, <2>2, StatusOnly DEF RecordsOf
  <2>5. ASSUME Over(g)', NEW rec \in RecordsOf(g)' PROVE rec.status \in Terminal
    <3>1. PICK d \in RecordsOf(g) : /\ d.index = rec.index
                                    /\ d.index # index[h] => rec = d
                                    /\ d.index = index[h] => rec.status = op[h].change
      BY <2>3, <2>5
    <3>2. CASE g = h
      <4>1. pc[h] = "leave"
        BY <1>2, <1>6, <2>5, <3>2 DEF Over
      <4>2. d.index = index[h]
        BY <1>4, <1>5, <2>1, <3>2 DEF Kept
      <4> QED
        BY <1>2, <3>1, <4>1, <4>2
    <3>3. CASE g # h
      <4>1. d.index # index[h]
        BY <1>2, <1>4, <1>9, <2>1, <3>3, OwnIndex
      <4> QED
        BY <1>5, <1>6, <2>1, <2>5, <3>1, <3>3, <4>1 DEF Kept
    <3> QED
      BY <3>2, <3>3
  <2>6. Kept(g)'
    BY <1>3, <1>5, <1>6, <2>1, <2>3, <2>4, <2>5, KeptChanged
  <2> QED
    BY <1>3, <1>5, <2>6 DEF At
<1> QED
  BY <1>3, <1>7, <1>8, <1>9

\* A request's write adds the record of a goroutine it has not started yet.
LEMMA RequestWrites ==
    ASSUME CommandInv, EndInv, NEW r \in Requests, WriteRecord(r), NEW g \in Goroutines
    PROVE  /\ At(g)'
           /\ <<r, op[r].vm>> \in Goroutines
           /\ \A h \in Goroutines : h # <<r, op[r].vm>> => index'[h] = index[h]
<1> DEFINE v == op[r].vm
           new == [index |-> NextIndex(obj[v].cmds), req |-> r, status |-> "Queued"]
<1>1. /\ r \in Processes /\ g \in Processes /\ r # g /\ v \in Vms /\ v # None
      /\ UNCHANGED <<up, requestVars, pc>> /\ op'[g] = op[g]
  <2>1. r \in Processes /\ g \in Processes /\ r # g
    BY ProcessAssumption DEF Processes
  <2> QED
    BY <2>1, WriteFacts DEF WriteRecord
<1>2. /\ op[r].change = "add" /\ op[r].arg = r /\ reqPc[r] = "queue"
      /\ v \in TargetsOf[r] \ todo[r] /\ index[<<r, v>>] = 0
  BY <1>1 DEF EndInv, Queueing
<1>3. <<r, v>> \in Goroutines
  BY <1>1, <1>2, Pairs
<1>4. /\ index' = [index EXCEPT ![<<r, v>>] = NextIndex(op[r].got.cmds)]
      /\ index \in [Goroutines -> Nat]
  BY <1>2 DEF WriteRecord, CommandInv, ProgressType
<1>5. \A h \in Goroutines : h # <<r, v>> => index'[h] = index[h]
  BY <1>4
<1>6. Placed(g) /\ Reporting(g) /\ Kept(g)
  BY DEF EndInv, At
<1>7. (Tracked(g)' <=> Tracked(g)) /\ (Over(g)' <=> Over(g))
  BY <1>1 DEF Tracked, Over, requestVars
<1>8. v \notin disturbed' =>
        /\ v \notin disturbed /\ obj[v].cmds \in SUBSET Records
        /\ obj'[v].cmds = obj[v].cmds \cup {new}
        /\ index'[<<r, v>>] = new.index
  <2>1. v \notin disturbed' =>
          /\ v \notin disturbed /\ op[r].got.cmds = obj[v].cmds
          /\ obj'[v].cmds = Changed(obj[v].cmds, "add", r)
    BY <1>1, <1>2, WriteFacts
  <2>2. Changed(obj[v].cmds, "add", r) = obj[v].cmds \cup {new}
    BY DEF Changed
  <2>3. obj[v].cmds \in SUBSET Records
    BY <1>1 DEF CommandInv, StoreInv, Good, Objects
  <2>4. index'[<<r, v>>] = NextIndex(op[r].got.cmds)
    BY <1>3, <1>4
  <2> QED
    BY <2>1, <2>2, <2>3, <2>4
<1>9. new.req = r
  OBVIOUS
<1> HIDE DEF new
<1>10. CASE g[2] # v
  <2>1. index'[g] = index[g]
    BY <1>3, <1>5, <1>10
  <2> QED
    BY <1>1, <1>3, <1>5, <1>10, <2>1, WriteElsewhere
<1>11. CASE g[2] = v /\ g # <<r, v>>
  <2>1. index'[g] = index[g] /\ g[1] # r
    BY <1>3, <1>5, <1>11, Pairs
  <2>2. Placed(g)' /\ Reporting(g)'
    BY <1>1, <1>6, <2>1 DEF Placed, Reporting, requestVars
  <2>3. v \notin disturbed' => v \notin disturbed /\ RecordsOf(g)' = RecordsOf(g)
    BY <1>8, <1>9, <1>11, <2>1 DEF RecordsOf
  <2>4. Kept(g)'
    BY <1>6, <1>7, <1>11, <2>1, <2>3 DEF Kept
  <2> QED
    BY <1>3, <1>5, <2>2, <2>4 DEF At
<1>12. CASE g = <<r, v>>
  <2>1. g[1] = r /\ g[2] = v
    BY <1>12
  <2>2. pc[g] = "none" /\ op[g].vm = None
    BY <1>2, <1>6, <2>1 DEF Placed, Reporting
  <2>3. Tracked(g) /\ ~Over(g)' /\ index[g] = 0
    BY <1>2, <1>7, <1>12, <2>1, <2>2 DEF Tracked, Over
  <2>4. Placed(g)' /\ Reporting(g)'
    BY <1>1, <1>2, <1>6, <2>1, <2>2 DEF Placed, Reporting, requestVars
  <2>5. ASSUME v \notin disturbed' PROVE RecordsOf(g)' = {new} /\ index'[g] = new.index
    <3>1. \A rec \in RecordsOf(g) : rec.index = 0 /\ rec \in obj[v].cmds
      BY <1>6, <1>8, <2>1, <2>3, <2>5 DEF Kept, RecordsOf
    <3>2. RecordsOf(g) = {}
      BY <1>1, <3>1, RecordType
    <3> QED
      BY <1>8, <1>9, <1>12, <2>1, <2>5, <3>2 DEF RecordsOf
  <2>6. Kept(g)'
    BY <2>1, <2>3, <2>5 DEF Kept
  <2> QED
    BY <1>3, <1>5, <2>4, <2>6 DEF At
<1> QED
  BY <1>10, <1>11, <1>12

\* Whoever writes, each record of an undisturbed VM is of a request for that VM.
LEMMA WriteKnown ==
    ASSUME CommandInv, EndInv, NEW p \in Processes, WriteRecord(p)
    PROVE  Known'
<1> SUFFICES ASSUME NEW v \in Vms, v \notin disturbed', NEW rec \in obj'[v].cmds, rec.req # None
             PROVE  <<rec.req, v>> \in Goroutines
  BY DEF Known
<1>1. v \notin disturbed
  BY WriteFacts
<1>2. CASE v # op[p].vm
  <2>1. obj'[v] = obj[v]
    BY <1>2, WriteFacts
  <2> QED
    BY <1>1, <2>1 DEF EndInv, Known
<1>3. CASE v = op[p].vm
  <2>1. /\ obj'[v].cmds = Changed(obj[v].cmds, op[p].change, op[p].arg)
        /\ obj[v].cmds \in SUBSET Records /\ op[p].vm # None
    BY <1>3, WriteFacts DEF CommandInv, StoreInv, Good, Objects, WriteRecord
  <2>2. ASSUME \E c \in obj[v].cmds : c.req = rec.req PROVE <<rec.req, v>> \in Goroutines
    BY <1>1, <2>2 DEF EndInv, Known
  <2>3. CASE p \in Requests
    <3>1. op[p].change = "add" /\ op[p].arg = p /\ v \in TargetsOf[p]
      BY <1>3, <2>1, <2>3 DEF EndInv, Queueing
    <3>2. rec \in obj[v].cmds \/ rec.req = p
      BY <2>1, <3>1 DEF Changed
    <3> QED
      BY <2>2, <2>3, <3>1, <3>2, Pairs
  <2>4. CASE op[p].change = "drop"
    BY <2>1, <2>2, <2>4 DEF Changed
  <2>5. CASE op[p].change \in Statuses
    <3>1. rec \in WithStatus(obj[v].cmds, op[p].arg, op[p].change)
      BY <2>1, <2>5 DEF Changed, Statuses
    <3> QED
      BY <2>1, <2>2, <2>5, <3>1, StatusOnly
  <2>6. p \in Clients => op[p].change \in Statuses \/ op[p].change = "drop"
    BY <2>1 DEF EndInv, Calling, Statuses
  <2>7. p \in Goroutines => op[p].change \in Statuses
    BY <2>1 DEF EndInv, At, Reporting
  <2> QED
    BY <2>3, <2>4, <2>5, <2>6, <2>7 DEF Processes
<1> QED
  BY <1>2, <1>3

LEMMA WriteEnds ==
    ASSUME CommandInv, EndInv, NEW p \in Processes, WriteRecord(p)
    PROVE  EndInv'
<1>1. /\ op'[p].vm = None /\ UNCHANGED <<reqPc, todo>>
      /\ \A q \in Processes \ {p} : op'[q] = op[q]
      /\ Requests \cup Clients \cup Goroutines = Processes
  BY WriteFacts DEF Processes, requestVars
<1>2. \A g \in Goroutines : At(g)'
  BY <1>1, ClientWrites, RunWrites, RequestWrites
<1>3. ASSUME NEW q \in Requests PROVE Queueing(q)'
  <2>1. Queueing(q) /\ op[q] \in Updates
    BY DEF EndInv, CommandInv, UpdateInv, Processes
  <2>2. CASE q = p
    BY <1>1, <2>1, <2>2 DEF Queueing
  <2>3. CASE q # p /\ op[q].vm # None
    <3>1. op[q].vm \in TargetsOf[q] /\ <<q, op[q].vm>> \in Goroutines /\ op'[q] = op[q]
      <4>1. op[q].vm \in TargetsOf[q]
        BY <2>1, <2>3 DEF Queueing
      <4>2. op[q].vm \in Vms
        BY <4>1, TargetAssumption
      <4> QED
        BY <1>1, <2>3, <4>1, <4>2, Pairs
    <3>2. index'[<<q, op[q].vm>>] = index[<<q, op[q].vm>>]
      <4>1. p \in Clients \cup Goroutines => index' = index
        BY <3>1, ClientWrites, RunWrites
      <4>2. p \in Requests => <<q, op[q].vm>> # <<p, op[p].vm>>
        BY <2>3
      <4>3. p \in Requests => index'[<<q, op[q].vm>>] = index[<<q, op[q].vm>>]
        BY <3>1, <4>2, RequestWrites
      <4> QED
        BY <1>1, <4>1, <4>3
    <3> QED
      BY <1>1, <2>1, <3>1, <3>2 DEF Queueing
  <2>4. CASE q # p /\ op[q].vm = None
    <3>1. op'[q] = op[q]
      BY <1>1, <2>4
    <3> QED
      BY <1>1, <2>1, <2>4, <3>1 DEF Queueing
  <2> QED
    BY <2>2, <2>3, <2>4
<1>4. ASSUME NEW c \in Clients PROVE Calling(c)'
  <2>1. CASE c = p
    BY <1>1, <2>1 DEF Calling
  <2>2. CASE c # p
    BY <1>1, <2>2 DEF Calling, EndInv
  <2> QED
    BY <2>1, <2>2
<1> QED
  BY <1>2, <1>3, <1>4, WriteKnown DEF EndInv

\* A failed write: the update goes on with the object read again, or is over; a
\* goroutine's is only over without its record or with the VM disturbed.
LEMMA FailedEnds ==
    ASSUME CommandInv, EndInv, NEW p \in Processes, WriteFails(p)
    PROVE  EndInv'
<1> DEFINE u == op[p]
<1>1. /\ u.vm # None /\ UNCHANGED <<up, obj, reqPc, todo, index, pc>> /\ op[p] \in Updates
      /\ op \in [Processes -> Updates] /\ u.vm \in Vms
      /\ Requests \cup Clients \cup Goroutines = Processes
  <2>1. op \in [Processes -> Updates]
    BY DEF CommandInv, UpdateInv
  <2>2. u.vm # None /\ UNCHANGED <<up, obj, reqPc, todo, index, pc>>
    BY DEF WriteFails, requestVars, runVars
  <2>3. u \in Updates
    BY <2>1
  <2>4. u.vm \in Vms
    BY <2>2, <2>3 DEF Updates
  <2> QED
    BY <2>1, <2>2, <2>3, <2>4 DEF Processes
<1>2. disturbed \subseteq disturbed' /\ Still
  BY <1>1 DEF WriteFails, Still
<1>3. \A q \in Processes \ {p} : op'[q] = op[q]
  BY <1>1 DEF WriteFails, GiveUp
<1>4. \/ op'[p].vm = u.vm /\ op'[p].change = u.change /\ op'[p].arg = u.arg
      \/ /\ op'[p].vm = None
         /\ u.vm \in disturbed' \/ ~Applies(obj[u.vm].cmds, u.change, u.arg)
  <2>1. CASE op' = [op EXCEPT ![p].got = obj[u.vm], ![p].tries = @ + 1]
    <3>1. u \in [vm : Vms \cup {None}, change : Changes, arg : Args, got : Good, tries : Nat]
      BY <1>1 DEF Updates
    <3>2. op'[p] = [u EXCEPT !.got = obj[u.vm], !.tries = @ + 1]
      BY <1>1, <2>1
    <3> QED
      BY <3>1, <3>2
  <2>2. CASE GiveUp(p)
    <3>1. op'[p].vm = None
      BY <1>1, <2>2 DEF GiveUp, Idle
    <3>2. CASE ~Applies(obj[u.vm].cmds, u.change, u.arg)
      BY <3>1, <3>2
    <3>3. CASE disturbed' = disturbed \cup {u.vm}
      BY <3>1, <3>3
    <3>4. CASE op' = [op EXCEPT ![p].got = obj[u.vm], ![p].tries = @ + 1]
      BY <2>1, <3>4
    <3> QED
      BY <3>2, <3>3, <3>4 DEF WriteFails
  <2> QED
    BY <2>1, <2>2 DEF WriteFails
<1>5. ASSUME NEW g \in Goroutines PROVE At(g)'
  <2>1. Placed(g) /\ Reporting(g) /\ Kept(g)
    BY DEF EndInv, At
  <2>2. CASE g # p
    BY <1>1, <1>2, <1>3, <2>2, AtSame DEF SameAt, EndInv
  <2>3. CASE g = p
    <3>1. Placed(g)' /\ Reporting(g)' /\ (Tracked(g)' <=> Tracked(g))
      BY <1>1, <1>4, <2>1, <2>3 DEF Placed, Reporting, Tracked
    <3>2. CASE op'[p].vm # None
      <4>1. Over(g)' => Over(g)
        BY <1>1, <2>3, <3>2 DEF Over
      <4> QED
        BY <1>1, <1>2, <2>1, <3>1, <4>1, KeptStill DEF At
    <3>3. CASE op'[p].vm = None
      <4>1. u.vm = g[2] /\ u.arg = index[g] /\ index[g] # 0 /\ u.change \in Statuses
            /\ pc[g] \in {"check", "leave"} /\ Tracked(g)
        BY <1>1, <2>1, <2>3 DEF Reporting, Placed, Tracked
      <4>2. g[2] \in disturbed'
        <5>1. ASSUME g[2] \notin disturbed' PROVE FALSE
          <6>1. g[2] \notin disturbed /\ ~Applies(obj[g[2]].cmds, u.change, index[g])
            BY <1>1, <1>2, <1>4, <3>3, <4>1, <5>1
          <6>2. PICK rec \in RecordsOf(g) : rec.index = index[g]
            BY <2>1, <4>1, <6>1 DEF Kept
          <6> QED
            BY <4>1, <6>1, <6>2 DEF Applies, Found, Indices, RecordsOf
        <5> QED
          BY <5>1
      <4> QED
        BY <3>1, <4>2 DEF At, Kept
    <3> QED
      BY <3>2, <3>3
  <2> QED
    BY <2>2, <2>3
<1>6. ASSUME NEW r \in Requests PROVE Queueing(r)'
  <2>1. Queueing(r)
    BY DEF EndInv
  <2>2. index' = index
    BY DEF WriteFails, runVars
  <2>3. \/ op'[r].vm = None
        \/ op'[r].vm = op[r].vm /\ op'[r].change = op[r].change /\ op'[r].arg = op[r].arg
    BY <1>1, <1>3, <1>4
  <2> QED
    BY <1>1, <2>1, <2>2, <2>3 DEF Queueing
<1>7. ASSUME NEW c \in Clients PROVE Calling(c)'
  BY <1>1, <1>3, <1>4 DEF Calling, EndInv
<1> QED
  BY <1>2, <1>5, <1>6, <1>7, EndFrom

-----------------------------------------------------------------------------
(* The server stops and starts again.                                        *)

LEMMA CrashEnds == CommandInv /\ EndInv /\ Crash => EndInv'
<1> SUFFICES ASSUME CommandInv, EndInv, Crash PROVE EndInv'
  OBVIOUS
<1>1. /\ up' = FALSE /\ UNCHANGED <<obj, disturbed>>
      /\ reqPc' = [r \in Requests |-> IF reqPc[r] \in {"queue", "wait"} THEN "lost" ELSE reqPc[r]]
      /\ pc' = [g \in Goroutines |-> IF pc[g] = "none" /\ reqPc[g[1]] # "queue"
                                     THEN "none" ELSE "done"]
      /\ op' = [p \in Processes |-> Idle]
      /\ todo' = [r \in Requests |-> IF reqPc[r] = "idle" THEN todo[r] ELSE {}]
      /\ index' = [g \in Goroutines |-> 0]
  BY DEF Crash, storeVars
<1>2. /\ Requests \cup Clients \cup Goroutines = Processes
      /\ \A p \in Processes : op'[p].vm = None
  BY <1>1 DEF Processes, Idle
<1>3. Still
  BY <1>1 DEF Still
<1>4. ASSUME NEW g \in Goroutines PROVE At(g)'
  <2>1. Placed(g) /\ Kept(g) /\ g[1] \in Requests /\ g[2] \in Vms
    BY Pairs DEF EndInv, At
  <2>2. /\ reqPc'[g[1]] = IF reqPc[g[1]] \in {"queue", "wait"} THEN "lost" ELSE reqPc[g[1]]
        /\ pc'[g] = IF pc[g] = "none" /\ reqPc[g[1]] # "queue" THEN "none" ELSE "done"
        /\ todo'[g[1]] = IF reqPc[g[1]] = "idle" THEN todo[g[1]] ELSE {}
        /\ index'[g] = 0 /\ op'[g].vm = None
    BY <1>1, <1>2, <2>1
  <2>3. Placed(g)' /\ Reporting(g)'
    BY <2>1, <2>2 DEF Placed, Reporting
  <2>4. ~Over(g)'
    BY <1>1, <2>2 DEF Over
  <2>5. CASE ~Tracked(g)'
    BY <2>4, <2>5, <2>3 DEF At, Kept
  <2>6. CASE Tracked(g)'
    <3>1. reqPc[g[1]] = "idle" /\ pc[g] = "none" /\ index[g] = 0
      BY <2>1, <2>2, <2>6 DEF Tracked, Placed
    <3>2. Tracked(g)
      BY <3>1 DEF Tracked
    <3>3. index'[g] = index[g]
      BY <2>2, <3>1
    <3> QED
      BY <1>3, <2>1, <2>3, <2>4, <3>2, <3>3, KeptStill DEF At
  <2> QED
    BY <2>5, <2>6
<1>5. ASSUME NEW r \in Requests PROVE Queueing(r)'
  <2>1. todo'[r] \subseteq TargetsOf[r] /\ op'[r].vm = None
    BY <1>1, <1>2 DEF EndInv, Queueing
  <2> QED
    BY <2>1 DEF Queueing
<1>6. ASSUME NEW c \in Clients PROVE Calling(c)'
  BY <1>2 DEF Calling
<1> QED
  BY <1>3, <1>4, <1>5, <1>6, EndFrom

\* CleanupInterruptedCommands settles the records of every VM it does not skip.
LEMMA RestartEnds ==
    ASSUME CommandInv, EndInv, NEW skipped \in SUBSET Vms, Restart(skipped)
    PROVE  EndInv'
<1>1. /\ disturbed' = disturbed \cup skipped /\ UNCHANGED <<reqPc, todo, index, pc, op>>
      /\ obj' = [v \in Vms |-> IF v \in skipped THEN obj[v]
                               ELSE [obj[v] EXCEPT !.cmds = {Interrupted(rec) : rec \in @}]]
  BY DEF Restart, requestVars, runVars
<1>2. ASSUME NEW v \in Vms, v \notin disturbed'
      PROVE  /\ v \notin disturbed /\ obj[v].cmds \in SUBSET Records
             /\ obj'[v].cmds = {Interrupted(rec) : rec \in obj[v].cmds}
  <2>1. obj[v] \in [cmds : SUBSET Records, pinned : BOOLEAN, running : BOOLEAN]
    BY DEF CommandInv, StoreInv, Good, Objects
  <2>2. v \notin disturbed /\ obj'[v] = [obj[v] EXCEPT !.cmds = {Interrupted(rec) : rec \in @}]
    BY <1>1, <1>2
  <2> QED
    BY <2>1, <2>2
<1>3. ASSUME NEW rec \in Records
      PROVE  /\ Interrupted(rec).index = rec.index /\ Interrupted(rec).req = rec.req
             /\ Interrupted(rec).status \in Terminal
  BY DEF Interrupted, Records, Statuses, Terminal
<1>4. ASSUME NEW g \in Goroutines PROVE At(g)'
  <2>1. Placed(g) /\ Reporting(g) /\ Kept(g) /\ g[2] \in Vms
    BY Pairs DEF EndInv, At
  <2>2. Placed(g)' /\ Reporting(g)' /\ (Tracked(g)' <=> Tracked(g))
    BY <1>1, <2>1 DEF Placed, Reporting, Tracked
  <2>3. g[2] \notin disturbed' =>
          /\ g[2] \notin disturbed
          /\ \A rec \in RecordsOf(g)' : /\ rec.status \in Terminal
                                        /\ \E c \in RecordsOf(g) : c.index = rec.index
          /\ RecordsOf(g) # {} => RecordsOf(g)' # {}
    BY <1>2, <1>3, <2>1 DEF RecordsOf
  <2>4. Kept(g)'
    BY <1>1, <2>1, <2>2, <2>3 DEF Kept
  <2> QED
    BY <2>2, <2>4 DEF At
<1>5. \A r \in Requests : Queueing(r)'
  BY <1>1 DEF EndInv, Queueing
<1>6. \A c \in Clients : Calling(c)'
  BY <1>1 DEF EndInv, Calling
<1>7. Known'
  BY <1>2, <1>3 DEF EndInv, Known
<1> QED
  BY <1>4, <1>5, <1>6, <1>7 DEF EndInv

LEMMA EndNext == CommandInv /\ EndInv /\ [Next]_vars => EndInv'
<1> SUFFICES ASSUME CommandInv, EndInv, [Next]_vars PROVE EndInv'
  OBVIOUS
<1>1. CASE UNCHANGED vars
  <2>1. UNCHANGED <<up, obj, disturbed, reqPc, todo, index, pc, op>>
    BY <1>1 DEF vars, storeVars, requestVars, runVars
  <2>2. Still
    BY <2>1 DEF Still
  <2>3. \A g \in Goroutines : At(g)'
    BY <2>1, <2>2, AtSame DEF SameAt, EndInv
  <2>4. \A r \in Requests : Queueing(r)'
    BY <2>1 DEF EndInv, Queueing
  <2>5. \A c \in Clients : Calling(c)'
    BY <2>1 DEF EndInv, Calling
  <2> QED
    BY <2>2, <2>3, <2>4, <2>5, EndFrom
<1>2. ASSUME NEW p \in Processes, StoreStep(p) PROVE EndInv'
  BY <1>2, WriteEnds, FailedEnds DEF StoreStep
<1> QED
  BY <1>1, <1>2, RequestEnds, RunEnds, ClientEnds, CrashEnds, RestartEnds DEF Next

\* The record of a command that is over, or was cut short by a stop of the server, says
\* how it ended (the last UpdateCommandStatusInfo of its goroutine, a cancellation, or
\* CleanupInterruptedCommands), unless its request was rejected half-way or an update
\* of the VM's object was lost or given up.
THEOREM EndedCorrect == Spec => []EndedIsTerminal
<1>1. ASSUME Init PROVE EndInv
  <2>1. /\ \A v \in Vms : obj[v].cmds = PastOf[v]
        /\ \A p \in Processes : op[p].vm = None
        /\ todo = TargetsOf /\ \A r \in Requests : reqPc[r] = "idle"
        /\ \A g \in Goroutines : index[g] = 0 /\ pc[g] = "none"
    BY <1>1 DEF Init, VmWith, Idle
  <2>2. \A v \in Vms : \A rec \in obj[v].cmds : rec.req = None
    BY <2>1, PastAssumption
  <2>3. ASSUME NEW g \in Goroutines PROVE At(g)
    <3>1. RecordsOf(g) = {}
      BY <2>2, Pairs, NoneAssumption DEF RecordsOf
    <3>2. op[g].vm = None /\ reqPc[g[1]] = "idle" /\ g[2] \in todo[g[1]]
      BY <2>1, Pairs DEF Processes
    <3> QED
      BY <2>1, <2>3, <3>1, <3>2 DEF At, Placed, Reporting, Kept
  <2>4. \A r \in Requests : Queueing(r)
    BY <2>1 DEF Queueing, Processes
  <2>5. \A c \in Clients : Calling(c)
    BY <2>1 DEF Calling, Processes
  <2>6. Known
    BY <2>2 DEF Known
  <2> QED
    BY <2>3, <2>4, <2>5, <2>6 DEF EndInv
<1>2. ASSUME EndInv PROVE EndedIsTerminal
  <2> SUFFICES ASSUME NEW v \in Vms, v \notin disturbed, NEW rec \in obj[v].cmds,
                      rec.req # None, up, pc[<<rec.req, v>>] = "done"
               PROVE  rec.status \in Terminal
    BY DEF EndedIsTerminal
  <2> DEFINE g == <<rec.req, v>>
  <2>1. g \in Goroutines /\ g[1] = rec.req /\ g[2] = v
    BY <1>2 DEF EndInv, Known
  <2>2. rec \in RecordsOf(g) /\ Over(g) /\ Kept(g)
    BY <1>2, <2>1 DEF RecordsOf, Over, EndInv, At
  <2> QED
    BY <2>1, <2>2 DEF Kept
<1> QED
  BY <1>1, <1>2, CommandCorrect, EndNext, PTL DEF Spec

=============================================================================
