-------------------------- MODULE MciControlProofs --------------------------
(* Theorems about MciControl, for any number of clients, VMs and requests. *)
EXTENDS MciControl, FiniteSetTheorems, TLAPS

\* The stage of a job (0) and those that are to come.
Stage(j, i) == IF i = 0 THEN j.pc ELSE j.rest[i]

\* Carrying out an action runs to its completion, and a record is written back
\* only right after it was read.
Linked(j) ==
    \A i \in 0..Len(j.rest) :
        /\ Stage(j, i) = "launch" => i < Len(j.rest) /\ j.rest[i+1] = "select"
        /\ Stage(j, i) = "select" => i < Len(j.rest) /\ j.rest[i+1] = "run"
        /\ Stage(j, i) = "run" => i < Len(j.rest) /\ j.rest[i+1] = "complete"
        /\ i > 0 /\ Stage(j, i) = "rewrite" => Stage(j, i-1) = "reread"

\* Only requests that refine get to refining.
RefineStages == {"refine", "purge", "reread", "rewrite"}
OnlyRefiners(j) ==
    \A i \in 0..Len(j.rest) : Stage(j, i) \in RefineStages => Refines(j.kind, j.opt)

JobOK(j) ==
    /\ j \in JobRecord
    /\ Linked(j)
    /\ OnlyRefiners(j)
    /\ j.pc = "idle" => j.rest = <<>>
    /\ j.pc # "idle" => j.act \in Controls
    /\ j.pc = "rewrite" => j.read # "error"

Busy == {"select", "run", "complete"}

\* What becomes of a job: it ends or stays the same request.
Ending(j, k) ==
    /\ JobOK(k)
    /\ k.pc # "idle" => j.pc # "idle" /\ k.kind = j.kind /\ k.opt = j.opt

\* Moreover an action under way is carried on, and nothing is about to be
\* written that was not before.
Onward(j, k) ==
    /\ Ending(j, k)
    /\ j.pc \in Busy => k.pc \in Busy
    /\ k.pc = "rewrite" => j.pc = "rewrite" /\ k.read = j.read

JobsOK == job \in [Clients -> JobRecord] /\ \A c \in Clients : JobOK(job[c])
Gone == ~mci.there => mci.action = "None"
TypeInv == MciType /\ CountType /\ JobsOK /\ Gone

-----------------------------------------------------------------------------
(* Records and jobs. *)

LEMMA DuringType ==
    ASSUME NEW a \in Controls
    PROVE  During(a) \in Transitional /\ During(a) \in CspStates
BY DEF During, Transitional, CspStates, Controls

LEMMA CorrectedType ==
    ASSUME NEW r \in VmRecord, NEW s \in Statuses
    PROVE  Corrected(r, s) \in Statuses
BY DEF Corrected, Statuses, Stable, Transitional, During, VmRecord

LEMMA RefreshedType ==
    ASSUME NEW r \in VmRecord, NEW s \in Statuses
    PROVE  Refreshed(r, s) \in VmRecord
BY CorrectedType DEF Refreshed, VmRecord, Actions

LEMMA IntentType ==
    ASSUME NEW r \in VmRecord, NEW a \in Controls
    PROVE  Intent(r, a) \in VmRecord
BY DuringType DEF Intent, VmRecord, Actions, Statuses

LEMMA ReportsType ==
    ASSUME NEW s \in CspStates
    PROVE  Reports(s) \subseteq Statuses
BY DEF Reports, CspStates, Statuses, Stable, Transitional

LEMMA SeenType ==
    ASSUME NEW f \in SeenMaps, NEW v \in Vms, NEW s \in Statuses
    PROVE  Seen(f, v, s) \in SeenMaps
<1>1. PICK V \in SUBSET Vms : f \in [V -> Statuses]
  BY DEF SeenMaps
<1>2. Seen(f, v, s) \in [V \cup {v} -> Statuses]
  BY <1>1 DEF Seen
<1> QED
  BY <1>2 DEF SeenMaps

LEMMA UnseenType == Unseen \in SeenMaps
<1>1. Unseen \in [{} -> Statuses]
  BY DEF Unseen
<1> QED
  BY <1>1 DEF SeenMaps

LEMMA IdleType == Idle \in JobRecord
BY UnseenType DEF Idle, JobRecord, Labels, Out, Places

LEMMA IdleOK == JobOK(Idle)
<1>1. Idle.pc = "idle" /\ Idle.rest = <<>>
  BY DEF Idle
<1>2. Linked(Idle) /\ OnlyRefiners(Idle)
  BY <1>1 DEF Linked, OnlyRefiners, Stage, RefineStages
<1> QED
  BY <1>1, <1>2, IdleType DEF JobOK

LEMMA IdleEnds == ASSUME NEW j PROVE Ending(j, Idle) /\ (j.pc \notin Busy => Onward(j, Idle))
BY IdleOK DEF Ending, Onward, Idle

LEMMA PlaceOK ==
    ASSUME NEW j, JobOK(j), NEW V, NEW p \in Places
    PROVE  /\ Onward(j, Place(j, V, p))
           /\ Place(j, V, p) = [j EXCEPT !.at = Place(j, V, p).at]
           /\ Place(j, V, p).pc = j.pc /\ Place(j, V, p).rest = j.rest
           /\ Place(j, V, p).read = j.read
<1>1. j \in JobRecord
  BY DEF JobOK
<1>2. [v \in Vms |-> IF v \in V THEN p ELSE j.at[v]] \in [Vms -> Places]
  BY <1>1 DEF JobRecord
<1>3. Place(j, V, p) \in JobRecord
  BY <1>1, <1>2 DEF Place, JobRecord
<1>4. /\ Place(j, V, p).pc = j.pc /\ Place(j, V, p).rest = j.rest
      /\ Place(j, V, p).kind = j.kind /\ Place(j, V, p).opt = j.opt
      /\ Place(j, V, p).act = j.act /\ Place(j, V, p).read = j.read
      /\ Place(j, V, p) = [j EXCEPT !.at = Place(j, V, p).at]
  BY <1>1 DEF Place, JobRecord
<1>5. Linked(Place(j, V, p)) /\ OnlyRefiners(Place(j, V, p))
  BY <1>4 DEF JobOK, Linked, OnlyRefiners, Stage
<1> QED
  BY <1>3, <1>4, <1>5 DEF JobOK, Onward, Ending

LEMMA ProceedOK ==
    ASSUME NEW j, JobOK(j), j.pc = "reread" => j.read # "error"
    PROVE  /\ Ending(j, Proceed(j))
           /\ j.pc \notin {"reread", "complete"} => Onward(j, Proceed(j))
           /\ j.rest # <<>> => Proceed(j).pc = j.rest[1]
           /\ Proceed(j).pc # "idle" => Proceed(j).read = j.read
           /\ Proceed(j).pc = "rewrite" => j.pc = "reread"
<1>1. j \in JobRecord /\ j.rest \in Seq(Stages)
  BY DEF JobOK, JobRecord
<1>2. CASE j.rest = <<>>
  <2>1. j.pc \notin {"select", "run"}
    BY <1>2, <1>1 DEF JobOK, Linked, Stage
  <2>2. Proceed(j) = Idle
    BY <1>2 DEF Proceed
  <2>3. Idle.pc = "idle"
    BY DEF Idle
  <2> QED
    BY <1>2, <2>1, <2>2, <2>3, IdleEnds DEF Busy
<1>3. CASE j.rest # <<>>
  <2> DEFINE k == Proceed(j)
  <2>1. k = [j EXCEPT !.pc = Head(j.rest), !.rest = Tail(j.rest)]
    BY <1>3 DEF Proceed
  <2>2. Head(j.rest) = j.rest[1] /\ Head(j.rest) \in Stages /\ Tail(j.rest) \in Seq(Stages)
        /\ Len(j.rest) \in Nat /\ Len(j.rest) > 0 /\ Len(Tail(j.rest)) = Len(j.rest) - 1
    BY <1>1, <1>3
  <2>3. \A i \in 1..Len(Tail(j.rest)) : Tail(j.rest)[i] = j.rest[i+1]
    BY <1>1, <1>3
  <2>4. k \in JobRecord
    BY <1>1, <2>1, <2>2 DEF JobRecord, Labels
  <2>5. /\ k.pc = j.rest[1] /\ k.rest = Tail(j.rest) /\ k.kind = j.kind /\ k.opt = j.opt
        /\ k.act = j.act /\ k.read = j.read
    BY <1>1, <2>1, <2>2 DEF JobRecord
  <2>6. \A i \in 0..Len(k.rest) : Stage(k, i) = Stage(j, i+1) /\ i + 1 \in 0..Len(j.rest)
    BY <2>2, <2>3, <2>5 DEF Stage
  <2> HIDE DEF k
  <2>7. Linked(k)
    <3> SUFFICES ASSUME NEW i \in 0..Len(k.rest)
                 PROVE  /\ Stage(k, i) = "launch" => i < Len(k.rest) /\ k.rest[i+1] = "select"
                        /\ Stage(k, i) = "select" => i < Len(k.rest) /\ k.rest[i+1] = "run"
                        /\ Stage(k, i) = "run" => i < Len(k.rest) /\ k.rest[i+1] = "complete"
                        /\ i > 0 /\ Stage(k, i) = "rewrite" => Stage(k, i-1) = "reread"
      BY DEF Linked
    <3>1. Linked(j)
      BY DEF JobOK
    <3>2. i < Len(k.rest) => k.rest[i+1] = j.rest[i+2]
      BY <2>2, <2>3, <2>5
    <3>3. Len(k.rest) = Len(j.rest) - 1 /\ i \in Nat /\ Len(j.rest) \in Nat
      BY <2>2, <2>5
    <3>4. i > 0 => Stage(k, i-1) = Stage(j, i)
      <4>1. CASE i > 0
        <5>1. i - 1 \in 0..Len(k.rest)
          BY <4>1, <3>3
        <5>2. Stage(k, i-1) = Stage(j, (i-1)+1)
          BY <5>1, <2>6
        <5> QED
          BY <5>2, <3>3
      <4> QED
        BY <4>1
    <3>5. i + 1 \in 0..Len(j.rest) /\ Stage(k, i) = Stage(j, i+1)
      BY <2>6
    <3>6. /\ Stage(j, i+1) = "launch" => i+1 < Len(j.rest) /\ j.rest[(i+1)+1] = "select"
          /\ Stage(j, i+1) = "select" => i+1 < Len(j.rest) /\ j.rest[(i+1)+1] = "run"
          /\ Stage(j, i+1) = "run" => i+1 < Len(j.rest) /\ j.rest[(i+1)+1] = "complete"
          /\ i+1 > 0 /\ Stage(j, i+1) = "rewrite" => Stage(j, (i+1)-1) = "reread"
      BY <3>1, <3>5 DEF Linked
    <3>7. (i+1)+1 = i+2 /\ (i+1)-1 = i
      BY <3>3
    <3> QED
      BY <3>2, <3>3, <3>4, <3>5, <3>6, <3>7
  <2>8. OnlyRefiners(k)
    BY <2>5, <2>6 DEF OnlyRefiners, JobOK, Refines
  <2>9. 0 \in 0..Len(j.rest) /\ 1 \in 0..Len(j.rest) /\ Stage(j, 0) = j.pc /\ Stage(j, 1) = j.rest[1]
    BY <2>2 DEF Stage
  <2>10. /\ j.pc = "select" => j.rest[1] = "run"
         /\ j.pc = "run" => j.rest[1] = "complete"
         /\ j.rest[1] = "rewrite" => j.pc = "reread"
    BY <2>9 DEF JobOK, Linked
  <2>11. j.act \in Controls /\ k.pc # "idle" /\ j.pc # "idle"
    BY <1>3, <2>2, <2>5 DEF JobOK, Stages
  <2>12. /\ k.pc = "rewrite" => k.read # "error"
         /\ j.pc \in Busy /\ j.pc # "complete" => k.pc \in Busy
         /\ k.pc = "rewrite" => j.pc = "reread"
    BY <2>5, <2>10 DEF Busy
  <2>13. JobOK(k)
    BY <2>4, <2>7, <2>8, <2>11, <2>5, <2>12 DEF JobOK
  <2> QED
    BY <2>5, <2>10, <2>11, <2>12, <2>13 DEF Ending, Onward, k
<1> QED
  BY <1>2, <1>3

-----------------------------------------------------------------------------
(* Plans: lists of stages that keep to the order of stages.                *)

InOrder(s) ==
    \A i \in 1..Len(s) :
        /\ s[i] = "launch" => i < Len(s) /\ s[i+1] = "select"
        /\ s[i] = "select" => i < Len(s) /\ s[i+1] = "run"
        /\ s[i] = "run" => i < Len(s) /\ s[i+1] = "complete"
        /\ s[i] = "rewrite" => i > 1 /\ s[i-1] = "reread"

ForRefiners(s, j) == \A i \in 1..Len(s) : s[i] \in RefineStages => Refines(j.kind, j.opt)

Splits == {"guard", "refine", "advance", "terminate"}

LEMMA PrependOK ==
    ASSUME NEW j, JobOK(j), j.pc \in Splits, NEW s \in Seq(Stages), s # <<>>, InOrder(s),
           ForRefiners(s, j)
    PROVE  JobOK([j EXCEPT !.rest = s \o j.rest])
<1> DEFINE k == [j EXCEPT !.rest = s \o j.rest]
<1> DEFINE t == j.rest
<1>1. j \in JobRecord /\ t \in Seq(Stages)
  BY DEF JobOK, JobRecord
<1>2. Len(s) \in Nat /\ Len(t) \in Nat /\ Len(s) > 0 /\ Len(s \o t) = Len(s) + Len(t)
      /\ s \o t \in Seq(Stages)
  BY <1>1
<1>3. /\ \A i \in 1..Len(s) : (s \o t)[i] = s[i]
      /\ \A i \in 1..Len(t) : (s \o t)[Len(s) + i] = t[i]
  BY <1>1, <1>2
<1>4. k \in JobRecord
  BY <1>1, <1>2 DEF JobRecord
<1>5. /\ k.pc = j.pc /\ k.rest = s \o t /\ k.kind = j.kind /\ k.opt = j.opt
      /\ k.act = j.act /\ k.read = j.read
  BY <1>1 DEF JobRecord
<1> HIDE DEF k, t
<1>6. /\ Stage(k, 0) = j.pc
      /\ \A i \in 1..Len(s) : Stage(k, i) = s[i] /\ k.rest[i] = s[i]
      /\ \A i \in 1..Len(t) : Stage(k, Len(s) + i) = t[i] /\ k.rest[Len(s) + i] = t[i]
  BY <1>2, <1>3, <1>5 DEF Stage
<1>7. /\ \A i \in 1..Len(t) : Stage(j, i) = t[i]
      /\ Stage(j, 0) = j.pc
  BY <1>1, <1>2 DEF Stage, t
<1>8. Len(k.rest) = Len(s) + Len(t)
  BY <1>2, <1>5
<1>9. Linked(k)
  <2> SUFFICES ASSUME NEW i \in 0..Len(k.rest)
               PROVE  /\ Stage(k, i) = "launch" => i < Len(k.rest) /\ k.rest[i+1] = "select"
                      /\ Stage(k, i) = "select" => i < Len(k.rest) /\ k.rest[i+1] = "run"
                      /\ Stage(k, i) = "run" => i < Len(k.rest) /\ k.rest[i+1] = "complete"
                      /\ i > 0 /\ Stage(k, i) = "rewrite" => Stage(k, i-1) = "reread"
    BY DEF Linked
  <2>1. CASE i = 0
    BY <2>1, <1>6 DEF Splits
  <2>2. CASE i \in 1..Len(s)
    <3>1. /\ s[i] = "launch" => i < Len(s) /\ s[i+1] = "select"
          /\ s[i] = "select" => i < Len(s) /\ s[i+1] = "run"
          /\ s[i] = "run" => i < Len(s) /\ s[i+1] = "complete"
          /\ s[i] = "rewrite" => i > 1 /\ s[i-1] = "reread"
      BY <2>2 DEF InOrder
    <3>2. i < Len(s) => i + 1 \in 1..Len(s)
      BY <2>2, <1>2
    <3>3. i > 1 => i - 1 \in 1..Len(s)
      BY <2>2, <1>2
    <3>4. i < Len(s) => i < Len(k.rest)
      BY <2>2, <1>2, <1>8
    <3> QED
      BY <2>2, <3>1, <3>2, <3>3, <3>4, <1>6
  <2>3. CASE i > Len(s)
    <3> DEFINE n == i - Len(s)
    <3>1. n \in 1..Len(t) /\ i = Len(s) + n
      BY <2>3, <1>2, <1>8
    <3> HIDE DEF n
    <3>2. Stage(k, i) = t[n] /\ Stage(j, n) = t[n]
      BY <3>1, <1>6, <1>7
    <3>3. n \in 0..Len(j.rest) /\ n > 0 /\ Len(t) = Len(j.rest)
      BY <3>1, <1>2 DEF t
    <3>4. /\ Stage(j, n) = "launch" => n < Len(j.rest) /\ j.rest[n+1] = "select"
          /\ Stage(j, n) = "select" => n < Len(j.rest) /\ j.rest[n+1] = "run"
          /\ Stage(j, n) = "run" => n < Len(j.rest) /\ j.rest[n+1] = "complete"
          /\ Stage(j, n) = "rewrite" => Stage(j, n-1) = "reread"
      BY <3>3 DEF JobOK, Linked
    <3>5. n < Len(t) => i < Len(k.rest) /\ k.rest[i+1] = t[n+1]
      <4>1. CASE n < Len(t)
        <5>1. n + 1 \in 1..Len(t) /\ i + 1 = Len(s) + (n + 1) /\ i < Len(k.rest)
          BY <4>1, <3>1, <1>2, <1>8
        <5> QED
          BY <5>1, <1>6
      <4> QED
        BY <4>1
    <3>6. Stage(j, n-1) = "reread" => Stage(k, i-1) = "reread"
      <4>1. CASE n = 1
        <5>1. n - 1 = 0
          BY <4>1
        <5> QED
          BY <5>1, <1>7 DEF Splits
      <4>2. CASE n > 1
        <5>1. n - 1 \in 1..Len(t) /\ i - 1 = Len(s) + (n - 1)
          BY <4>2, <3>1, <1>2
        <5> QED
          BY <5>1, <1>6, <1>7
      <4> QED
        BY <3>1, <4>1, <4>2
    <3>7. j.rest = t
      BY DEF t
    <3> QED
      BY <3>2, <3>3, <3>4, <3>5, <3>6, <3>7
  <2> QED
    BY <1>2, <1>8, <2>1, <2>2, <2>3
<1>10. OnlyRefiners(k)
  <2> SUFFICES ASSUME NEW i \in 0..Len(k.rest), Stage(k, i) \in RefineStages
               PROVE  Refines(k.kind, k.opt)
    BY DEF OnlyRefiners
  <2>1. CASE i = 0
    <3>1. Stage(j, 0) \in RefineStages /\ 0 \in 0..Len(j.rest)
      BY <2>1, <1>6, <1>7, <1>2 DEF t
    <3> QED
      BY <3>1, <1>5 DEF JobOK, OnlyRefiners
  <2>2. CASE i \in 1..Len(s)
    BY <2>2, <1>5, <1>6 DEF ForRefiners
  <2>3. CASE i > Len(s)
    <3>1. i - Len(s) \in 1..Len(t) /\ i = Len(s) + (i - Len(s))
      BY <2>3, <1>2, <1>8
    <3>2. Stage(j, i - Len(s)) \in RefineStages /\ i - Len(s) \in 0..Len(j.rest)
      BY <3>1, <1>2, <1>6, <1>7 DEF t
    <3> QED
      BY <3>2, <1>5 DEF JobOK, OnlyRefiners
  <2> QED
    BY <1>2, <1>8, <2>1, <2>2, <2>3
<1>11. j.pc # "idle" /\ j.pc # "rewrite" /\ j.act \in Controls
  BY DEF JobOK, Splits
<1>12. JobOK(k)
  BY <1>4, <1>5, <1>9, <1>10, <1>11 DEF JobOK
<1> QED
  BY <1>12 DEF k, t

LEMMA ThenOK ==
    ASSUME NEW j, JobOK(j), j.pc \in Splits, NEW s \in Seq(Stages), s # <<>>, InOrder(s),
           ForRefiners(s, j)
    PROVE  Onward(j, Then(j, s)) /\ Then(j, s).pc \notin {"idle", "rewrite"}
<1> DEFINE k == [j EXCEPT !.rest = s \o j.rest]
<1>1. JobOK(k)
  BY PrependOK
<1>2. j \in JobRecord /\ j.rest \in Seq(Stages)
  BY DEF JobOK, JobRecord
<1>3. k.pc = j.pc /\ k.kind = j.kind /\ k.opt = j.opt /\ k.rest = s \o j.rest
  BY <1>2 DEF JobRecord
<1>4. Then(j, s) = Proceed(k)
  BY DEF Then
<1> HIDE DEF k
<1>5. k.pc \notin {"reread", "complete", "rewrite"} /\ k.pc \notin Busy /\ j.pc \notin Busy
  BY <1>3 DEF Splits, Busy
<1>6. k.rest # <<>> /\ k.rest[1] \in Stages
  BY <1>2, <1>3
<1>7. Onward(k, Proceed(k)) /\ Proceed(k).pc # "idle"
  BY <1>1, <1>5, <1>6, ProceedOK DEF Stages
<1> QED
  BY <1>3, <1>4, <1>5, <1>7 DEF Ending, Onward

LEMMA PlansOK ==
    /\ ControlPlan \in Seq(Stages) /\ ControlPlan # <<>> /\ InOrder(ControlPlan)
    /\ \A j : ForRefiners(ControlPlan, j)
<1>1. ControlPlan \in Seq(Stages) /\ Len(ControlPlan) = 6
      /\ ControlPlan[1] = "guard" /\ ControlPlan[2] = "try" /\ ControlPlan[3] = "launch"
      /\ ControlPlan[4] = "select" /\ ControlPlan[5] = "run" /\ ControlPlan[6] = "complete"
  BY DEF ControlPlan, Stages
<1>2. \A i \in 1..6 : i = 1 \/ i = 2 \/ i = 3 \/ i = 4 \/ i = 5 \/ i = 6
  OBVIOUS
<1>3. InOrder(ControlPlan)
  BY <1>1, <1>2 DEF InOrder
<1>4. \A j : ForRefiners(ControlPlan, j)
  BY <1>1, <1>2 DEF ForRefiners, RefineStages
<1>5. ControlPlan # <<>>
  BY <1>1
<1> QED
  BY <1>1, <1>3, <1>4, <1>5

LEMMA PurgePlanOK ==
    ASSUME NEW j, Refines(j.kind, j.opt)
    PROVE  LET s == <<"purge", "reread", "rewrite">> IN
           s \in Seq(Stages) /\ s # <<>> /\ InOrder(s) /\ ForRefiners(s, j)
<1> DEFINE s == <<"purge", "reread", "rewrite">>
<1>1. s \in Seq(Stages) /\ Len(s) = 3 /\ s[1] = "purge" /\ s[2] = "reread" /\ s[3] = "rewrite"
      /\ s # <<>>
  BY DEF Stages
<1> HIDE DEF s
<1>2. \A i \in 1..3 : i = 1 \/ i = 2 \/ i = 3
  OBVIOUS
<1>3. InOrder(s)
  <2> SUFFICES ASSUME NEW i \in 1..Len(s)
               PROVE  /\ s[i] \notin {"launch", "select", "run"}
                      /\ s[i] = "rewrite" => i > 1 /\ s[i-1] = "reread"
    BY DEF InOrder
  <2>1. i = 1 \/ i = 2 \/ i = 3
    BY <1>1, <1>2
  <2>2. i = 3 => i - 1 = 2
    OBVIOUS
  <2> QED
    BY <1>1, <2>1, <2>2
<1>4. ForRefiners(s, j)
  BY DEF ForRefiners
<1> QED
  BY <1>1, <1>3, <1>4 DEF s

LEMMA TerminatePlanOK ==
    ASSUME NEW j, Refines(j.kind, j.opt)
    PROVE  LET s == <<"status", "refine", "terminate", "try">> IN
           s \in Seq(Stages) /\ s # <<>> /\ InOrder(s) /\ ForRefiners(s, j)
<1> DEFINE s == <<"status", "refine", "terminate", "try">>
<1>1. s \in Seq(Stages) /\ Len(s) = 4
      /\ s[1] = "status" /\ s[2] = "refine" /\ s[3] = "terminate" /\ s[4] = "try" /\ s # <<>>
  BY DEF Stages
<1> HIDE DEF s
<1>2. \A i \in 1..4 : i = 1 \/ i = 2 \/ i = 3 \/ i = 4
  OBVIOUS
<1>3. InOrder(s) /\ ForRefiners(s, j)
  BY <1>1, <1>2 DEF InOrder, ForRefiners
<1> QED
  BY <1>1, <1>3 DEF s

\* What a request is planned to do.
LEMMA PlanOfOK ==
    ASSUME NEW k \in {"status", "control", "vm", "refine", "drop", "delete"}, NEW opt, NEW j,
           j.kind = k, j.opt = opt
    PROVE  /\ PlanOf(k, opt) \in Seq(Stages) /\ PlanOf(k, opt) # <<>>
           /\ InOrder(PlanOf(k, opt)) /\ ForRefiners(PlanOf(k, opt), j)
<1>1. CASE k = "status"
  <2> DEFINE s == <<"status">>
  <2>1. PlanOf(k, opt) = s
    BY <1>1 DEF PlanOf
  <2>2. s \in Seq(Stages) /\ Len(s) = 1 /\ s[1] = "status" /\ s # <<>>
    BY DEF Stages
  <2> HIDE DEF s
  <2>3. \A i \in 1..1 : i = 1
    OBVIOUS
  <2>4. InOrder(s) /\ ForRefiners(s, j)
    BY <2>2, <2>3 DEF InOrder, ForRefiners, RefineStages
  <2> QED
    BY <2>1, <2>2, <2>4
<1>2. CASE k = "control"
  BY <1>2, PlansOK DEF PlanOf
<1>3. CASE k = "vm"
  <2> DEFINE s == <<"status", "vmGuard", "runOne">>
  <2>1. PlanOf(k, opt) = s
    BY <1>3 DEF PlanOf
  <2>2. s \in Seq(Stages) /\ Len(s) = 3
        /\ s[1] = "status" /\ s[2] = "vmGuard" /\ s[3] = "runOne" /\ s # <<>>
    BY DEF Stages
  <2> HIDE DEF s
  <2>3. \A i \in 1..3 : i = 1 \/ i = 2 \/ i = 3
    OBVIOUS
  <2>4. InOrder(s) /\ ForRefiners(s, j)
    BY <2>2, <2>3 DEF InOrder, ForRefiners, RefineStages
  <2> QED
    BY <2>1, <2>2, <2>4
<1>4. CASE k = "refine"
  <2> DEFINE s == <<"status", "refine">>
  <2>1. PlanOf(k, opt) = s
    BY <1>4 DEF PlanOf
  <2>2. s \in Seq(Stages) /\ Len(s) = 2 /\ s[1] = "status" /\ s[2] = "refine" /\ s # <<>>
    BY DEF Stages
  <2> HIDE DEF s
  <2>3. \A i \in 1..2 : i = 1 \/ i = 2
    OBVIOUS
  <2>4. Refines(j.kind, j.opt)
    BY <1>4 DEF Refines
  <2>5. InOrder(s) /\ ForRefiners(s, j)
    BY <2>2, <2>3, <2>4 DEF InOrder, ForRefiners
  <2> QED
    BY <2>1, <2>2, <2>5
<1>5. CASE k = "drop" /\ opt = "force"
  <2> DEFINE s == <<"dropVm">>
  <2>1. PlanOf(k, opt) = s
    BY <1>5 DEF PlanOf
  <2>2. s \in Seq(Stages) /\ Len(s) = 1 /\ s[1] = "dropVm" /\ s # <<>>
    BY DEF Stages
  <2> HIDE DEF s
  <2>3. \A i \in 1..1 : i = 1
    OBVIOUS
  <2>4. InOrder(s) /\ ForRefiners(s, j)
    BY <2>2, <2>3 DEF InOrder, ForRefiners, RefineStages
  <2> QED
    BY <2>1, <2>2, <2>4
<1>6. CASE k = "drop" /\ opt # "force"
  <2> DEFINE s == <<"status", "vmGuard", "runOne", "dropVm">>
  <2>1. PlanOf(k, opt) = s
    BY <1>6 DEF PlanOf
  <2>2. s \in Seq(Stages) /\ Len(s) = 4
        /\ s[1] = "status" /\ s[2] = "vmGuard" /\ s[3] = "runOne" /\ s[4] = "dropVm" /\ s # <<>>
    BY DEF Stages
  <2> HIDE DEF s
  <2>3. \A i \in 1..4 : i = 1 \/ i = 2 \/ i = 3 \/ i = 4
    OBVIOUS
  <2>4. InOrder(s) /\ ForRefiners(s, j)
    BY <2>2, <2>3 DEF InOrder, ForRefiners, RefineStages
  <2> QED
    BY <2>1, <2>2, <2>4
<1>7. CASE k = "delete"
  <2> DEFINE s == <<"status", "try", "advance", "check", "dropAll", "dropMci">>
  <2>1. PlanOf(k, opt) = s
    BY <1>7 DEF PlanOf
  <2>2. s \in Seq(Stages) /\ Len(s) = 6
        /\ s[1] = "status" /\ s[2] = "try" /\ s[3] = "advance"
        /\ s[4] = "check" /\ s[5] = "dropAll" /\ s[6] = "dropMci" /\ s # <<>>
    BY DEF Stages
  <2> HIDE DEF s
  <2>3. \A i \in 1..6 : i = 1 \/ i = 2 \/ i = 3 \/ i = 4 \/ i = 5 \/ i = 6
    OBVIOUS
  <2>4. InOrder(s) /\ ForRefiners(s, j)
    BY <2>2, <2>3 DEF InOrder, ForRefiners, RefineStages
  <2> QED
    BY <2>1, <2>2, <2>4
<1> QED
  BY <1>1, <1>2, <1>3, <1>4, <1>5, <1>6, <1>7

\* The job of a new request.
NewJob(k, a, opt, V) ==
    Then([Idle EXCEPT !.kind = k, !.act = a, !.opt = opt, !.target = V], PlanOf(k, opt))

LEMMA NewJobOK ==
    ASSUME NEW k \in Kinds, NEW a \in Controls, NEW opt \in {"none", "force", "terminate"},
           NEW V \in SUBSET Vms
    PROVE  LET j == NewJob(k, a, opt, V) IN
           JobOK(j) /\ j.pc \notin {"idle", "rewrite"} /\ j.kind = k /\ j.opt = opt
<1> DEFINE b == [Idle EXCEPT !.kind = k, !.act = a, !.opt = opt, !.target = V]
           g == [b EXCEPT !.pc = "guard"]
           s == PlanOf(k, opt)
<1>1. g \in JobRecord /\ b \in JobRecord
  <2>1. b \in JobRecord
    BY IdleType DEF JobRecord
  <2>2. "guard" \in Labels
    BY DEF Labels, Stages
  <2> HIDE DEF b
  <2>3. [b EXCEPT !.pc = "guard"] \in JobRecord
    BY <2>1, <2>2 DEF JobRecord
  <2> QED
    BY <2>1, <2>3
<1>2. g.pc = "guard" /\ g.rest = <<>> /\ g.kind = k /\ g.opt = opt /\ g.act = a
  BY IdleType DEF JobRecord, Idle
<1>3. JobOK(g)
  BY <1>1, <1>2 DEF JobOK, Linked, OnlyRefiners, Stage, RefineStages
<1> HIDE DEF g
<1>4. s \in Seq(Stages) /\ s # <<>> /\ InOrder(s) /\ ForRefiners(s, g)
  BY <1>2, PlanOfOK, MciAssumption DEF MciAssumption
<1> HIDE DEF s
<1>5. Onward(g, Then(g, s)) /\ Then(g, s).pc \notin {"idle", "rewrite"}
  BY <1>2, <1>3, <1>4, ThenOK DEF Splits
<1>6. Then(b, s) = Then(g, s)
  <2> DEFINE t == s \o <<>>
  <2>1. b.rest = <<>> /\ g.rest = <<>>
    BY <1>2 DEF Idle
  <2>2. t # <<>>
    BY <1>4
  <2>3. Then(b, s) = [[b EXCEPT !.rest = t] EXCEPT !.pc = Head(t), !.rest = Tail(t)]
    BY <2>1, <2>2, <1>1 DEF Then, Proceed, JobRecord
  <2>4. Then(g, s) = [[g EXCEPT !.rest = t] EXCEPT !.pc = Head(t), !.rest = Tail(t)]
    BY <2>1, <2>2, <1>1 DEF Then, Proceed, JobRecord
  <2> HIDE DEF t
  <2>5. g = [b EXCEPT !.pc = "guard"]
    BY DEF g
  <2> HIDE DEF b
  <2> QED
    BY <2>3, <2>4, <2>5, <1>1 DEF JobRecord
<1> QED
  BY <1>2, <1>5, <1>6 DEF Onward, Ending, s, NewJob

-----------------------------------------------------------------------------
(* Parts of steps.                                                         *)

StateOK == MciType /\ CountType /\ Gone

\* Client c goes on with its request.
Move(c) == \E k : Set(c, k) /\ Onward(job[c], k)

\* The action of the MCI stays, or is cleared.
NoNewAction == mci'.action \in {mci.action, "None"}

LEMMA OnwardTrans ==
    ASSUME NEW j, NEW k, NEW l, Onward(j, k), Onward(k, l), k.pc = "idle" => l.pc = "idle"
    PROVE  Onward(j, l)
BY DEF Onward, Ending

LEMMA PlacedOK ==
    ASSUME NEW j, JobOK(j), j.pc \notin {"reread", "complete"}, NEW V, NEW p \in Places
    PROVE  /\ Onward(j, Place(Proceed(j), V, p))
           /\ j.rest # <<>> => Place(Proceed(j), V, p).pc = j.rest[1]
<1>1. /\ Onward(j, Proceed(j))
      /\ j.rest # <<>> => Proceed(j).pc = j.rest[1]
  BY ProceedOK
<1>2. JobOK(Proceed(j))
  BY <1>1 DEF Onward, Ending
<1>3. /\ Onward(Proceed(j), Place(Proceed(j), V, p))
      /\ Place(Proceed(j), V, p).pc = Proceed(j).pc
  BY <1>2, PlaceOK
<1> QED
  BY <1>1, <1>3, OnwardTrans

\* What a request has read.
Reading(j, r, f) == [j EXCEPT !.read = r, !.seen = f]

LEMMA ReadOK ==
    ASSUME NEW j, JobOK(j), NEW r \in Controls \cup {"None", "error"}, NEW f \in SeenMaps,
           j.pc # "rewrite"
    PROVE  Onward(j, Reading(j, r, f)) /\ Reading(j, r, f).pc = j.pc
<1> DEFINE k == Reading(j, r, f)
<1>1. j \in JobRecord
  BY DEF JobOK
<1>2. k \in JobRecord /\ k.pc = j.pc /\ k.rest = j.rest /\ k.kind = j.kind /\ k.opt = j.opt
      /\ k.act = j.act /\ k.read = r
  BY <1>1 DEF JobRecord, Reading
<1> HIDE DEF k
<1>3. Linked(k) /\ OnlyRefiners(k)
  BY <1>2 DEF JobOK, Linked, OnlyRefiners, Stage
<1>4. Onward(j, k)
  BY <1>2, <1>3 DEF JobOK, Onward, Ending
<1> QED
  BY <1>2, <1>4 DEF k

LEMMA FetchingOK ==
    ASSUME NEW j, JobOK(j), j.pc \in {"status", "try"}
    PROVE  Onward(j, [j EXCEPT !.pc = "fetch"])
<1> DEFINE k == [j EXCEPT !.pc = "fetch"]
<1>1. j \in JobRecord /\ "fetch" \in Labels
  BY DEF JobOK, Labels
<1>2. k \in JobRecord /\ k.pc = "fetch" /\ k.rest = j.rest /\ k.kind = j.kind /\ k.opt = j.opt
      /\ k.act = j.act /\ k.read = j.read
  BY <1>1 DEF JobRecord
<1> HIDE DEF k
<1>3. Len(j.rest) \in Nat
  BY <1>1 DEF JobRecord
<1>4. \A i \in 0..Len(k.rest) : i > 0 => Stage(k, i) = Stage(j, i)
  BY <1>2, <1>3 DEF Stage
<1>5. Stage(k, 0) = "fetch" /\ Stage(j, 0) \in {"status", "try"}
  BY <1>2 DEF Stage
<1>6. Linked(k)
  <2> SUFFICES ASSUME NEW i \in 0..Len(k.rest)
               PROVE  /\ Stage(k, i) = "launch" => i < Len(k.rest) /\ k.rest[i+1] = "select"
                      /\ Stage(k, i) = "select" => i < Len(k.rest) /\ k.rest[i+1] = "run"
                      /\ Stage(k, i) = "run" => i < Len(k.rest) /\ k.rest[i+1] = "complete"
                      /\ i > 0 /\ Stage(k, i) = "rewrite" => Stage(k, i-1) = "reread"
    BY DEF Linked
  <2>1. CASE i = 0
    BY <2>1, <1>5
  <2>2. CASE i > 0
    <3>1. /\ Stage(j, i) = "launch" => i < Len(j.rest) /\ j.rest[i+1] = "select"
          /\ Stage(j, i) = "select" => i < Len(j.rest) /\ j.rest[i+1] = "run"
          /\ Stage(j, i) = "run" => i < Len(j.rest) /\ j.rest[i+1] = "complete"
          /\ Stage(j, i) = "rewrite" => Stage(j, i-1) = "reread"
      BY <2>2, <1>2 DEF JobOK, Linked
    <3>2. Stage(j, i) = Stage(k, i) /\ k.rest = j.rest
      BY <2>2, <1>2, <1>4
    <3>3. Stage(j, i-1) = "reread" => Stage(k, i-1) = "reread"
      <4>1. CASE i = 1
        BY <4>1, <1>5
      <4>2. CASE i > 1
        <5>1. i - 1 \in 0..Len(k.rest) /\ i - 1 > 0
          BY <4>2, <1>2, <1>3
        <5> QED
          BY <5>1, <1>4
      <4> QED
        BY <2>2, <1>2, <1>3, <4>1, <4>2
    <3> QED
      BY <3>1, <3>2, <3>3
  <2> QED
    BY <1>2, <1>3, <2>1, <2>2
<1>7. OnlyRefiners(k)
  <2> SUFFICES ASSUME NEW i \in 0..Len(k.rest), Stage(k, i) \in RefineStages
               PROVE  Refines(k.kind, k.opt)
    BY DEF OnlyRefiners
  <2>1. i > 0
    BY <1>5, <1>2, <1>3 DEF RefineStages
  <2> QED
    BY <2>1, <1>2, <1>4 DEF JobOK, OnlyRefiners
<1>8. Onward(j, k)
  BY <1>2, <1>6, <1>7 DEF JobOK, Onward, Ending, Busy
<1> QED
  BY <1>8 DEF k

LEMMA UpdateOK ==
    ASSUME StateOK, NEW a \in Controls \cup {"None"}, UpdateMciInfo(a)
    PROVE  /\ mci' \in [there : BOOLEAN, action : Controls \cup {"None"}]
           /\ Gone'
           /\ mci'.action \in {mci.action, a}
BY DEF StateOK, MciType, UpdateMciInfo, Gone

LEMMA FetchOK ==
    ASSUME StateOK, NEW v \in Vms, NEW s \in Statuses, FetchVmStatus(v, s)
    PROVE  vm' \in [Vms -> VmRecord] /\ faults' \in 0..MaxFaults
<1>1. vm \in [Vms -> VmRecord] /\ csp[v] \in CspStates /\ faults \in 0..MaxFaults
      /\ MaxFaults \in Nat
  BY MciAssumption DEF StateOK, MciType, CountType, MciAssumption
<1>2. faults' \in 0..MaxFaults
  BY <1>1 DEF FetchVmStatus, Fault
<1>3. vm' = vm \/ \E n \in Reports(csp[v]) \cup {"Undefined"} :
                       vm' = [vm EXCEPT ![v] = Refreshed(vm[v], n)]
  BY DEF FetchVmStatus
<1>4. Reports(csp[v]) \cup {"Undefined"} \subseteq Statuses
  BY <1>1, ReportsType DEF Statuses, Stable
<1>5. \A n \in Statuses : Refreshed(vm[v], n) \in VmRecord
  BY <1>1, RefreshedType
<1> QED
  BY <1>1, <1>2, <1>3, <1>4, <1>5

LEMMA SteadyOK ==
    ASSUME StateOK, UNCHANGED <<mci, vm, csp, requests, faults>>
    PROVE  StateOK' /\ NoNewAction
BY DEF StateOK, MciType, CountType, Gone, NoNewAction

LEMMA ReadingIs ==
    ASSUME NEW j \in JobRecord, NEW r, NEW f
    PROVE  /\ [j EXCEPT !.read = r] = Reading(j, r, j.seen)
           /\ [j EXCEPT !.seen = f] = Reading(j, j.read, f)
BY DEF Reading, JobRecord

LEMMA JustReadOK ==
    ASSUME NEW j, JobOK(j), NEW r \in Controls \cup {"None", "error"},
           j.pc # "rewrite"
    PROVE  /\ Onward(j, [j EXCEPT !.read = r])
           /\ [j EXCEPT !.read = r].pc = j.pc
<1>1. j \in JobRecord /\ j.seen \in SeenMaps
  BY DEF JobOK, JobRecord
<1>2. [j EXCEPT !.read = r] = Reading(j, r, j.seen)
  BY <1>1, ReadingIs
<1> HIDE DEF Reading
<1> QED
  BY <1>1, <1>2, ReadOK

-----------------------------------------------------------------------------
(* One lemma per action.                                                   *)

LEMMA StatusReadOK ==
    ASSUME TypeInv, NEW c \in Clients, StatusRead(c)
    PROVE  StateOK' /\ Move(c) /\ NoNewAction
<1> DEFINE i == job[c]
           j == [i EXCEPT !.read = mci.action, !.seen = Unseen]
           e == [j EXCEPT !.read = "error"]
           p == Place(j, Listed, "fetch")
<1>1. JobOK(i) /\ i \in JobRecord /\ i.pc \in {"status", "try"} /\ StateOK
      /\ mci.action \in Controls \cup {"None"}
  BY DEF TypeInv, JobsOK, JobOK, StatusRead, StateOK, MciType
<1>2. Onward(i, j) /\ j.pc = i.pc /\ JobOK(j)
  <2>1. j = Reading(i, mci.action, Unseen)
    BY DEF Reading
  <2> HIDE DEF j
  <2>2. Onward(i, Reading(i, mci.action, Unseen)) /\ Reading(i, mci.action, Unseen).pc = i.pc
    BY <1>1, UnseenType, ReadOK
  <2> QED
    BY <2>1, <2>2 DEF Onward, Ending
<1>3. Onward(i, Idle)
  BY <1>1, IdleEnds DEF Busy
<1>4. Onward(i, Proceed(j))
  <2>1. Onward(j, Proceed(j))
    BY <1>1, <1>2, ProceedOK
  <2> QED
    BY <1>1, <1>2, <2>1, OnwardTrans
<1>5. Onward(i, Proceed(e))
  <2>1. Onward(j, e) /\ e.pc = j.pc
    BY <1>1, <1>2, JustReadOK
  <2>2. Onward(e, Proceed(e))
    BY <1>1, <1>2, <2>1, ProceedOK DEF Onward, Ending
  <2>3. Onward(i, e)
    BY <1>1, <1>2, <2>1, OnwardTrans
  <2> QED
    BY <1>1, <1>2, <2>1, <2>2, <2>3, OnwardTrans
<1>6. Onward(i, [p EXCEPT !.pc = "fetch"])
  <2> HIDE DEF j
  <2>1. Onward(j, p) /\ p.pc = j.pc /\ JobOK(p)
    BY <1>2, PlaceOK DEF Places, Onward, Ending
  <2>2. Onward(p, [p EXCEPT !.pc = "fetch"])
    BY <1>1, <1>2, <2>1, FetchingOK
  <2>3. Onward(i, p)
    BY <1>1, <1>2, <2>1, OnwardTrans
  <2> QED
    BY <1>1, <1>2, <2>1, <2>2, <2>3, OnwardTrans
<1>7. \E k \in {Idle, Proceed(e), Proceed(j), [p EXCEPT !.pc = "fetch"]} : Set(c, k)
  BY DEF StatusRead
<1>8. Move(c)
  BY <1>3, <1>4, <1>5, <1>6, <1>7 DEF Move
<1> QED
  BY <1>1, <1>8, SteadyOK DEF StatusRead

LEMMA StatusFetchOK ==
    ASSUME TypeInv, NEW c \in Clients, NEW v \in Vms, StatusFetch(c, v)
    PROVE  StateOK' /\ Move(c) /\ NoNewAction
<1> DEFINE i == job[c]
           p == Place(i, {v}, "out")
<1>1. JobOK(i) /\ i.pc = "fetch" /\ StateOK
  BY DEF TypeInv, JobsOK, StatusFetch, StateOK
<1>2. PICK s \in Statuses : FetchVmStatus(v, s) /\ Set(c, [p EXCEPT !.seen = Seen(@, v, s)])
  BY DEF StatusFetch
<1>3. Onward(i, p) /\ JobOK(p) /\ p.pc = "fetch"
  BY <1>1, PlaceOK DEF Places, Onward, Ending
<1> HIDE DEF p
<1>4. Seen(p.seen, v, s) \in SeenMaps
  BY <1>3, SeenType DEF JobOK, JobRecord
<1>5. Onward(p, [p EXCEPT !.seen = Seen(p.seen, v, s)])
  <2>1. p \in JobRecord /\ p.read \in Controls \cup {"None", "error"}
    BY <1>3 DEF JobOK, JobRecord
  <2>2. [p EXCEPT !.seen = Seen(p.seen, v, s)] = Reading(p, p.read, Seen(p.seen, v, s))
    BY <2>1, ReadingIs
  <2> QED
    BY <1>3, <1>4, <2>1, <2>2, ReadOK
<1>6. Onward(i, [p EXCEPT !.seen = Seen(p.seen, v, s)])
  BY <1>3, <1>5, OnwardTrans
<1>7. Move(c)
  BY <1>2, <1>6 DEF Move
<1>8. vm' \in [Vms -> VmRecord] /\ faults' \in 0..MaxFaults
  BY <1>1, <1>2, FetchOK
<1>9. mci' = mci /\ csp' = csp /\ requests' = requests
  BY DEF StatusFetch
<1> QED
  BY <1>1, <1>7, <1>8, <1>9 DEF StateOK, MciType, CountType, Gone, NoNewAction

LEMMA StatusEndOK ==
    ASSUME TypeInv, NEW c \in Clients, StatusEnd(c)
    PROVE  StateOK' /\ Move(c) /\ NoNewAction
<1> DEFINE i == job[c]
           n == [i EXCEPT !.read = "None"]
<1>1. JobOK(i) /\ i.pc = "fetch" /\ StateOK
  BY DEF TypeInv, JobsOK, StatusEnd, StateOK
<1>2. Onward(i, Proceed(i))
  BY <1>1, ProceedOK
<1>3. Onward(i, n) /\ n.pc = i.pc /\ JobOK(n)
  BY <1>1, JustReadOK DEF Onward, Ending
<1>4. Onward(n, Proceed(n))
  BY <1>1, <1>3, ProceedOK
<1>5. Onward(i, Proceed(n))
  BY <1>1, <1>3, <1>4, OnwardTrans
<1>6. Set(c, Proceed(n)) \/ Set(c, Proceed(i))
  BY DEF StatusEnd
<1>7. Move(c)
  BY <1>2, <1>5, <1>6 DEF Move
<1>8. UpdateMciInfo("None") \/ mci' = mci
  BY DEF StatusEnd
<1>9. /\ mci' \in [there : BOOLEAN, action : Controls \cup {"None"}]
      /\ Gone' /\ NoNewAction
  BY <1>1, <1>8, UpdateOK DEF StateOK, MciType, Gone, NoNewAction
<1>10. vm' = vm /\ csp' = csp /\ requests' = requests /\ faults' = faults
  BY DEF StatusEnd
<1> QED
  BY <1>1, <1>7, <1>9, <1>10 DEF StateOK, MciType, CountType

LEMMA GuardsOK ==
    ASSUME TypeInv, NEW c \in Clients,
           ControlGuard(c) \/ VmGuard(c) \/ DelMciCheck(c)
    PROVE  StateOK' /\ Move(c) /\ NoNewAction
<1> DEFINE i == job[c]
<1>1. JobOK(i) /\ i.pc \in {"guard", "vmGuard", "check"} /\ StateOK
  BY DEF TypeInv, JobsOK, ControlGuard, VmGuard, DelMciCheck, StateOK
<1>2. Onward(i, Idle)
  BY <1>1, IdleEnds DEF Busy
<1>3. Onward(i, Proceed(i))
  BY <1>1, ProceedOK
<1>4. /\ Onward(i, Place(Proceed(i), i.target, "start"))
      /\ Onward(i, Place(Proceed(i), Listed, "drop"))
  BY <1>1, PlacedOK DEF Places
<1>5. \E k \in {Idle, Proceed(i), Place(Proceed(i), i.target, "start"),
                 Place(Proceed(i), Listed, "drop")} : Set(c, k)
  BY DEF ControlGuard, VmGuard, DelMciCheck
<1>6. Move(c)
  BY <1>2, <1>3, <1>4, <1>5 DEF Move
<1> QED
  BY <1>1, <1>6, SteadyOK DEF ControlGuard, VmGuard, DelMciCheck

\* The only step that records an action, and the request goes on to carry it out.
LEMMA ControlLaunchOK ==
    ASSUME TypeInv, NEW c \in Clients, ControlLaunch(c)
    PROVE  /\ StateOK' /\ Move(c)
           /\ NoNewAction \/ job'[c].pc = "select"
<1> DEFINE i == job[c]
           k == Place(Proceed(i), Listed, "check")
<1>1. JobOK(i) /\ i.pc = "launch" /\ StateOK /\ job \in [Clients -> JobRecord]
      /\ i \in JobRecord /\ i.act \in Controls
  BY DEF TypeInv, JobsOK, ControlLaunch, StateOK, JobOK
<1>2. Onward(i, Idle)
  BY <1>1, IdleEnds DEF Busy
<1>3. i.rest # <<>> /\ i.rest[1] = "select"
  <2>1. Len(i.rest) \in Nat
    BY <1>1 DEF JobRecord
  <2>2. Stage(i, 0) = "launch" /\ 0 \in 0..Len(i.rest)
    BY <1>1, <2>1 DEF Stage
  <2> QED
    BY <2>1, <2>2, <1>1 DEF JobOK, Linked
<1>4. Onward(i, k) /\ k.pc = "select"
  BY <1>1, <1>3, PlacedOK DEF Places
<1> HIDE DEF k
<1>5. \/ UpdateMciInfo(i.act) /\ Set(c, k)
      \/ mci' = mci /\ Set(c, Idle)
  BY DEF ControlLaunch, k
<1>6. Move(c)
  BY <1>2, <1>4, <1>5 DEF Move
<1>7. /\ mci' \in [there : BOOLEAN, action : Controls \cup {"None"}]
      /\ Gone'
  BY <1>1, <1>5, UpdateOK DEF StateOK, MciType, Gone
<1>8. vm' = vm /\ csp' = csp /\ requests' = requests /\ faults' = faults
  BY DEF ControlLaunch
<1>9. NoNewAction \/ job'[c].pc = "select"
  BY <1>1, <1>4, <1>5 DEF NoNewAction, Set
<1> QED
  BY <1>1, <1>6, <1>7, <1>8, <1>9 DEF StateOK, MciType, CountType

LEMMA ControlSelectOK ==
    ASSUME TypeInv, NEW c \in Clients,
           ControlSelected(c) \/ ControlEnd(c) \/ \E v \in Vms : ControlSelect(c, v)
    PROVE  StateOK' /\ Move(c) /\ NoNewAction
<1> DEFINE i == job[c]
<1>1. JobOK(i) /\ i.pc \in {"select", "run", "runOne"} /\ StateOK
  BY DEF TypeInv, JobsOK, ControlSelected, ControlEnd, ControlSelect, Running, StateOK
<1>2. Onward(i, Proceed(i))
  BY <1>1, ProceedOK
<1>3. \A v \in Vms : Onward(i, Place(i, {v}, "start")) /\ Onward(i, Place(i, {v}, "out"))
  BY <1>1, PlaceOK DEF Places
<1>4. \/ Set(c, Proceed(i))
      \/ \E v \in Vms : Set(c, Place(i, {v}, "start")) \/ Set(c, Place(i, {v}, "out"))
  BY DEF ControlSelected, ControlEnd, ControlSelect
<1>5. Move(c)
  BY <1>2, <1>3, <1>4 DEF Move
<1> QED
  BY <1>1, <1>5, SteadyOK DEF ControlSelected, ControlEnd, ControlSelect

\* The only step that ends the carrying out of an action.
LEMMA ControlCompleteOK ==
    ASSUME TypeInv, NEW c \in Clients, ControlComplete(c)
    PROVE  /\ StateOK' /\ NoNewAction
           /\ mci'.action = "None"
           /\ \E k : Set(c, k) /\ Ending(job[c], k) /\ k.pc # "rewrite"
<1>1. JobOK(job[c]) /\ job[c].pc = "complete" /\ StateOK
  BY DEF TypeInv, JobsOK, ControlComplete, StateOK
<1>2. Ending(job[c], Proceed(job[c])) /\ Proceed(job[c]).pc # "rewrite"
  BY <1>1, ProceedOK
<1>3. UpdateMciInfo("None") /\ Set(c, Proceed(job[c]))
      /\ vm' = vm /\ csp' = csp /\ requests' = requests /\ faults' = faults
  BY DEF ControlComplete
<1>4. /\ mci' \in [there : BOOLEAN, action : Controls \cup {"None"}]
      /\ Gone' /\ NoNewAction
  BY <1>1, <1>3, UpdateOK DEF NoNewAction
<1>5. mci'.action = "None"
  BY <1>1, <1>3 DEF UpdateMciInfo, StateOK, MciType, Gone
<1> QED
  BY <1>1, <1>2, <1>3, <1>4, <1>5 DEF StateOK, MciType, CountType

LEMMA ErrorOK ==
    ASSUME NEW j, JobOK(j), j.pc \in {"run", "runOne"}, NEW v
    PROVE  Onward(j, Error(j, v))
<1>1. Onward(j, Place(j, {v}, "out"))
  BY PlaceOK DEF Places
<1>2. j.pc = "runOne" => Onward(j, Idle)
  BY IdleEnds DEF Busy
<1> QED
  BY <1>1, <1>2 DEF Error

LEMMA ControlVmOK ==
    ASSUME TypeInv, NEW c \in Clients, NEW v \in Vms, ControlVm(c, v)
    PROVE  StateOK' /\ Move(c) /\ NoNewAction
<1> DEFINE i == job[c]
<1>1. JobOK(i) /\ i.pc \in {"run", "runOne"} /\ StateOK /\ i.act \in Controls
  BY DEF TypeInv, JobsOK, ControlVm, ControlStart, ControlCall, ControlFollow, Running, StateOK,
         JobOK
<1>2. Onward(i, Error(i, v))
  BY <1>1, ErrorOK
<1>3. /\ Onward(i, Place(i, {v}, "out")) /\ Onward(i, Place(i, {v}, "call"))
      /\ Onward(i, Place(i, {v}, "follow"))
  BY <1>1, PlaceOK DEF Places
<1>4. \E k \in {Error(i, v), Place(i, {v}, "out"), Place(i, {v}, "call"),
                 Place(i, {v}, "follow")} : Set(c, k)
  BY DEF ControlVm, ControlStart, ControlCall, ControlFollow
<1>5. Move(c)
  BY <1>2, <1>3, <1>4 DEF Move
<1>6. mci' = mci /\ requests' = requests
  BY DEF ControlVm, ControlStart, ControlCall, ControlFollow
<1>7. vm' \in [Vms -> VmRecord] /\ csp' \in [Vms -> CspStates] /\ faults' \in 0..MaxFaults
  <2>1. CASE ControlStart(c, v)
    <3>1. vm' = vm \/ vm' = [vm EXCEPT ![v] = Intent(vm[v], i.act)]
      BY <2>1 DEF ControlStart
    <3>2. Intent(vm[v], i.act) \in VmRecord
      BY <1>1, IntentType DEF StateOK, MciType
    <3> QED
      BY <1>1, <2>1, <3>1, <3>2 DEF ControlStart, StateOK, MciType, CountType
  <2>2. CASE ControlCall(c, v)
    <3>1. vm' = vm /\ (csp' = csp \/ csp' = [csp EXCEPT ![v] = During(i.act)])
          /\ (faults' = faults \/ Fault)
      BY <2>2 DEF ControlCall
    <3>2. During(i.act) \in CspStates
      BY <1>1, DuringType
    <3>3. faults' \in 0..MaxFaults
      BY <1>1, <3>1, MciAssumption DEF Fault, StateOK, CountType, MciAssumption
    <3> QED
      BY <1>1, <3>1, <3>2, <3>3 DEF StateOK, MciType
  <2>3. CASE ControlFollow(c, v)
    <3>1. PICK s \in Statuses : FetchVmStatus(v, s)
      BY <2>3 DEF ControlFollow
    <3>2. csp' = csp
      BY <2>3 DEF ControlFollow
    <3> QED
      BY <1>1, <3>1, <3>2, FetchOK DEF StateOK, MciType
  <2> QED
    BY <2>1, <2>2, <2>3 DEF ControlVm
<1> QED
  BY <1>1, <1>5, <1>6, <1>7 DEF StateOK, MciType, CountType, Gone, NoNewAction

LEMMA DropsOK ==
    ASSUME TypeInv, NEW c \in Clients,
           DropVm(c) \/ DropEnd(c) \/ \E v \in Vms : DropNext(c, v)
    PROVE  StateOK' /\ Move(c) /\ NoNewAction
<1> DEFINE i == job[c]
<1>1. JobOK(i) /\ i.pc \in {"dropVm", "purge", "dropAll"} /\ StateOK
  BY DEF TypeInv, JobsOK, DropVm, DropEnd, DropNext, StateOK
<1>2. Onward(i, Proceed(i)) /\ Onward(i, Idle)
  BY <1>1, ProceedOK, IdleEnds DEF Busy
<1>3. \A v \in Vms : Onward(i, Place(i, {v}, "out"))
  BY <1>1, PlaceOK DEF Places
<1>4. Set(c, Proceed(i)) \/ Set(c, Idle) \/ \E v \in Vms : Set(c, Place(i, {v}, "out"))
  BY DEF DropVm, DropEnd, DropNext
<1>5. Move(c)
  BY <1>2, <1>3, <1>4 DEF Move
<1>6. mci' = mci /\ csp' = csp /\ requests' = requests /\ faults' = faults
  BY DEF DropVm, DropEnd, DropNext
<1>7. vm' \in [Vms -> VmRecord]
  <2>1. vm \in [Vms -> VmRecord]
    BY <1>1 DEF StateOK, MciType
  <2>2. \A v \in Vms : [vm[v] EXCEPT !.there = FALSE] \in VmRecord
    BY <2>1 DEF VmRecord
  <2>3. CASE DropVm(c)
    BY <2>1, <2>2, <2>3 DEF DropVm
  <2>4. CASE DropEnd(c)
    BY <2>1, <2>4 DEF DropEnd
  <2>5. CASE \E v \in Vms : DropNext(c, v)
    <3>1. vm' = vm \/ \E v \in Vms : vm' = [vm EXCEPT ![v] = [vm[v] EXCEPT !.there = FALSE]]
      BY <2>1, <2>5 DEF DropNext, Drop
    <3> QED
      BY <2>1, <2>2, <3>1
  <2> QED
    BY <2>3, <2>4, <2>5
<1> QED
  BY <1>1, <1>5, <1>6, <1>7 DEF StateOK, MciType, CountType, Gone, NoNewAction

LEMMA DelMciLastOK ==
    ASSUME TypeInv, NEW c \in Clients, DelMciLast(c)
    PROVE  StateOK' /\ Move(c) /\ NoNewAction
<1>1. JobOK(job[c]) /\ job[c].pc = "dropMci" /\ StateOK
  BY DEF TypeInv, JobsOK, DelMciLast, StateOK
<1>2. Onward(job[c], Proceed(job[c]))
  BY <1>1, ProceedOK
<1>3. Move(c)
  BY <1>2 DEF Move, DelMciLast
<1> QED
  BY <1>1, <1>3 DEF DelMciLast, StateOK, MciType, CountType, Gone, NoNewAction

LEMMA RefineOK ==
    ASSUME TypeInv, NEW c \in Clients, Refine(c)
    PROVE  StateOK' /\ Move(c) /\ NoNewAction
<1> DEFINE i == job[c]
           k == Then(i, <<"purge", "reread", "rewrite">>)
           V == Doomed(i.seen)
<1>1. JobOK(i) /\ i.pc = "refine" /\ StateOK /\ i \in JobRecord
  BY DEF TypeInv, JobsOK, Refine, StateOK, JobOK
<1>2. Refines(i.kind, i.opt)
  <2>1. 0 \in 0..Len(i.rest) /\ Stage(i, 0) \in RefineStages
    BY <1>1 DEF JobRecord, Stage, RefineStages
  <2> QED
    BY <1>1, <2>1 DEF JobOK, OnlyRefiners
<1>3. Onward(i, k) /\ k.pc # "idle" /\ JobOK(k)
  BY <1>1, <1>2, PurgePlanOK, ThenOK DEF Splits, Onward, Ending
<1>4. Onward(i, Proceed(i))
  BY <1>1, ProceedOK
<1>5. Onward(i, Place(k, V, "drop"))
  <2> HIDE DEF k, V
  <2>1. Onward(k, Place(k, V, "drop"))
    BY <1>3, PlaceOK DEF Places
  <2> QED
    BY <1>3, <2>1, OnwardTrans
<1>6. Set(c, Proceed(i)) \/ Set(c, Place(k, V, "drop"))
  BY DEF Refine
<1>7. Move(c)
  BY <1>4, <1>5, <1>6 DEF Move
<1> QED
  BY <1>1, <1>7, SteadyOK DEF Refine

\* A record that was read is written back next.
LEMMA RefineReadOK ==
    ASSUME TypeInv, NEW c \in Clients, RefineRead(c)
    PROVE  /\ StateOK' /\ NoNewAction
           /\ job[c].pc = "reread"
           /\ \E k : /\ Set(c, k)
                     /\ Ending(job[c], k)
                     /\ k.pc = "rewrite" => k.read = mci.action
<1> DEFINE i == job[c]
           n == [i EXCEPT !.read = mci.action]
<1>1. JobOK(i) /\ i.pc = "reread" /\ StateOK /\ i \in JobRecord
      /\ mci.action \in Controls \cup {"None"}
  BY DEF TypeInv, JobsOK, RefineRead, StateOK, JobOK, MciType
<1>2. Onward(i, n) /\ n.pc = i.pc /\ n.read = mci.action /\ n.read # "error"
  <2>1. Onward(i, n) /\ n.pc = i.pc
    BY <1>1, JustReadOK
  <2>2. n.read = mci.action
    BY <1>1 DEF JobRecord
  <2> QED
    BY <1>1, <2>1, <2>2 DEF Controls
<1> HIDE DEF n
<1>3. /\ Ending(n, Proceed(n))
      /\ Proceed(n).pc # "idle" => Proceed(n).read = n.read
  BY <1>2, ProceedOK DEF Onward, Ending
<1>4. Ending(i, Proceed(n))
  BY <1>1, <1>2, <1>3 DEF Onward, Ending
<1>5. Set(c, Proceed(n))
  BY DEF RefineRead, n
<1> QED
  BY <1>1, <1>2, <1>3, <1>4, <1>5, SteadyOK DEF RefineRead

LEMMA RefineWriteOK ==
    ASSUME TypeInv, NEW c \in Clients, RefineWrite(c)
    PROVE  /\ StateOK' /\ Move(c)
           /\ job[c].pc = "rewrite" /\ mci'.action \in {mci.action, job[c].read}
<1> DEFINE i == job[c]
<1>1. JobOK(i) /\ i.pc = "rewrite" /\ StateOK /\ i.read \in Controls \cup {"None"}
  BY DEF TypeInv, JobsOK, RefineWrite, StateOK, JobOK, JobRecord
<1>2. Onward(i, Proceed(i))
  BY <1>1, ProceedOK
<1>3. UpdateMciInfo(i.read) /\ Set(c, Proceed(i))
      /\ vm' = vm /\ csp' = csp /\ requests' = requests /\ faults' = faults
  BY DEF RefineWrite
<1>4. /\ mci' \in [there : BOOLEAN, action : Controls \cup {"None"}]
      /\ Gone' /\ mci'.action \in {mci.action, i.read}
  BY <1>1, <1>3, UpdateOK
<1>5. Move(c)
  BY <1>2, <1>3 DEF Move
<1> QED
  BY <1>1, <1>3, <1>4, <1>5 DEF StateOK, MciType, CountType

LEMMA DelMciSplitOK ==
    ASSUME TypeInv, NEW c \in Clients, DelMciAdvance(c) \/ DelMciTerminate(c)
    PROVE  StateOK' /\ Move(c) /\ NoNewAction
<1> DEFINE i == job[c]
           k == Then(i, <<"status", "refine", "terminate", "try">>)
<1>1. JobOK(i) /\ i.pc \in {"advance", "terminate"} /\ StateOK
  BY DEF TypeInv, JobsOK, DelMciAdvance, DelMciTerminate, StateOK
<1>2. Onward(i, Proceed(i))
  BY <1>1, ProceedOK
<1>3. Onward(i, Then(i, ControlPlan))
  BY <1>1, PlansOK, ThenOK DEF Splits
<1>4. i.opt = "terminate" => Onward(i, k)
  <2> SUFFICES ASSUME i.opt = "terminate" PROVE Onward(i, k)
    OBVIOUS
  <2>1. Refines(i.kind, i.opt)
    BY DEF Refines
  <2> QED
    BY <1>1, <2>1, TerminatePlanOK, ThenOK DEF Splits
<1> HIDE DEF k
<1>5. \/ Set(c, Proceed(i)) \/ Set(c, Then(i, ControlPlan))
      \/ i.opt = "terminate" /\ Set(c, k)
  BY DEF DelMciAdvance, DelMciTerminate, k
<1>6. Move(c)
  BY <1>2, <1>3, <1>4, <1>5 DEF Move
<1> QED
  BY <1>1, <1>6, SteadyOK DEF DelMciAdvance, DelMciTerminate

\* A request comes to a client that serves none.
NewRequest(c) ==
    /\ job[c].pc = "idle"
    /\ NoNewAction
    /\ \E k : /\ Set(c, k)
              /\ JobOK(k)
              /\ k.pc \notin {"idle", "rewrite"}
              /\ MayOverlap(k.kind, k.opt)

LEMMA RequestOK ==
    ASSUME TypeInv, NEW c \in Clients, NEW k \in Kinds, NEW a \in Wanted, NEW v \in Vms,
           NEW opt \in {"none", "force", "terminate"}, Request(c, k, a, v, opt)
    PROVE  StateOK' /\ NewRequest(c)
<1> DEFINE V == IF k \in {"vm", "drop"} THEN {v} ELSE {}
           j == NewJob(k, ActionOf(k, a), opt, V)
<1>1. ActionOf(k, a) \in Controls /\ V \in SUBSET Vms
  BY MciAssumption DEF MciAssumption, ActionOf, Controls
<1>2. Set(c, j) /\ MayOverlap(k, opt) /\ job[c].pc = "idle"
  BY DEF Request, NewJob
<1> HIDE DEF V
<1>3. JobOK(j) /\ j.pc \notin {"idle", "rewrite"} /\ j.kind = k /\ j.opt = opt
  BY <1>1, NewJobOK
<1> HIDE DEF j
<1>4. NoNewAction
  BY DEF Request, NoNewAction
<1>5. requests' = requests + 1 /\ requests < MaxRequests /\ requests \in 0..MaxRequests
      /\ MaxRequests \in Nat
  BY MciAssumption DEF Request, MciAssumption, TypeInv, CountType
<1>6. requests' \in 0..MaxRequests
  BY <1>5
<1>7. mci' = mci /\ vm' = vm /\ csp' = csp /\ faults' = faults
  BY DEF Request
<1>8. StateOK'
  BY <1>6, <1>7 DEF TypeInv, StateOK, MciType, CountType, Gone
<1> QED
  BY <1>2, <1>3, <1>4, <1>8 DEF NewRequest

LEMMA CspProgressOK ==
    ASSUME TypeInv, NEW v \in Vms, CspProgress(v)
    PROVE  StateOK' /\ job' = job /\ NoNewAction
<1>1. csp \in [Vms -> CspStates]
  BY DEF TypeInv, MciType
<1>2. \E s \in CspStates : csp' = [csp EXCEPT ![v] = s]
  BY DEF CspProgress, CspStates
<1>3. csp' \in [Vms -> CspStates]
  BY <1>1, <1>2
<1>4. mci' = mci /\ vm' = vm /\ job' = job /\ requests' = requests /\ faults' = faults
  BY DEF CspProgress
<1> QED
  BY <1>3, <1>4 DEF TypeInv, StateOK, MciType, CountType, Gone, NoNewAction

-----------------------------------------------------------------------------
(* What a step may do, as far as the theorems need to know it.             *)

WritesBack(c) == job[c].pc = "rewrite" /\ mci'.action \in {mci.action, job[c].read}

GoesOn(c) == Move(c) /\ (NoNewAction \/ job'[c].pc = "select" \/ WritesBack(c))

Completes(c) == /\ mci'.action = "None"
                /\ \E k : Set(c, k) /\ Ending(job[c], k) /\ k.pc # "rewrite"

Rereads(c) == /\ job[c].pc = "reread"
              /\ NoNewAction
              /\ \E k : /\ Set(c, k)
                        /\ Ending(job[c], k)
                        /\ k.pc = "rewrite" => k.read = mci.action

Stutters == job' = job /\ NoNewAction

LEMMA ServeOK ==
    ASSUME TypeInv, NEW c \in Clients, Serve(c)
    PROVE  StateOK' /\ (GoesOn(c) \/ Completes(c) \/ Rereads(c))
<1>1. CASE GetMciStatus(c)
  BY <1>1, StatusReadOK, StatusFetchOK, StatusEndOK DEF GetMciStatus, GoesOn
<1>2. CASE ControlMci(c)
  <2>1. CASE ControlGuard(c) \/ VmGuard(c)
    BY <2>1, GuardsOK DEF GoesOn
  <2>2. CASE ControlLaunch(c)
    BY <2>2, ControlLaunchOK DEF GoesOn
  <2>3. CASE ControlSelected(c) \/ ControlEnd(c) \/ \E v \in Vms : ControlSelect(c, v)
    BY <2>3, ControlSelectOK DEF GoesOn
  <2>4. CASE \E v \in Vms : ControlVm(c, v)
    BY <2>4, ControlVmOK DEF GoesOn
  <2>5. CASE ControlComplete(c)
    BY <2>5, ControlCompleteOK DEF Completes
  <2> QED
    BY <1>2, <2>1, <2>2, <2>3, <2>4, <2>5 DEF ControlMci
<1>3. CASE Deletion(c)
  <2>1. CASE DropVm(c) \/ DropEnd(c) \/ \E v \in Vms : DropNext(c, v)
    BY <2>1, DropsOK DEF GoesOn
  <2>2. CASE Refine(c)
    BY <2>2, RefineOK DEF GoesOn
  <2>3. CASE RefineRead(c)
    BY <2>3, RefineReadOK DEF Rereads
  <2>4. CASE RefineWrite(c)
    BY <2>4, RefineWriteOK DEF GoesOn, WritesBack
  <2>5. CASE DelMciAdvance(c) \/ DelMciTerminate(c)
    BY <2>5, DelMciSplitOK DEF GoesOn
  <2>6. CASE DelMciCheck(c)
    BY <2>6, GuardsOK DEF GoesOn
  <2>7. CASE DelMciLast(c)
    BY <2>7, DelMciLastOK DEF GoesOn
  <2> QED
    BY <1>3, <2>1, <2>2, <2>3, <2>4, <2>5, <2>6, <2>7 DEF Deletion
<1> QED
  BY <1>1, <1>2, <1>3 DEF Serve

LEMMA StepOK ==
    ASSUME TypeInv, [Next]_vars
    PROVE  /\ StateOK'
           /\ \/ Stutters
              \/ \E c \in Clients :
                    GoesOn(c) \/ Completes(c) \/ Rereads(c) \/ NewRequest(c)
<1>1. CASE \E c \in Clients, k \in Kinds, a \in Wanted, v \in Vms,
             opt \in {"none", "force", "terminate"} : Request(c, k, a, v, opt)
  BY <1>1, RequestOK
<1>2. CASE \E c \in Clients : Serve(c)
  BY <1>2, ServeOK
<1>3. CASE \E v \in Vms : CspProgress(v)
  BY <1>3, CspProgressOK DEF Stutters
<1>4. CASE UNCHANGED vars
  <2>1. StateOK
    BY DEF TypeInv, StateOK
  <2> QED
    BY <1>4, <2>1, SteadyOK DEF vars, Stutters
<1> QED
  BY <1>1, <1>2, <1>3, <1>4 DEF Next

LEMMA JobsStepOK ==
    ASSUME JobsOK, NEW c \in Clients, NEW k, Set(c, k), JobOK(k)
    PROVE  /\ JobsOK'
           /\ job'[c] = k
           /\ \A d \in Clients : d # c => job'[d] = job[d]
<1>1. k \in JobRecord /\ job \in [Clients -> JobRecord]
  BY DEF JobOK, JobsOK
<1>2. /\ job' \in [Clients -> JobRecord]
      /\ job'[c] = k
      /\ \A d \in Clients : d # c => job'[d] = job[d]
  BY <1>1 DEF Set
<1>3. \A d \in Clients : JobOK(job'[d])
  BY <1>2 DEF JobsOK
<1> QED
  BY <1>2, <1>3 DEF JobsOK

LEMMA TypeStepOK == TypeInv /\ [Next]_vars => TypeInv'
<1> SUFFICES ASSUME TypeInv, [Next]_vars PROVE TypeInv'
  OBVIOUS
<1>1. StateOK' /\ JobsOK
  BY StepOK DEF TypeInv
<1>2. job' = job \/ \E c \in Clients : \E k : Set(c, k) /\ JobOK(k)
  BY StepOK DEF Stutters, GoesOn, Completes, Rereads, NewRequest, Move, Onward, Ending
<1>3. CASE job' = job
  BY <1>1, <1>3 DEF JobsOK, StateOK, TypeInv
<1>4. CASE \E c \in Clients : \E k : Set(c, k) /\ JobOK(k)
  BY <1>1, <1>4, JobsStepOK DEF StateOK, TypeInv
<1> QED
  BY <1>2, <1>3, <1>4

LEMMA TypeInitOK == Init => TypeInv
<1> SUFFICES ASSUME Init PROVE TypeInv
  OBVIOUS
<1>1. JobsOK
  BY IdleOK, IdleType DEF Init, JobsOK
<1>2. csp \in [Vms -> CspStates]
  BY DEF Init, CspStates
<1>3. vm \in [Vms -> VmRecord]
  BY DEF Init, Vm, VmRecord, Statuses, Stable, Actions
<1> QED
  BY <1>1, <1>2, <1>3, MciAssumption
  DEF Init, TypeInv, MciType, CountType, Gone, MciAssumption

\* TypeOK holds for any number of clients, VMs, requests and faults.
THEOREM TypeCorrect == Spec => []TypeOK
<1>1. TypeInv => TypeOK
  BY DEF TypeInv, JobsOK, TypeOK, JobType
<1> QED
  BY <1>1, TypeInitOK, TypeStepOK, PTL DEF Spec

-----------------------------------------------------------------------------
(* An action is under way as long as the record says so, if requests that  *)
(* refine do not overlap with others.                                      *)

Alone ==
    \A c, d \in Clients :
        c # d /\ job[c].pc # "idle" /\ job[d].pc # "idle"
            => ~Refines(job[c].kind, job[c].opt)

\* What is about to be written back says that no action is under way.
Rewriting == \A c \in Clients : job[c].pc = "rewrite" => job[c].read = "None"

LEMMA SameRequestAlone ==
    ASSUME TypeInv, Alone, NEW c \in Clients, NEW k, Set(c, k), Ending(job[c], k)
    PROVE  Alone'
<1>1. /\ job'[c] = k
      /\ \A d \in Clients : d # c => job'[d] = job[d]
  BY JobsStepOK DEF TypeInv, Ending
<1>2. k.pc # "idle" => job[c].pc # "idle" /\ k.kind = job[c].kind /\ k.opt = job[c].opt
  BY DEF Ending
<1> QED
  BY <1>1, <1>2 DEF Alone

LEMMA NewRequestAlone ==
    ASSUME TypeInv, Alone, "overlap" \notin Scope, NEW c \in Clients, NewRequest(c)
    PROVE  Alone'
<1>1. PICK k : /\ Set(c, k) /\ JobOK(k) /\ k.pc \notin {"idle", "rewrite"}
               /\ MayOverlap(k.kind, k.opt)
  BY DEF NewRequest
<1>2. /\ job'[c] = k
      /\ \A d \in Clients : d # c => job'[d] = job[d]
  BY <1>1, JobsStepOK DEF TypeInv
<1>3. \A d \in Clients : \/ job[d].pc = "idle"
                         \/ ~Refines(k.kind, k.opt) /\ ~Refines(job[d].kind, job[d].opt)
  BY <1>1 DEF MayOverlap
<1> QED
  BY <1>2, <1>3 DEF Alone

LEMMA RefinerOK ==
    ASSUME JobsOK, NEW c \in Clients, job[c].pc \in RefineStages
    PROVE  Refines(job[c].kind, job[c].opt)
<1>1. JobOK(job[c]) /\ job[c] \in JobRecord
  BY DEF JobsOK, JobOK
<1>2. 0 \in 0..Len(job[c].rest) /\ Stage(job[c], 0) = job[c].pc
  BY <1>1 DEF JobRecord, Stage
<1> QED
  BY <1>1, <1>2 DEF JobOK, OnlyRefiners

OrphanInv == TypeInv /\ Alone /\ Rewriting /\ NoOrphanAction

LEMMA AloneStep ==
    ASSUME OrphanInv, [Next]_vars, "overlap" \notin Scope
    PROVE  Alone'
<1>1. CASE Stutters
  BY <1>1 DEF Stutters, OrphanInv, Alone
<1>2. ASSUME NEW c \in Clients, NewRequest(c)
      PROVE  Alone'
  BY <1>2, NewRequestAlone DEF OrphanInv
<1>3. ASSUME NEW c \in Clients, GoesOn(c) \/ Completes(c) \/ Rereads(c)
      PROVE  Alone'
  BY <1>3, SameRequestAlone DEF OrphanInv, GoesOn, Completes, Rereads, Move, Onward
<1> QED
  BY <1>1, <1>2, <1>3, StepOK DEF OrphanInv

LEMMA RewritingStep ==
    ASSUME OrphanInv, [Next]_vars
    PROVE  Rewriting'
<1>1. CASE Stutters
  BY <1>1 DEF Stutters, OrphanInv, Rewriting
<1>2. ASSUME NEW c \in Clients, NEW k, Set(c, k), JobOK(k), k.pc = "rewrite" => k.read = "None"
      PROVE  Rewriting'
  BY <1>2, JobsStepOK DEF OrphanInv, TypeInv, Rewriting
<1>3. ASSUME NEW c \in Clients, GoesOn(c) \/ Completes(c) \/ NewRequest(c)
      PROVE  Rewriting'
  <2>1. \E k : Set(c, k) /\ JobOK(k) /\ (k.pc = "rewrite" => k.read = "None")
    BY <1>3 DEF OrphanInv, Rewriting, GoesOn, Completes, NewRequest, Move, Onward, Ending
  <2> QED
    BY <2>1, <1>2
<1>4. ASSUME NEW c \in Clients, Rereads(c)
      PROVE  Rewriting'
  <2>1. Refines(job[c].kind, job[c].opt)
    BY <1>4, RefinerOK DEF OrphanInv, TypeInv, Rereads, RefineStages
  <2>2. \A d \in Clients : job[d].pc \notin Busy
    BY <1>4, <2>1 DEF OrphanInv, Alone, Rereads, Busy
  <2>3. mci.action = "None"
    BY <2>2 DEF OrphanInv, NoOrphanAction, Busy
  <2>4. \E k : Set(c, k) /\ JobOK(k) /\ (k.pc = "rewrite" => k.read = "None")
    BY <1>4, <2>3 DEF Rereads, Ending
  <2> QED
    BY <2>4, <1>2
<1> QED
  BY <1>1, <1>3, <1>4, StepOK DEF OrphanInv

LEMMA OrphanStep ==
    ASSUME OrphanInv, [Next]_vars
    PROVE  NoOrphanAction'
<1> SUFFICES ASSUME mci'.action # "None"
             PROVE  \E c \in Clients : job'[c].pc \in Busy
  BY DEF NoOrphanAction, Busy
<1>1. mci.action # "None" => \E c \in Clients : job[c].pc \in Busy
  BY DEF OrphanInv, NoOrphanAction, Busy
<1>2. CASE Stutters
  BY <1>1, <1>2 DEF Stutters, NoNewAction
<1>3. ASSUME NEW c \in Clients, NoNewAction, NEW k, Set(c, k), JobOK(k),
             job[c].pc \in Busy => k.pc \in Busy
      PROVE  \E d \in Clients : job'[d].pc \in Busy
  <2>1. PICK d \in Clients : job[d].pc \in Busy
    BY <1>1, <1>3 DEF NoNewAction
  <2>2. job'[c] = k /\ (d # c => job'[d] = job[d])
    BY <1>3, JobsStepOK DEF OrphanInv, TypeInv
  <2> QED
    BY <1>3, <2>1, <2>2
<1>4. ASSUME NEW c \in Clients, GoesOn(c)
      PROVE  \E d \in Clients : job'[d].pc \in Busy
  <2>1. CASE job'[c].pc = "select"
    BY <2>1 DEF Busy
  <2>2. CASE NoNewAction
    BY <1>3, <1>4, <2>2 DEF GoesOn, Move, Onward, Ending
  <2>3. CASE WritesBack(c)
    <3>1. job[c].read = "None"
      BY <2>3 DEF WritesBack, OrphanInv, Rewriting
    <3>2. NoNewAction
      BY <2>3, <3>1 DEF WritesBack, NoNewAction
    <3> QED
      BY <3>2, <2>2
  <2> QED
    BY <1>4, <2>1, <2>2, <2>3 DEF GoesOn
<1>5. ASSUME NEW c \in Clients, Rereads(c) \/ NewRequest(c)
      PROVE  \E d \in Clients : job'[d].pc \in Busy
  <2>1. NoNewAction /\ job[c].pc \notin Busy
    BY <1>5 DEF Rereads, NewRequest, Busy
  <2>2. \E k : Set(c, k) /\ JobOK(k)
    BY <1>5 DEF Rereads, NewRequest, Ending
  <2> QED
    BY <1>3, <2>1, <2>2
<1>6. ASSUME NEW c \in Clients
      PROVE  ~Completes(c)
  BY DEF Completes
<1> QED
  BY <1>2, <1>4, <1>5, <1>6, StepOK DEF OrphanInv

\* No action outlives the requests for it, with any number of clients, VMs,
\* requests and faults, with and without force, as long as requests that refine
\* do not overlap with others.
THEOREM NoActionOrphaned ==
    ASSUME "overlap" \notin Scope
    PROVE  Spec => []NoOrphanAction
<1>1. Init => OrphanInv
  <2> SUFFICES ASSUME Init PROVE OrphanInv
    OBVIOUS
  <2>1. \A c \in Clients : job[c].pc = "idle"
    BY DEF Init, Idle
  <2>2. mci.action = "None"
    BY DEF Init
  <2> QED
    BY <2>1, <2>2, TypeInitOK DEF OrphanInv, Alone, Rewriting, NoOrphanAction
<1>2. OrphanInv /\ [Next]_vars => OrphanInv'
  <2> SUFFICES ASSUME OrphanInv, [Next]_vars PROVE OrphanInv'
    OBVIOUS
  <2>1. TypeInv'
    BY TypeStepOK DEF OrphanInv
  <2> QED
    BY <2>1, AloneStep, RewritingStep, OrphanStep DEF OrphanInv
<1>3. OrphanInv => NoOrphanAction
  BY DEF OrphanInv
<1> QED
  BY <1>1, <1>2, <1>3, PTL DEF Spec

-----------------------------------------------------------------------------
(* No VM is forgotten, if nothing is forced and no call fails.  What a     *)
(* request has seen of a VM that is over, or has marked to be dropped,     *)
(* stays true whatever the other requests do: VMs do not come back.        *)

Over(v)    == csp[v] \in {"Absent", "Gone"}
Leaving(v) == csp[v] \in {"Absent", "Gone", "Terminating"}
Lost(v)    == ~vm[v].there \/ Over(v)
LooksOver  == {"Terminated", "Failed", "Undefined"}

\* The record of a VM does not say that it is over before it is.
VmSure(v) ==
    /\ ~vm[v].named => csp[v] = "Absent"
    /\ vm[v].status \in LooksOver => Over(v)

\* The stages that stage q comes after.
After(q) ==
    CASE q = "runOne"  -> {"vmGuard"}
      [] q = "dropVm"  -> {"runOne"}
      [] q = "advance" -> {"try", "fetch"}
      [] q = "check"   -> {"try", "fetch", "advance"}
      [] q = "dropAll" -> {"check"}
      [] q = "dropMci" -> {"dropAll"}
      [] OTHER         -> Labels

Chain(j) ==
    \A i \in 1..Len(j.rest) :
        Stage(j, i-1) \in After(j.rest[i]) /\ (j.rest[i] = "dropVm" => j.kind = "drop")

\* What a request knows at every stage.
Known(j) ==
    /\ \A v \in DOMAIN j.seen : j.seen[v] \in LooksOver => Lost(v)
    /\ \A v \in Vms : j.at[v] = "drop" => Lost(v)
    /\ j.read = "error" => ~mci.there
    /\ j.opt # "force"
    /\ j.kind = "drop" => j.act = "Terminate" /\ j.opt = "none"

\* And at stage q.
KnownAt(q, j) ==
    /\ q = "fetch" => \A v \in Listed : j.at[v] = "fetch" \/ v \in DOMAIN j.seen
    /\ q \in {"advance", "check"} => Listed \subseteq DOMAIN j.seen
    /\ q = "dropAll" => \A v \in Listed : j.at[v] = "drop"
    /\ q = "dropMci" => Listed = {}
    /\ q = "runOne" /\ j.act = "Terminate" =>
          \A v \in j.target : j.at[v] \in {"start", "call"} \/ Leaving(v)
    /\ q = "dropVm" => \A v \in j.target : Leaving(v)

SureJob(j) == Chain(j) /\ Known(j) /\ KnownAt(j.pc, j)
WorldSure  == (\A v \in Vms : VmSure(v)) /\ (~mci.there => Listed = {})
SureInv    == TypeInv /\ WorldSure /\ \A c \in Clients : SureJob(job[c])

\* VMs and the MCI do not come back.
Ahead ==
    /\ \A v \in Vms : (vm'[v].there => vm[v].there) /\ (Over(v) => Over(v)') /\ (Leaving(v) => Leaving(v)')
    /\ mci'.there => mci.there

\* Who is dropped is over.
DropsOver == \A v \in Vms : vm[v].there /\ ~vm'[v].there => Leaving(v)

Unforced == "force" \notin Scope /\ MaxFaults = 0

LEMMA AheadKeeps ==
    ASSUME Ahead
    PROVE  /\ Listed' \subseteq Listed
           /\ \A v \in Vms : (Lost(v) => Lost(v)') /\ (Leaving(v) => Leaving(v)')
BY DEF Ahead, Listed, Lost

LEMMA SureAhead ==
    ASSUME Ahead, NEW j, JobOK(j), SureJob(j)
    PROVE  SureJob(j)'
<1>1. /\ Listed' \subseteq Listed
      /\ \A v \in Vms : (Lost(v) => Lost(v)') /\ (Leaving(v) => Leaving(v)')
      /\ mci'.there => mci.there
  BY AheadKeeps DEF Ahead
<1>2. j.target \in SUBSET Vms /\ j.seen \in SeenMaps /\ DOMAIN j.seen \subseteq Vms
  BY DEF JobOK, JobRecord, SeenMaps
<1>3. Chain(j)'
  BY DEF SureJob, Chain, Stage
<1>4. Known(j)'
  BY <1>1, <1>2 DEF SureJob, Known
<1>5. KnownAt(j.pc, j)'
  BY <1>1, <1>2 DEF SureJob, KnownAt
<1> QED
  BY <1>3, <1>4, <1>5 DEF SureJob

LEMMA SureStep ==
    ASSUME SureInv, TypeInv', Ahead, WorldSure', NEW c \in Clients,
           \E k : Set(c, k) /\ SureJob(k)'
    PROVE  SureInv'
<1>1. PICK k : Set(c, k) /\ SureJob(k)'
  OBVIOUS
<1>2. job \in [Clients -> JobRecord] /\ \A d \in Clients : JobOK(job[d]) /\ SureJob(job[d])
  BY DEF SureInv, TypeInv, JobsOK
<1>3. job'[c] = k /\ \A d \in Clients : d # c => job'[d] = job[d]
  BY <1>1, <1>2 DEF Set
<1>4. ASSUME NEW d \in Clients PROVE SureJob(job[d])'
  <2>1. CASE d = c
    BY <1>1, <1>3, <2>1
  <2>2. CASE d # c
    <3>1. PICK j : j = job[d]
      OBVIOUS
    <3>2. SureJob(j)'
      BY <1>2, <3>1, SureAhead
    <3> QED
      BY <1>3, <2>2, <3>1, <3>2
  <2> QED
    BY <2>1, <2>2
<1> QED
  BY <1>4 DEF SureInv

LEMMA SureGo ==
    ASSUME SureInv, TypeInv', Ahead, WorldSure', NEW c \in Clients, \E k : Set(c, k) /\ SureJob(k)
    PROVE  SureInv'
<1>1. PICK k : Set(c, k) /\ SureJob(k)
  OBVIOUS
<1>2. job'[c] = k
  BY <1>1 DEF Set, SureInv, TypeInv, JobsOK
<1>3. JobOK(k)
  BY <1>2 DEF TypeInv, JobsOK
<1>4. SureJob(k)'
  BY <1>1, <1>3, SureAhead
<1> QED
  BY <1>1, <1>4, SureStep

\* A step that only moves the job on.
LEMMA SureMove ==
    ASSUME SureInv, TypeInv', UNCHANGED <<vm, csp>>, mci'.there => mci.there,
           mci.there => mci'.there \/ Listed = {},
           NEW c \in Clients, \E k : Set(c, k) /\ SureJob(k)
    PROVE  SureInv' /\ DropsOver
<1>1. Ahead /\ WorldSure' /\ DropsOver
  BY DEF Ahead, WorldSure, VmSure, Over, Leaving, Listed, SureInv, DropsOver
<1> QED
  BY <1>1, SureGo

LEMMA SureIdle == SureJob(Idle)
<1>1. /\ Idle.rest = <<>> /\ Idle.pc = "idle" /\ Idle.seen = Unseen /\ Idle.at = Out
      /\ Idle.read = "None" /\ Idle.opt = "none" /\ Idle.kind = "none"
  BY DEF Idle
<1>2. Chain(Idle)
  BY <1>1 DEF Chain
<1>3. Known(Idle)
  BY <1>1 DEF Known, Unseen, Out
<1>4. KnownAt(Idle.pc, Idle)
  BY <1>1 DEF KnownAt
<1> QED
  BY <1>2, <1>3, <1>4 DEF SureJob

LEMMA ProceedIs ==
    ASSUME NEW j \in JobRecord, j.rest # <<>>
    PROVE  LET k == Proceed(j) IN
           /\ k.pc = j.rest[1] /\ k.pc \in Stages /\ k.rest = Tail(j.rest) /\ k.kind = j.kind /\ k.act = j.act
           /\ k.opt = j.opt /\ k.target = j.target /\ k.read = j.read /\ k.at = j.at
           /\ k.seen = j.seen /\ k \in JobRecord
<1>1. Head(j.rest) = j.rest[1] /\ Head(j.rest) \in Stages /\ Tail(j.rest) \in Seq(Stages)
  BY DEF JobRecord
<1>2. Proceed(j) = [j EXCEPT !.pc = Head(j.rest), !.rest = Tail(j.rest)]
  BY DEF Proceed
<1> QED
  BY <1>1, <1>2 DEF JobRecord, Labels

LEMMA ChainProceed ==
    ASSUME NEW j \in JobRecord, Chain(j), j.rest # <<>>
    PROVE  /\ Chain(Proceed(j))
           /\ j.pc \in After(j.rest[1])
           /\ j.rest[1] = "dropVm" => j.kind = "drop"
<1> DEFINE k == Proceed(j)
<1>1. j.rest \in Seq(Stages) /\ k.pc = j.rest[1] /\ k.rest = Tail(j.rest) /\ k.kind = j.kind
  BY ProceedIs DEF JobRecord
<1> HIDE DEF k
<1>2. /\ Len(j.rest) \in Nat /\ Len(j.rest) > 0 /\ Len(k.rest) = Len(j.rest) - 1
      /\ \A i \in 1..Len(k.rest) : k.rest[i] = j.rest[i+1]
  BY <1>1
<1>3. ASSUME NEW i \in 1..Len(k.rest)
      PROVE  Stage(k, i-1) \in After(k.rest[i]) /\ (k.rest[i] = "dropVm" => k.kind = "drop")
  <2>1. i + 1 \in 1..Len(j.rest) /\ (i + 1) - 1 = i /\ i # 0
    BY <1>2
  <2>2. Stage(j, i) \in After(j.rest[i+1]) /\ (j.rest[i+1] = "dropVm" => j.kind = "drop")
    BY <2>1 DEF Chain
  <2>3. Stage(k, i-1) = Stage(j, i)
    <3>1. CASE i = 1
      BY <3>1, <1>1 DEF Stage
    <3>2. CASE i # 1
      <4>1. i - 1 \in 1..Len(k.rest) /\ i - 1 # 0 /\ (i - 1) + 1 = i
        BY <3>2, <1>2
      <4> QED
        BY <4>1, <2>1, <1>2 DEF Stage
    <3> QED
      BY <3>1, <3>2
  <2> QED
    BY <2>2, <2>3, <1>1, <1>2
<1>4. Chain(k)
  BY <1>3 DEF Chain
<1>5. 1 \in 1..Len(j.rest) /\ Stage(j, 1-1) = j.pc
  BY <1>2 DEF Stage
<1> QED
  BY <1>4, <1>5 DEF Chain, k

\* A job goes on to a stage where it knows what it has to.
LEMMA SureProceed ==
    ASSUME NEW j \in JobRecord, Chain(j), Known(j),
           \A q \in Stages : j.pc \in After(q) /\ (q = "dropVm" => j.kind = "drop") => KnownAt(q, j)
    PROVE  SureJob(Proceed(j))
<1>1. CASE j.rest = <<>>
  BY <1>1, SureIdle DEF Proceed
<1>2. CASE j.rest # <<>>
  <2> DEFINE k == Proceed(j)
  <2>1. /\ k.pc = j.rest[1] /\ k.pc \in Stages /\ k.kind = j.kind /\ k.act = j.act
        /\ k.opt = j.opt /\ k.target = j.target /\ k.read = j.read /\ k.at = j.at
        /\ k.seen = j.seen
    BY <1>2, ProceedIs
  <2>2. Chain(k) /\ j.pc \in After(k.pc) /\ (k.pc = "dropVm" => j.kind = "drop")
    BY <1>2, <2>1, ChainProceed
  <2> HIDE DEF k
  <2>3. Known(k)
    BY <2>1 DEF Known
  <2>4. KnownAt(k.pc, j)
    BY <2>1, <2>2
  <2>5. KnownAt(k.pc, k)
    BY <2>1, <2>4 DEF KnownAt
  <2> QED
    BY <2>2, <2>3, <2>5 DEF SureJob, k
<1> QED
  BY <1>1, <1>2

Telling == {"try", "fetch", "advance", "vmGuard", "runOne", "check", "dropAll"}

LEMMA SurePlain ==
    ASSUME NEW j \in JobRecord, Chain(j), Known(j), j.pc \notin Telling
    PROVE  SureJob(Proceed(j))
<1>1. \A q \in Stages : j.pc \in After(q) => KnownAt(q, j)
  BY DEF After, KnownAt, Telling, Stages
<1> QED
  BY <1>1, SureProceed

LEMMA SurePlace ==
    ASSUME NEW j \in JobRecord, NEW V, NEW p \in Places
    PROVE  LET k == Place(j, V, p) IN
           /\ k.pc = j.pc /\ k.rest = j.rest /\ k.kind = j.kind /\ k.act = j.act
           /\ k.opt = j.opt /\ k.target = j.target /\ k.read = j.read /\ k.seen = j.seen
           /\ \A v \in Vms : k.at[v] = IF v \in V THEN p ELSE j.at[v]
           /\ Chain(j) => Chain(k)
           /\ Known(j) /\ (p = "drop" => \A v \in V \cap Vms : Lost(v)) => Known(k)
           /\ k \in JobRecord
<1> DEFINE k == Place(j, V, p)
<1>1. /\ k.pc = j.pc /\ k.rest = j.rest /\ k.kind = j.kind /\ k.act = j.act
      /\ k.opt = j.opt /\ k.target = j.target /\ k.read = j.read /\ k.seen = j.seen
      /\ \A v \in Vms : k.at[v] = IF v \in V THEN p ELSE j.at[v]
  BY DEF Place, JobRecord
<1>2. k \in JobRecord
  <2>1. [v \in Vms |-> IF v \in V THEN p ELSE j.at[v]] \in [Vms -> Places]
    BY DEF JobRecord
  <2> QED
    BY <2>1 DEF Place, JobRecord
<1> HIDE DEF k
<1>3. Chain(j) => Chain(k)
  BY <1>1 DEF Chain, Stage
<1>4. Known(j) /\ (p = "drop" => \A v \in V \cap Vms : Lost(v)) => Known(k)
  BY <1>1 DEF Known
<1> QED
  BY <1>1, <1>2, <1>3, <1>4 DEF k

\* A plan that can be put between the stage p of a request and those to come.
Fits(s, p, kind) ==
    /\ s \in Seq(Stages) /\ s # <<>>
    /\ p \in After(s[1])
    /\ \A i \in 2..Len(s) : s[i-1] \in After(s[i])
    /\ \A i \in 1..Len(s) : s[i] = "dropVm" => kind = "drop"
    /\ \A q \in Stages : p \in After(q) => s[Len(s)] \in After(q)

LEMMA ChainPrepend ==
    ASSUME NEW j \in JobRecord, Chain(j), NEW s, Fits(s, j.pc, j.kind)
    PROVE  Chain([j EXCEPT !.rest = s \o j.rest])
<1> DEFINE k == [j EXCEPT !.rest = s \o j.rest]
           t == j.rest
<1>1. t \in Seq(Stages) /\ s \in Seq(Stages) /\ s # <<>>
  BY DEF JobRecord, Fits
<1>2. /\ Len(s) \in Nat /\ Len(t) \in Nat /\ Len(s) > 0 /\ Len(s \o t) = Len(s) + Len(t)
      /\ \A i \in 1..Len(s) : (s \o t)[i] = s[i]
      /\ \A i \in 1..Len(t) : (s \o t)[Len(s) + i] = t[i]
  BY <1>1
<1>3. k.pc = j.pc /\ k.rest = s \o t /\ k.kind = j.kind
  BY DEF JobRecord
<1> HIDE DEF k, t
<1>4. /\ Len(k.rest) = Len(s) + Len(t)
      /\ \A i \in 1..Len(s) : k.rest[i] = s[i]
      /\ \A i \in 1..Len(t) : k.rest[Len(s) + i] = t[i]
  BY <1>2, <1>3
<1>5. ASSUME NEW i \in 1..Len(k.rest)
      PROVE  Stage(k, i-1) \in After(k.rest[i]) /\ (k.rest[i] = "dropVm" => k.kind = "drop")
  <2>1. CASE i = 1
    <3>1. 1 \in 1..Len(s) /\ k.rest[i] = s[1] /\ Stage(k, i-1) = j.pc
      BY <2>1, <1>2, <1>3, <1>4 DEF Stage
    <3> QED
      BY <3>1, <1>3 DEF Fits
  <2>2. CASE i \in 2..Len(s)
    <3>1. i \in 1..Len(s) /\ i - 1 \in 1..Len(s) /\ i - 1 # 0
      BY <2>2, <1>2
    <3>2. k.rest[i] = s[i] /\ Stage(k, i-1) = s[i-1]
      BY <3>1, <1>4 DEF Stage
    <3> QED
      BY <2>2, <3>1, <3>2, <1>3 DEF Fits
  <2>3. CASE i = Len(s) + 1
    <3>1. 1 \in 1..Len(t) /\ Len(s) \in 1..Len(s) /\ i - 1 = Len(s) /\ Len(s) # 0
      BY <2>3, <1>2, <1>4
    <3>2. k.rest[i] = t[1] /\ Stage(k, i-1) = s[Len(s)]
      BY <2>3, <3>1, <1>4 DEF Stage
    <3>3. Stage(j, 1-1) = j.pc /\ t[1] \in Stages
      BY <3>1, <1>1 DEF Stage
    <3>4. j.pc \in After(t[1]) /\ (t[1] = "dropVm" => j.kind = "drop")
      BY <3>1, <3>3 DEF Chain, t
    <3> QED
      BY <3>2, <3>3, <3>4, <1>3 DEF Fits
  <2>4. CASE i > Len(s) + 1
    <3> DEFINE n == i - Len(s)
    <3>1. n \in 1..Len(t) /\ n - 1 \in 1..Len(t) /\ n - 1 # 0 /\ i = Len(s) + n
          /\ i - 1 = Len(s) + (n - 1) /\ i - 1 # 0
      BY <2>4, <1>2, <1>4
    <3> HIDE DEF n
    <3>2. k.rest[i] = t[n] /\ Stage(k, i-1) = t[n-1]
      BY <3>1, <1>4 DEF Stage
    <3>3. Stage(j, n-1) = t[n-1]
      BY <3>1 DEF Stage, t
    <3>4. Stage(j, n-1) \in After(t[n]) /\ (t[n] = "dropVm" => j.kind = "drop")
      BY <3>1 DEF Chain, t
    <3> QED
      BY <3>2, <3>3, <3>4, <1>3
  <2> QED
    BY <2>1, <2>2, <2>3, <2>4, <1>2, <1>4
<1> QED
  BY <1>5 DEF Chain, k

LEMMA SureThen ==
    ASSUME NEW j \in JobRecord, Chain(j), Known(j), j.pc \notin Telling \ {"advance"},
           j.pc = "advance" => Listed \subseteq DOMAIN j.seen,
           NEW s, Fits(s, j.pc, j.kind)
    PROVE  SureJob(Then(j, s))
<1> DEFINE k == [j EXCEPT !.rest = s \o j.rest]
<1>1. Chain(k)
  BY ChainPrepend
<1>2. s \o j.rest \in Seq(Stages)
  BY DEF Fits, JobRecord
<1>3. /\ k \in JobRecord /\ k.pc = j.pc /\ k.kind = j.kind /\ k.act = j.act /\ k.opt = j.opt
      /\ k.target = j.target /\ k.read = j.read /\ k.at = j.at /\ k.seen = j.seen
  BY <1>2 DEF JobRecord
<1>4. Then(j, s) = Proceed(k)
  BY DEF Then
<1> HIDE DEF k
<1>5. Known(k)
  BY <1>3 DEF Known
<1>6. \A q \in Stages : k.pc \in After(q) => KnownAt(q, k)
  BY <1>3 DEF After, KnownAt, Telling, Stages
<1> QED
  BY <1>1, <1>3, <1>4, <1>5, <1>6, SureProceed

LEMMA FitsControl ==
    ASSUME NEW p \in {"idle", "terminate"}, NEW kind
    PROVE  Fits(ControlPlan, p, kind)
<1>1. /\ ControlPlan \in Seq(Stages) /\ ControlPlan # <<>> /\ Len(ControlPlan) = 6
      /\ ControlPlan[1] = "guard" /\ ControlPlan[2] = "try" /\ ControlPlan[3] = "launch"
      /\ ControlPlan[4] = "select" /\ ControlPlan[5] = "run" /\ ControlPlan[6] = "complete"
  BY PlansOK DEF ControlPlan
<1>2. \A q \in Labels \cup {"idle"} : q \in After("guard") /\ q \in After("try") /\ q \in After("launch")
        /\ q \in After("select") /\ q \in After("run") /\ q \in After("complete")
  BY DEF After, Labels
<1>3. \A i \in 2..6 : i = 2 \/ i = 3 \/ i = 4 \/ i = 5 \/ i = 6
  OBVIOUS
<1>4. \A i \in 1..6 : ControlPlan[i] # "dropVm"
  BY <1>1, <1>3
<1>5. \A i \in 2..6 : ControlPlan[i-1] \in After(ControlPlan[i])
  BY <1>1, <1>2, <1>3 DEF Labels, Stages
<1>6. \A q \in Stages : p \in After(q) => "complete" \in After(q)
  BY DEF After, Labels, Stages
<1> QED
  BY <1>1, <1>2, <1>4, <1>5, <1>6 DEF Fits, Labels, Stages

LEMMA FitsPurge ==
    ASSUME NEW kind
    PROVE  Fits(<<"purge", "reread", "rewrite">>, "refine", kind)
<1> DEFINE s == <<"purge", "reread", "rewrite">>
<1>1. s \in Seq(Stages) /\ Len(s) = 3 /\ s[1] = "purge" /\ s[2] = "reread" /\ s[3] = "rewrite"
      /\ s # <<>>
  BY DEF Stages
<1> HIDE DEF s
<1>2. \A i \in 2..3 : i = 2 \/ i = 3
  OBVIOUS
<1>3. \A i \in 1..3 : s[i] # "dropVm"
  BY <1>1, <1>2
<1>4. \A i \in 2..3 : s[i-1] \in After(s[i])
  BY <1>1, <1>2 DEF After, Labels, Stages
<1>5. \A q \in Stages : "refine" \in After(q) => "rewrite" \in After(q)
  BY DEF After, Labels, Stages
<1>6. "refine" \in After("purge")
  BY DEF After, Labels, Stages
<1> QED
  BY <1>1, <1>3, <1>4, <1>5, <1>6 DEF Fits, s

LEMMA FitsAdvance ==
    ASSUME NEW kind
    PROVE  Fits(<<"status", "refine", "terminate", "try">>, "advance", kind)
<1> DEFINE s == <<"status", "refine", "terminate", "try">>
<1>1. s \in Seq(Stages) /\ Len(s) = 4
      /\ s[1] = "status" /\ s[2] = "refine" /\ s[3] = "terminate" /\ s[4] = "try" /\ s # <<>>
  BY DEF Stages
<1> HIDE DEF s
<1>2. \A i \in 2..4 : i = 2 \/ i = 3 \/ i = 4
  OBVIOUS
<1>3. \A i \in 1..4 : s[i] # "dropVm"
  BY <1>1, <1>2
<1>4. \A i \in 2..4 : s[i-1] \in After(s[i])
  BY <1>1, <1>2 DEF After, Labels, Stages
<1>5. \A q \in Stages : "advance" \in After(q) => "try" \in After(q)
  BY DEF After, Labels, Stages
<1>6. "advance" \in After("status")
  BY DEF After, Labels, Stages
<1> QED
  BY <1>1, <1>3, <1>4, <1>5, <1>6 DEF Fits, s

\* What is planned for a request that is not forced.
LEMMA FitsPlan ==
    ASSUME NEW k \in {"status", "control", "vm", "refine", "drop", "delete"}, NEW opt, opt # "force"
    PROVE  Fits(PlanOf(k, opt), "idle", k)
<1>0. \A q \in Stages : "idle" \in After(q) => \A p \in Labels : p \in After(q)
  BY DEF After, Labels, Stages
<1>1. CASE k = "status"
  <2> DEFINE s == <<"status">>
  <2>1. PlanOf(k, opt) = s
    BY <1>1 DEF PlanOf
  <2>2. s \in Seq(Stages) /\ Len(s) = 1 /\ s[1] = "status" /\ s # <<>>
    BY DEF Stages
  <2> HIDE DEF s
  <2>3. \A i \in 1..1 : s[i] # "dropVm"
    BY <2>2
  <2>4. "idle" \in After("status") /\ "status" \in Labels
    BY DEF After, Labels, Stages
  <2> QED
    BY <2>1, <2>2, <2>3, <2>4, <1>0 DEF Fits
<1>2. CASE k = "control"
  BY <1>2, FitsControl DEF PlanOf
<1>3. CASE k = "vm"
  <2> DEFINE s == <<"status", "vmGuard", "runOne">>
  <2>1. PlanOf(k, opt) = s
    BY <1>3 DEF PlanOf
  <2>2. s \in Seq(Stages) /\ Len(s) = 3
        /\ s[1] = "status" /\ s[2] = "vmGuard" /\ s[3] = "runOne" /\ s # <<>>
    BY DEF Stages
  <2> HIDE DEF s
  <2>3. \A i \in 2..3 : i = 2 \/ i = 3
    OBVIOUS
  <2>4. \A i \in 1..3 : s[i] # "dropVm"
    BY <2>2, <2>3
  <2>5. "idle" \in After("status") /\ "runOne" \in Labels
        /\ "status" \in After("vmGuard") /\ "vmGuard" \in After("runOne")
    BY DEF After, Labels, Stages
  <2>6. \A i \in 2..3 : s[i-1] \in After(s[i])
    BY <2>2, <2>3, <2>5
  <2> QED
    BY <2>1, <2>2, <2>4, <2>5, <2>6, <1>0 DEF Fits
<1>4. CASE k = "refine"
  <2> DEFINE s == <<"status", "refine">>
  <2>1. PlanOf(k, opt) = s
    BY <1>4 DEF PlanOf
  <2>2. s \in Seq(Stages) /\ Len(s) = 2 /\ s[1] = "status" /\ s[2] = "refine" /\ s # <<>>
    BY DEF Stages
  <2> HIDE DEF s
  <2>3. \A i \in 2..2 : i = 2
    OBVIOUS
  <2>4. \A i \in 1..2 : s[i] # "dropVm"
    BY <2>2, <2>3
  <2>5. "idle" \in After("status") /\ "refine" \in Labels /\ "status" \in After("refine")
    BY DEF After, Labels, Stages
  <2>6. \A i \in 2..2 : s[i-1] \in After(s[i])
    BY <2>2, <2>3, <2>5
  <2> QED
    BY <2>1, <2>2, <2>4, <2>5, <2>6, <1>0 DEF Fits
<1>5. CASE k = "drop"
  <2> DEFINE s == <<"status", "vmGuard", "runOne", "dropVm">>
  <2>1. PlanOf(k, opt) = s
    BY <1>5 DEF PlanOf
  <2>2. s \in Seq(Stages) /\ Len(s) = 4
        /\ s[1] = "status" /\ s[2] = "vmGuard" /\ s[3] = "runOne" /\ s[4] = "dropVm" /\ s # <<>>
    BY DEF Stages
  <2> HIDE DEF s
  <2>3. \A i \in 2..4 : i = 2 \/ i = 3 \/ i = 4
    OBVIOUS
  <2>4. "idle" \in After("status") /\ "dropVm" \in Labels
        /\ "status" \in After("vmGuard") /\ "vmGuard" \in After("runOne") /\ "runOne" \in After("dropVm")
    BY DEF After, Labels, Stages
  <2>5. \A i \in 2..4 : s[i-1] \in After(s[i])
    BY <2>2, <2>3, <2>4
  <2> QED
    BY <1>5, <2>1, <2>2, <2>4, <2>5, <1>0 DEF Fits
<1>6. CASE k = "delete"
  <2> DEFINE s == <<"status", "try", "advance", "check", "dropAll", "dropMci">>
  <2>1. PlanOf(k, opt) = s
    BY <1>6 DEF PlanOf
  <2>2. s \in Seq(Stages) /\ Len(s) = 6
        /\ s[1] = "status" /\ s[2] = "try" /\ s[3] = "advance"
        /\ s[4] = "check" /\ s[5] = "dropAll" /\ s[6] = "dropMci" /\ s # <<>>
    BY DEF Stages
  <2> HIDE DEF s
  <2>3. \A i \in 2..6 : i = 2 \/ i = 3 \/ i = 4 \/ i = 5 \/ i = 6
    OBVIOUS
  <2>4. \A i \in 1..6 : s[i] # "dropVm"
    BY <2>2, <2>3
  <2>5. /\ "idle" \in After("status") /\ "dropMci" \in Labels
        /\ "status" \in After("try") /\ "try" \in After("advance")
        /\ "advance" \in After("check") /\ "check" \in After("dropAll")
        /\ "dropAll" \in After("dropMci")
    BY DEF After, Labels, Stages
  <2>6. \A i \in 2..6 : s[i-1] \in After(s[i])
    BY <2>2, <2>3, <2>5
  <2> QED
    BY <2>1, <2>2, <2>4, <2>5, <2>6, <1>0 DEF Fits
<1> QED
  BY <1>1, <1>2, <1>3, <1>4, <1>5, <1>6

\* A new request knows nothing and is sure of it.
LEMMA SureNew ==
    ASSUME NEW k \in Kinds, NEW a \in Controls, NEW opt \in {"none", "terminate"},
           NEW V \in SUBSET Vms, k = "drop" => a = "Terminate" /\ opt = "none"
    PROVE  SureJob(NewJob(k, a, opt, V))
<1> DEFINE b == [Idle EXCEPT !.kind = k, !.act = a, !.opt = opt, !.target = V]
<1>1. /\ b \in JobRecord /\ b.pc = "idle" /\ b.rest = <<>> /\ b.seen = Unseen /\ b.at = Out
      /\ b.read = "None" /\ b.opt = opt /\ b.kind = k /\ b.act = a
  BY IdleType DEF Idle, JobRecord
<1> HIDE DEF b
<1>2. Chain(b)
  BY <1>1 DEF Chain
<1>3. Known(b)
  BY <1>1 DEF Known, Unseen, Out
<1>4. Fits(PlanOf(k, opt), b.pc, b.kind)
  BY <1>1, FitsPlan, MciAssumption DEF MciAssumption
<1>5. SureJob(Then(b, PlanOf(k, opt)))
  BY <1>1, <1>2, <1>3, <1>4, SureThen DEF Telling
<1> QED
  BY <1>5 DEF NewJob, b

\* The stage of a status request becomes the fetching.
LEMMA SureFetching ==
    ASSUME NEW j \in JobRecord, Chain(j), Known(j), j.pc \in {"status", "try"},
           \A v \in Listed : j.at[v] = "fetch"
    PROVE  SureJob([j EXCEPT !.pc = "fetch"])
<1> DEFINE k == [j EXCEPT !.pc = "fetch"]
<1>1. /\ k.pc = "fetch" /\ k.rest = j.rest /\ k.kind = j.kind /\ k.act = j.act /\ k.opt = j.opt
      /\ k.target = j.target /\ k.read = j.read /\ k.at = j.at /\ k.seen = j.seen
  BY DEF JobRecord
<1> HIDE DEF k
<1>2. j.rest \in Seq(Stages) /\ Len(j.rest) \in Nat
  BY DEF JobRecord
<1>3. Chain(k)
  <2> SUFFICES ASSUME NEW i \in 1..Len(k.rest)
               PROVE  Stage(k, i-1) \in After(k.rest[i]) /\ (k.rest[i] = "dropVm" => k.kind = "drop")
    BY DEF Chain
  <2>1. Stage(j, i-1) \in After(j.rest[i]) /\ (j.rest[i] = "dropVm" => j.kind = "drop")
    BY <1>1 DEF Chain
  <2>2. CASE i = 1
    <3>1. Stage(j, i-1) = j.pc /\ Stage(k, i-1) = "fetch"
      BY <2>2, <1>1 DEF Stage
    <3>2. j.rest[i] \in Stages
      BY <1>1, <1>2
    <3>3. \A q \in Stages : "status" \in After(q) \/ "try" \in After(q) => "fetch" \in After(q)
      BY DEF After, Stages, Labels
    <3> QED
      BY <2>1, <3>1, <3>2, <3>3, <1>1
  <2>3. CASE i # 1
    <3>1. i - 1 # 0
      BY <2>3
    <3>2. Stage(k, i-1) = Stage(j, i-1)
      BY <3>1, <1>1 DEF Stage
    <3> QED
      BY <2>1, <3>2, <1>1
  <2> QED
    BY <2>2, <2>3
<1>4. Known(k)
  BY <1>1 DEF Known
<1>5. KnownAt(k.pc, k)
  BY <1>1 DEF KnownAt
<1> QED
  BY <1>3, <1>4, <1>5 DEF SureJob, k

-----------------------------------------------------------------------------
(* What VMs and MCIs look like.                                            *)

LEMMA CorrectedSure ==
    ASSUME MciType, NEW v \in Vms, VmSure(v), NEW n \in Reports(csp[v]),
           Corrected(vm[v], n) \in LooksOver
    PROVE  Over(v)
<1>1. csp[v] \in CspStates
  BY DEF MciType
<1>2. n \in LooksOver => Over(v)
  BY <1>1 DEF Reports, LooksOver, Over, CspStates
<1>3. vm[v].status \in LooksOver => Over(v)
  BY DEF VmSure
<1>4. \A a : During(a) \notin LooksOver
  BY DEF During, LooksOver
<1> QED
  BY <1>2, <1>3, <1>4 DEF Corrected, LooksOver

\* Looking at a VM shows it as it is, if the look does not fail.
LEMMA FetchSure ==
    ASSUME SureInv, Unforced, NEW v \in Vms, NEW s \in Statuses, FetchVmStatus(v, s)
    PROVE  /\ \A w \in Vms : vm'[w].there = vm[w].there /\ vm'[w].named = vm[w].named
           /\ \A w \in Vms : vm'[w].status \in LooksOver => Over(w)
           /\ s \in LooksOver => Lost(v)
<1>1. MciType /\ vm \in [Vms -> VmRecord] /\ \A w \in Vms : VmSure(w)
  BY DEF SureInv, TypeInv, MciType, WorldSure
<1>2. ~Fault
  <2>1. faults \in 0..MaxFaults /\ MaxFaults = 0
    BY DEF SureInv, TypeInv, CountType, Unforced
  <2> QED
    BY <2>1 DEF Fault
<1>3. CASE ~vm[v].there /\ vm' = vm
  BY <1>1, <1>3 DEF VmSure, Lost
<1>4. CASE vm' = vm /\ (NeedNotAsk(vm[v]) \/ ~vm[v].named)
           /\ s = IF NeedNotAsk(vm[v]) THEN vm[v].status ELSE Corrected(vm[v], "Undefined")
  <2>1. \A w \in Vms : vm[w].status \in LooksOver => Over(w)
    BY <1>1 DEF VmSure
  <2>2. ~vm[v].named => Over(v)
    BY <1>1 DEF VmSure, Over
  <2>3. s \in LooksOver => Over(v)
    BY <1>4, <2>1, <2>2
  <2> QED
    BY <1>4, <2>1, <2>3 DEF Lost
<1>5. CASE \E n \in Reports(csp[v]) :
              vm' = [vm EXCEPT ![v] = Refreshed(vm[v], n)] /\ s = Corrected(vm[v], n)
  <2>1. PICK n \in Reports(csp[v]) :
              vm' = [vm EXCEPT ![v] = Refreshed(vm[v], n)] /\ s = Corrected(vm[v], n)
    BY <1>5
  <2>2. s \in LooksOver => Over(v)
    BY <1>1, <2>1, CorrectedSure
  <2>3. vm'[v] = Refreshed(vm[v], n) /\ \A w \in Vms : w # v => vm'[w] = vm[w]
    BY <1>1, <2>1
  <2>4. vm[v] \in VmRecord
    BY <1>1
  <2>5. /\ Refreshed(vm[v], n).there = vm[v].there /\ Refreshed(vm[v], n).named = vm[v].named
        /\ Refreshed(vm[v], n).status = Corrected(vm[v], n)
    BY <2>4 DEF Refreshed, VmRecord
  <2> QED
    BY <1>1, <2>1, <2>2, <2>3, <2>5 DEF VmSure, Lost
<1> QED
  BY <1>2, <1>3, <1>4, <1>5 DEF FetchVmStatus

\* If all VMs have one status, that is what the MCI is named after.
LEMMA DominantOfAll ==
    ASSUME NEW seen, IsFiniteSet(DOMAIN seen), NEW v \in DOMAIN seen, seen[v] \in Statuses,
           Whole(seen)
    PROVE  Dominant(seen) = seen[v]
<1> DEFINE P(i) == \A j \in 1..10 :
             /\ Count(seen, Ranked[j]) <= Count(seen, Ranked[i])
             /\ j < i => Count(seen, Ranked[j]) < Count(seen, Ranked[i])
           s == seen[v]
<1>1. \A t : t # s => Count(seen, t) = 0
  <2> SUFFICES ASSUME NEW t, t # s PROVE Count(seen, t) = 0
    OBVIOUS
  <2>1. {w \in DOMAIN seen : seen[w] = t} = {}
    BY DEF Whole
  <2> QED
    BY <2>1, FS_EmptySet DEF Count
<1>2. Count(seen, s) \in Nat /\ Count(seen, s) > 0
  <2>1. {w \in DOMAIN seen : seen[w] = s} = DOMAIN seen
    BY DEF Whole
  <2>2. Cardinality(DOMAIN seen) \in Nat /\ Cardinality(DOMAIN seen) # 0
    BY FS_CardinalityType, FS_EmptySet
  <2> QED
    BY <2>1, <2>2 DEF Count
<1>3. /\ Ranked[1] = "Failed" /\ Ranked[2] = "Suspended" /\ Ranked[3] = "Running"
      /\ Ranked[4] = "Terminated" /\ Ranked[5] = "Creating" /\ Ranked[6] = "Suspending"
      /\ Ranked[7] = "Resuming" /\ Ranked[8] = "Rebooting" /\ Ranked[9] = "Terminating"
      /\ Ranked[10] = "Undefined"
  BY DEF Ranked
<1>4. PICK n \in 1..10 : Ranked[n] = s
  BY <1>3 DEF Statuses, Stable, Transitional
<1>5. \A j \in 1..10 : j = n \/ Ranked[j] # s
  BY <1>3, <1>4
<1>6. P(n)
  BY <1>1, <1>2, <1>4, <1>5
<1>7. \A i \in 1..10 : P(i) => Ranked[i] = s
  <2> SUFFICES ASSUME NEW i \in 1..10, P(i), Ranked[i] # s PROVE FALSE
    OBVIOUS
  <2>1. Count(seen, Ranked[n]) <= Count(seen, Ranked[i])
    OBVIOUS
  <2> QED
    BY <2>1, <1>1, <1>2, <1>4
<1>8. Dominant(seen) = Ranked[CHOOSE i \in 1..10 : P(i)]
  BY DEF Dominant
<1> HIDE DEF P
<1>9. (CHOOSE i \in 1..10 : P(i)) \in 1..10 /\ P(CHOOSE i \in 1..10 : P(i))
  BY <1>4, <1>6
<1> QED
  BY <1>7, <1>8, <1>9

\* A deletable MCI has lost all its VMs.
LEMMA DeletableSure ==
    ASSUME NEW j \in JobRecord, Known(j), Listed \subseteq DOMAIN j.seen,
           ~mci.there => Listed = {}, Deletable(j)
    PROVE  \A v \in Listed : Lost(v)
<1> SUFFICES ASSUME NEW v \in Listed PROVE Lost(v)
  OBVIOUS
<1>1. WholeIn(j, {"Terminated", "Undefined", "Failed"})
  BY DEF Deletable, Known
<1>2. v \in DOMAIN j.seen /\ j.seen[v] \in Statuses /\ DOMAIN j.seen \subseteq Vms
  BY DEF JobRecord, SeenMaps
<1>3. IsFiniteSet(DOMAIN j.seen)
  BY <1>2, FS_Subset, MciAssumption DEF MciAssumption
<1>4. Dominant(j.seen) = j.seen[v]
  BY <1>1, <1>2, <1>3, DominantOfAll DEF WholeIn
<1> QED
  BY <1>1, <1>2, <1>4 DEF WholeIn, Known, LooksOver

-----------------------------------------------------------------------------
(* Each action keeps SureInv.                                              *)

LEMMA SureParts ==
    ASSUME SureInv, NEW c \in Clients
    PROVE  /\ job[c] \in JobRecord /\ JobOK(job[c]) /\ SureJob(job[c])
           /\ Chain(job[c]) /\ Known(job[c]) /\ KnownAt(job[c].pc, job[c])
           /\ MciType /\ job \in [Clients -> JobRecord]
           /\ \A v \in Vms : VmSure(v)
           /\ ~mci.there => Listed = {}
           /\ \A a \in Controls \cup {"None"} : UpdateMciInfo(a) => mci'.there = mci.there
BY DEF SureInv, TypeInv, JobsOK, JobOK, SureJob, WorldSure, MciType, UpdateMciInfo

LEMMA SureSeen ==
    ASSUME NEW j \in JobRecord, Chain(j), Known(j), j.pc \in {"status", "try", "fetch", "advance"},
           Listed \subseteq DOMAIN j.seen
    PROVE  SureJob(Proceed(j))
<1>1. \A q \in Stages : j.pc \in After(q) => KnownAt(q, j)
  BY DEF After, KnownAt, Stages
<1> QED
  BY <1>1, SureProceed

LEMMA SureRead ==
    ASSUME NEW j \in JobRecord, Chain(j), Known(j), NEW r \in Controls \cup {"None", "error"},
           NEW f \in SeenMaps, r = "error" => ~mci.there,
           \A v \in DOMAIN f : f[v] \in LooksOver => Lost(v)
    PROVE  LET k == Reading(j, r, f) IN
           /\ k.pc = j.pc /\ k.rest = j.rest /\ k.kind = j.kind /\ k.act = j.act
           /\ k.opt = j.opt /\ k.target = j.target /\ k.at = j.at /\ k.read = r /\ k.seen = f
           /\ k \in JobRecord /\ Chain(k) /\ Known(k)
<1> DEFINE k == Reading(j, r, f)
<1>1. /\ k.pc = j.pc /\ k.rest = j.rest /\ k.kind = j.kind /\ k.act = j.act
      /\ k.opt = j.opt /\ k.target = j.target /\ k.at = j.at /\ k.read = r /\ k.seen = f
      /\ k \in JobRecord
  BY DEF Reading, JobRecord
<1> HIDE DEF k
<1>2. Chain(k)
  BY <1>1 DEF Chain, Stage
<1>3. Known(k)
  BY <1>1 DEF Known
<1> QED
  BY <1>1, <1>2, <1>3 DEF k

LEMMA SureStatusRead ==
    ASSUME SureInv, TypeInv', NEW c \in Clients, StatusRead(c)
    PROVE  SureInv' /\ DropsOver
<1> DEFINE i == job[c]
           j == [i EXCEPT !.read = mci.action, !.seen = Unseen]
           e == [j EXCEPT !.read = "error"]
           p == Place(j, Listed, "fetch")
<1>1. /\ i \in JobRecord /\ Chain(i) /\ Known(i) /\ MciType /\ (~mci.there => Listed = {})
      /\ i.pc \in {"status", "try"}
  BY SureParts DEF StatusRead
<1>2. mci.action \in Controls \cup {"None"} /\ mci.action # "error"
  BY <1>1 DEF MciType, Controls
<1>3. Unseen \in SeenMaps /\ DOMAIN Unseen = {}
  BY UnseenType DEF Unseen
<1>4. j = Reading(i, mci.action, Unseen)
  BY DEF Reading
<1>5. e = Reading(i, "error", Unseen)
  BY <1>1 DEF Reading, JobRecord
<1> HIDE DEF i, j, e
<1>6. /\ j \in JobRecord /\ Chain(j) /\ Known(j) /\ j.pc = i.pc /\ j.seen = Unseen
  BY <1>1, <1>2, <1>3, <1>4, SureRead
<1>7. CASE ~mci.there /\ i.pc = "status"
  <2>1. Set(c, Idle)
    BY <1>6, <1>7 DEF StatusRead, i, j
  <2> QED
    BY <2>1, SureIdle, SureMove DEF StatusRead
<1>8. CASE ~mci.there /\ i.pc = "try"
  <2>1. Set(c, Proceed(e))
    BY <1>6, <1>8 DEF StatusRead, i, j, e
  <2>2. e \in JobRecord /\ Chain(e) /\ Known(e) /\ e.pc = i.pc /\ e.seen = Unseen
    BY <1>1, <1>3, <1>5, <1>8, SureRead
  <2>3. SureJob(Proceed(e))
    BY <2>2, <1>1, <1>8, SureSeen
  <2> QED
    BY <2>1, <2>3, SureMove DEF StatusRead
<1>9. CASE mci.there /\ Listed = {}
  <2>1. Set(c, Proceed(j))
    BY <1>9 DEF StatusRead, i, j
  <2>2. SureJob(Proceed(j))
    BY <1>1, <1>6, <1>9, SureSeen
  <2> QED
    BY <2>1, <2>2, SureMove DEF StatusRead
<1>10. CASE mci.there /\ Listed # {}
  <2>1. Set(c, [p EXCEPT !.pc = "fetch"])
    BY <1>10 DEF StatusRead, i, j
  <2>2. /\ p \in JobRecord /\ Chain(p) /\ Known(p) /\ p.pc = j.pc
        /\ \A v \in Listed : p.at[v] = "fetch"
    BY <1>6, SurePlace DEF Places, Listed
  <2> HIDE DEF p
  <2>3. SureJob([p EXCEPT !.pc = "fetch"])
    BY <2>2, <1>1, <1>6, SureFetching
  <2> QED
    BY <2>1, <2>3, SureMove DEF StatusRead
<1> QED
  BY <1>1, <1>7, <1>8, <1>9, <1>10

LEMMA AheadFetch ==
    ASSUME SureInv, Unforced, NEW v \in Vms, NEW s \in Statuses, FetchVmStatus(v, s),
           UNCHANGED <<mci, csp>>
    PROVE  Ahead /\ WorldSure' /\ DropsOver /\ (s \in LooksOver => Lost(v))
<1>1. /\ \A w \in Vms : vm'[w].there = vm[w].there /\ vm'[w].named = vm[w].named
      /\ \A w \in Vms : vm'[w].status \in LooksOver => Over(w)
      /\ s \in LooksOver => Lost(v)
  BY FetchSure
<1>2. WorldSure
  BY DEF SureInv
<1>3. Listed' = Listed
  BY <1>1 DEF Listed
<1>4. \A w \in Vms : Over(w)' = Over(w) /\ Leaving(w)' = Leaving(w)
  BY DEF Over, Leaving
<1>5. WorldSure'
  BY <1>1, <1>2, <1>3, <1>4 DEF WorldSure, VmSure
<1> QED
  BY <1>1, <1>4, <1>5 DEF Ahead, DropsOver

LEMMA SureStatusFetch ==
    ASSUME SureInv, TypeInv', Unforced, NEW c \in Clients, NEW v \in Vms, StatusFetch(c, v)
    PROVE  SureInv' /\ DropsOver
<1> DEFINE i == job[c]
           p == Place(i, {v}, "out")
<1>1. /\ i \in JobRecord /\ Chain(i) /\ Known(i) /\ KnownAt(i.pc, i) /\ i.pc = "fetch"
  BY SureParts DEF StatusFetch
<1>2. PICK s \in Statuses : FetchVmStatus(v, s) /\ Set(c, [p EXCEPT !.seen = Seen(@, v, s)])
  BY DEF StatusFetch
<1>3. Ahead /\ WorldSure' /\ DropsOver /\ (s \in LooksOver => Lost(v))
  BY <1>2, AheadFetch DEF StatusFetch
<1> HIDE DEF i
<1>4. /\ p \in JobRecord /\ Chain(p) /\ Known(p) /\ p.pc = "fetch" /\ p.seen = i.seen
      /\ \A w \in Vms : w # v => p.at[w] = i.at[w]
  BY <1>1, SurePlace DEF Places
<1> HIDE DEF p
<1> DEFINE f == Seen(p.seen, v, s)
           k == Reading(p, p.read, f)
<1>5. [p EXCEPT !.seen = Seen(p.seen, v, s)] = k
  BY <1>4, ReadingIs
<1>6. f \in SeenMaps /\ DOMAIN f = DOMAIN p.seen \cup {v}
      /\ \A w \in DOMAIN f : f[w] = IF w = v THEN s ELSE p.seen[w]
  <2>1. f \in SeenMaps
    BY <1>4, SeenType DEF JobRecord
  <2> QED
    BY <2>1 DEF Seen
<1> HIDE DEF f
<1>7. \A w \in DOMAIN f : f[w] \in LooksOver => Lost(w)
  BY <1>3, <1>4, <1>6 DEF Known
<1>8. p.read \in Controls \cup {"None", "error"} /\ (p.read = "error" => ~mci.there)
  BY <1>4 DEF JobRecord, Known
<1>9. /\ k.pc = "fetch" /\ k.at = p.at /\ k.seen = f /\ Chain(k) /\ Known(k)
  BY <1>4, <1>6, <1>7, <1>8, SureRead
<1> HIDE DEF k
<1>10. KnownAt(k.pc, k)
  <2>1. \A w \in Listed : i.at[w] = "fetch" \/ w \in DOMAIN i.seen
    BY <1>1 DEF KnownAt
  <2>2. \A w \in Listed : k.at[w] = "fetch" \/ w \in DOMAIN k.seen
    BY <2>1, <1>4, <1>6, <1>9 DEF Listed
  <2> QED
    BY <2>2, <1>9 DEF KnownAt
<1>11. Set(c, k) /\ SureJob(k)
  BY <1>2, <1>5, <1>9, <1>10 DEF SureJob
<1> QED
  BY <1>3, <1>11, SureGo

LEMMA SureStatusEnd ==
    ASSUME SureInv, TypeInv', NEW c \in Clients, StatusEnd(c)
    PROVE  SureInv' /\ DropsOver
<1> DEFINE i == job[c]
           n == [i EXCEPT !.read = "None"]
<1>1. /\ i \in JobRecord /\ Chain(i) /\ Known(i) /\ KnownAt(i.pc, i) /\ i.pc = "fetch"
      /\ i.at = Out
      /\ \A a \in Controls \cup {"None"} : UpdateMciInfo(a) => mci'.there = mci.there
  BY SureParts DEF StatusEnd
<1>2. mci'.there = mci.there
  BY <1>1 DEF StatusEnd
<1>3. Set(c, Proceed(n)) \/ Set(c, Proceed(i))
  BY DEF StatusEnd
<1>4. n = Reading(i, "None", i.seen) /\ i.seen \in SeenMaps
  BY <1>1, ReadingIs DEF JobRecord
<1> HIDE DEF i, n
<1>5. Listed \subseteq DOMAIN i.seen
  <2>1. \A v \in Listed : i.at[v] = "out"
    BY <1>1 DEF Out, Listed
  <2> QED
    BY <2>1, <1>1 DEF KnownAt
<1>6. n \in JobRecord /\ Chain(n) /\ Known(n) /\ n.pc = "fetch" /\ n.seen = i.seen
  BY <1>1, <1>4, SureRead DEF Known
<1>7. SureJob(Proceed(i)) /\ SureJob(Proceed(n))
  BY <1>1, <1>5, <1>6, SureSeen
<1> QED
  BY <1>2, <1>3, <1>7, SureMove DEF StatusEnd

\* Steps that only go from stage to stage.
LEMMA SureGuards ==
    ASSUME SureInv, TypeInv', NEW c \in Clients,
           ControlGuard(c) \/ ControlSelected(c) \/ ControlComplete(c) \/ RefineWrite(c)
    PROVE  SureInv' /\ DropsOver
<1>1. /\ job[c] \in JobRecord /\ Chain(job[c]) /\ Known(job[c]) /\ JobOK(job[c])
      /\ job[c].pc \in {"guard", "select", "complete", "rewrite"}
      /\ \A a \in Controls \cup {"None"} : UpdateMciInfo(a) => mci'.there = mci.there
  BY SureParts DEF ControlGuard, ControlSelected, ControlComplete, RefineWrite
<1>2. SureJob(Proceed(job[c]))
  BY <1>1, SurePlain DEF Telling
<1>3. Set(c, Proceed(job[c])) \/ Set(c, Idle)
  BY DEF ControlGuard, ControlSelected, ControlComplete, RefineWrite
<1>4. mci'.there = mci.there
  <2>1. job[c].pc = "rewrite" => job[c].read \in Controls \cup {"None"}
    BY <1>1 DEF JobOK, JobRecord
  <2>2. \/ mci' = mci \/ UpdateMciInfo("None")
        \/ job[c].pc = "rewrite" /\ UpdateMciInfo(job[c].read)
    BY DEF ControlGuard, ControlSelected, ControlComplete, RefineWrite
  <2> QED
    BY <1>1, <2>1, <2>2
<1>5. UNCHANGED <<vm, csp>>
  BY DEF ControlGuard, ControlSelected, ControlComplete, RefineWrite
<1> QED
  BY <1>2, <1>3, <1>4, <1>5, SureIdle, SureMove

LEMMA SurePlacing ==
    ASSUME NEW j \in JobRecord, Chain(j), Known(j), NEW V, NEW p \in Places,
           p = "drop" => \A v \in V \cap Vms : Lost(v),
           j.pc \notin {"fetch", "dropAll", "runOne"}, KnownAt(j.pc, j)
    PROVE  SureJob(Place(j, V, p))
<1> DEFINE k == Place(j, V, p)
<1>1. /\ k.pc = j.pc /\ k.act = j.act /\ k.target = j.target /\ k.seen = j.seen
      /\ Chain(k) /\ Known(k)
  BY SurePlace
<1> HIDE DEF k
<1>2. KnownAt(k.pc, k)
  BY <1>1 DEF KnownAt
<1> QED
  BY <1>1, <1>2 DEF SureJob, k

LEMMA SureLaunch ==
    ASSUME SureInv, TypeInv', NEW c \in Clients, ControlLaunch(c)
    PROVE  SureInv' /\ DropsOver
<1> DEFINE i == job[c]
           k == Proceed(i)
<1>1. /\ i \in JobRecord /\ Chain(i) /\ Known(i) /\ JobOK(i)
      /\ i.pc = "launch" /\ i.act \in Controls
      /\ \A a \in Controls \cup {"None"} : UpdateMciInfo(a) => mci'.there = mci.there
  BY SureParts DEF ControlLaunch, JobOK
<1>2. mci'.there = mci.there
  BY <1>1 DEF ControlLaunch
<1>3. Set(c, Place(k, Listed, "check")) \/ Set(c, Idle)
  BY DEF ControlLaunch
<1>4. SureJob(k) /\ k.pc = "select" /\ k \in JobRecord
  <2>1. Len(i.rest) \in Nat
    BY <1>1 DEF JobRecord
  <2>2. Stage(i, 0) = "launch" /\ 0 \in 0..Len(i.rest)
    BY <1>1, <2>1 DEF Stage
  <2>3. i.rest # <<>> /\ i.rest[1] = "select"
    BY <2>1, <2>2, <1>1 DEF JobOK, Linked
  <2> QED
    BY <1>1, <2>3, SurePlain, ProceedIs DEF Telling
<1> HIDE DEF k
<1>5. SureJob(Place(k, Listed, "check"))
  BY <1>4, SurePlacing DEF SureJob, Places
<1>6. UNCHANGED <<vm, csp>>
  BY DEF ControlLaunch
<1> QED
  BY <1>2, <1>3, <1>5, <1>6, SureIdle, SureMove

LEMMA SureSelect ==
    ASSUME SureInv, TypeInv', NEW c \in Clients, NEW v \in Vms, ControlSelect(c, v)
    PROVE  SureInv' /\ DropsOver
<1>1. /\ job[c] \in JobRecord /\ Chain(job[c]) /\ Known(job[c]) /\ KnownAt(job[c].pc, job[c])
      /\ job[c].pc = "select"
  BY SureParts DEF ControlSelect
<1>2. SureJob(Place(job[c], {v}, "start")) /\ SureJob(Place(job[c], {v}, "out"))
  BY <1>1, SurePlacing DEF Places
<1>3. Set(c, Place(job[c], {v}, "start")) \/ Set(c, Place(job[c], {v}, "out"))
  BY DEF ControlSelect
<1> QED
  BY <1>2, <1>3, SureMove DEF ControlSelect

LEMMA SureVmGuard ==
    ASSUME SureInv, TypeInv', NEW c \in Clients, VmGuard(c)
    PROVE  SureInv' /\ DropsOver
<1> DEFINE i == job[c]
           k == Proceed(i)
           p == Place(k, i.target, "start")
<1>1. i \in JobRecord /\ Chain(i) /\ Known(i) /\ i.pc = "vmGuard"
  BY SureParts DEF VmGuard
<1>2. Set(c, p) \/ Set(c, Idle)
  BY DEF VmGuard
<1> HIDE DEF i
<1>3. SureJob(p)
  <2>1. CASE i.rest = <<>>
    <3>1. p = Place(Idle, i.target, "start")
      BY <2>1 DEF Proceed
    <3>2. Idle.pc = "idle"
      BY DEF Idle
    <3> QED
      BY <3>1, <3>2, SureIdle, IdleType, SurePlacing DEF SureJob, Places
  <2>2. CASE i.rest # <<>>
    <3>1. k \in JobRecord /\ Chain(k) /\ k.pc \in Stages /\ i.pc \in After(k.pc) /\ k.target = i.target
      BY <1>1, <2>2, ProceedIs, ChainProceed
    <3>2. Known(k)
      BY <1>1, <2>2, ProceedIs DEF Known
    <3> HIDE DEF k
    <3>3. /\ p.pc = k.pc /\ p.target = i.target /\ Chain(p) /\ Known(p)
          /\ \A v \in Vms : v \in i.target => p.at[v] = "start"
      BY <3>1, <3>2, SurePlace DEF Places
    <3>4. i.target \subseteq Vms
      BY <1>1 DEF JobRecord
    <3> HIDE DEF p
    <3>5. KnownAt(p.pc, p)
      BY <1>1, <3>1, <3>3, <3>4 DEF After, KnownAt, Stages
    <3> QED
      BY <3>3, <3>5 DEF SureJob
  <2> QED
    BY <2>1, <2>2
<1>4. UNCHANGED <<mci, vm, csp>>
  BY DEF VmGuard
<1> QED
  BY <1>2, <1>3, <1>4, SureIdle, SureMove

\* A deletion that is not forced goes on only when all VMs are lost.
LEMMA SureCheck ==
    ASSUME SureInv, TypeInv', NEW c \in Clients, DelMciCheck(c)
    PROVE  SureInv' /\ DropsOver
<1> DEFINE i == job[c]
           k == Proceed(i)
           p == Place(k, Listed, "drop")
<1>1. /\ i \in JobRecord /\ Chain(i) /\ Known(i) /\ KnownAt(i.pc, i) /\ i.pc = "check"
      /\ ~mci.there => Listed = {}
  BY SureParts DEF DelMciCheck
<1>2. CASE Deletable(i) \/ i.opt = "force"
  <2>0. Set(c, p)
    BY <1>2 DEF DelMciCheck
  <2> HIDE DEF i
  <2>1. \A v \in Listed : Lost(v)
    <3>1. Listed \subseteq DOMAIN i.seen /\ i.opt # "force"
      BY <1>1 DEF KnownAt, Known
    <3> QED
      BY <1>1, <1>2, <3>1, DeletableSure
  <2>2. SureJob(p)
    <3>1. CASE i.rest = <<>>
      <4>1. p = Place(Idle, Listed, "drop")
        BY <3>1 DEF Proceed
      <4>2. Idle.pc = "idle"
        BY DEF Idle
      <4> QED
        BY <2>1, <4>1, <4>2, SureIdle, IdleType, SurePlacing DEF SureJob, Places
    <3>2. CASE i.rest # <<>>
      <4>1. k \in JobRecord /\ Chain(k) /\ k.pc \in Stages /\ i.pc \in After(k.pc)
        BY <1>1, <3>2, ProceedIs, ChainProceed
      <4>2. Known(k)
        BY <1>1, <3>2, ProceedIs DEF Known
      <4> HIDE DEF k
      <4>3. /\ p.pc = k.pc /\ Chain(p) /\ Known(p)
            /\ \A v \in Listed : p.at[v] = "drop"
        BY <2>1, <4>1, <4>2, SurePlace DEF Places, Listed
      <4> HIDE DEF p
      <4>4. KnownAt(p.pc, p)
        BY <1>1, <4>1, <4>3 DEF After, KnownAt, Stages
      <4> QED
        BY <4>3, <4>4 DEF SureJob
    <3> QED
      BY <3>1, <3>2
  <2>3. UNCHANGED <<mci, vm, csp>>
    BY DEF DelMciCheck
  <2> QED
    BY <2>0, <2>2, <2>3, SureMove
<1>3. CASE ~(Deletable(i) \/ i.opt = "force")
  <2>1. Set(c, Idle) /\ UNCHANGED <<mci, vm, csp>>
    BY <1>3 DEF DelMciCheck
  <2> QED
    BY <2>1, SureIdle, SureMove
<1> QED
  BY <1>2, <1>3

LEMMA SureEnd ==
    ASSUME SureInv, TypeInv', NEW c \in Clients, ControlEnd(c)
    PROVE  SureInv' /\ DropsOver
<1> DEFINE i == job[c]
<1>1. /\ i \in JobRecord /\ Chain(i) /\ Known(i) /\ KnownAt(i.pc, i)
      /\ i.pc \in {"run", "runOne"} /\ i.at = Out
  BY SureParts DEF ControlEnd, Running
<1>2. Set(c, Proceed(i)) /\ UNCHANGED <<mci, vm, csp>>
  BY DEF ControlEnd
<1> HIDE DEF i
<1>3. CASE i.pc = "run"
  BY <1>1, <1>2, <1>3, SurePlain, SureMove DEF Telling
<1>4. CASE i.pc = "runOne"
  <2>1. i.target \subseteq Vms /\ \A v \in i.target : i.at[v] = "out"
    BY <1>1 DEF JobRecord, Out
  <2>2. i.kind = "drop" => \A v \in i.target : Leaving(v)
    BY <1>1, <1>4, <2>1 DEF Known, KnownAt
  <2>3. \A q \in Stages : i.pc \in After(q) /\ (q = "dropVm" => i.kind = "drop") => KnownAt(q, i)
    BY <1>4, <2>2 DEF After, KnownAt, Stages
  <2>4. SureJob(Proceed(i))
    BY <1>1, <2>3, SureProceed
  <2> QED
    BY <1>2, <2>4, SureMove
<1> QED
  BY <1>1, <1>3, <1>4

LEMMA SureRunning ==
    ASSUME NEW j \in JobRecord, Chain(j), Known(j), KnownAt(j.pc, j), j.pc \in {"run", "runOne"},
           NEW v \in Vms, NEW p \in Places \ {"drop"},
           j.pc = "run" \/ j.act # "Terminate" \/ p \in {"start", "call"} \/ Leaving(v)
    PROVE  SureJob(Place(j, {v}, p))
<1> DEFINE k == Place(j, {v}, p)
<1>1. /\ k.pc = j.pc /\ k.act = j.act /\ k.target = j.target /\ k.seen = j.seen
      /\ Chain(k) /\ Known(k)
      /\ \A w \in Vms : k.at[w] = IF w \in {v} THEN p ELSE j.at[w]
  BY SurePlace
<1> HIDE DEF k
<1>2. j.target \subseteq Vms
  BY DEF JobRecord
<1>3. KnownAt(k.pc, k)
  BY <1>1, <1>2 DEF KnownAt
<1> QED
  BY <1>1, <1>3 DEF SureJob, k

LEMMA SureError ==
    ASSUME NEW j \in JobRecord, Chain(j), Known(j), KnownAt(j.pc, j), j.pc \in {"run", "runOne"},
           NEW v \in Vms
    PROVE  SureJob(Error(j, v))
BY SureRunning, SureIdle DEF Error, Places

LEMMA SureStart ==
    ASSUME SureInv, TypeInv', NEW c \in Clients, NEW v \in Vms, ControlStart(c, v)
    PROVE  SureInv' /\ DropsOver
<1> DEFINE i == job[c]
<1>1. /\ i \in JobRecord /\ Chain(i) /\ Known(i) /\ KnownAt(i.pc, i)
      /\ i.pc \in {"run", "runOne"} /\ MciType /\ \A w \in Vms : VmSure(w)
  BY SureParts DEF ControlStart, Running
<1>2. mci' = mci /\ csp' = csp
  BY DEF ControlStart
<1>3. CASE Set(c, Error(i, v)) /\ vm' = vm
  BY <1>1, <1>2, <1>3, SureError, SureMove
<1>4. CASE /\ vm[v].status = "Terminated" \/ (vm[v].status = TargetOf(i.act) /\ i.act # "Reboot")
           /\ Set(c, Place(i, {v}, "out")) /\ vm' = vm
  <2>1. i.act = "Terminate" => Leaving(v)
    BY <1>1, <1>4 DEF TargetOf, VmSure, LooksOver, Over, Leaving
  <2> HIDE DEF i
  <2>2. SureJob(Place(i, {v}, "out"))
    BY <1>1, <2>1, SureRunning DEF Places
  <2> QED
    BY <1>2, <1>4, <2>2, SureMove
<1>5. CASE vm' = [vm EXCEPT ![v] = Intent(@, i.act)] /\ Set(c, Place(i, {v}, "call"))
  <2>1. SureJob(Place(i, {v}, "call"))
    BY <1>1, SureRunning DEF Places
  <2>2. /\ \A w \in Vms : vm'[w].there = vm[w].there /\ vm'[w].named = vm[w].named
        /\ \A w \in Vms : vm'[w].status \in LooksOver => vm[w].status \in LooksOver
    <3>1. vm \in [Vms -> VmRecord]
      BY <1>1 DEF MciType
    <3>2. \A a : During(a) \notin LooksOver
      BY DEF During, LooksOver
    <3>3. vm'[v] = Intent(vm[v], i.act) /\ \A w \in Vms : w # v => vm'[w] = vm[w]
      BY <1>5, <3>1
    <3>4. vm[v] \in VmRecord
      BY <3>1
    <3>5. /\ Intent(vm[v], i.act).there = vm[v].there /\ Intent(vm[v], i.act).named = vm[v].named
          /\ Intent(vm[v], i.act).status = During(i.act)
      BY <3>4 DEF Intent, VmRecord
    <3> QED
      BY <3>2, <3>3, <3>5
  <2>3. Ahead /\ DropsOver /\ Listed' = Listed
    BY <1>2, <2>2 DEF Ahead, DropsOver, Listed, Over, Leaving
  <2>4. WorldSure'
    BY <1>2, <2>2, <2>3 DEF SureInv, WorldSure, VmSure, Over
  <2> QED
    BY <1>5, <2>1, <2>3, <2>4, SureGo
<1> QED
  BY <1>3, <1>4, <1>5 DEF ControlStart

LEMMA SureCall ==
    ASSUME SureInv, TypeInv', NEW c \in Clients, NEW v \in Vms, ControlCall(c, v)
    PROVE  SureInv' /\ DropsOver
<1> DEFINE i == job[c]
           k == Place(i, {v}, "follow")
<1>1. /\ i \in JobRecord /\ JobOK(i) /\ Chain(i) /\ Known(i) /\ KnownAt(i.pc, i)
      /\ i.pc \in {"run", "runOne"} /\ i.act \in Controls
      /\ MciType /\ \A w \in Vms : VmSure(w)
  BY SureParts DEF ControlCall, Running, JobOK
<1>2. mci' = mci /\ vm' = vm
  BY DEF ControlCall
<1>3. CASE Set(c, Error(i, v)) /\ csp' = csp
  BY <1>1, <1>2, <1>3, SureError, SureMove
<1>4. CASE Accepts(csp[v], i.act) /\ csp' = [csp EXCEPT ![v] = During(i.act)] /\ Set(c, k)
  <2>1. csp'[v] = During(i.act) /\ \A w \in Vms : w # v => csp'[w] = csp[w]
    BY <1>1, <1>4 DEF MciType
  <2>2. ~Over(v) /\ (Leaving(v) \/ i.act = "Terminate" => csp'[v] = "Terminating")
    BY <1>1, <1>4, <2>1 DEF Accepts, During, Over, Leaving, Controls
  <2>3. Ahead /\ DropsOver /\ Listed' = Listed
    BY <1>2, <2>1, <2>2 DEF Ahead, DropsOver, Listed, Over, Leaving
  <2>4. WorldSure'
    <3>1. WorldSure
      BY DEF SureInv
    <3>2. vm[v].named /\ vm[v].status \notin LooksOver
      BY <1>1, <2>2 DEF VmSure, Over
    <3>3. \A w \in Vms : VmSure(w)'
      BY <1>1, <1>2, <2>1, <3>2 DEF VmSure, Over
    <3> QED
      BY <1>2, <2>3, <3>1, <3>3 DEF WorldSure
  <2> HIDE DEF i
  <2>5. /\ k.pc = i.pc /\ k.act = i.act /\ k.target = i.target /\ Chain(k) /\ Known(k)
        /\ \A w \in Vms : k.at[w] = IF w \in {v} THEN "follow" ELSE i.at[w]
    BY <1>1, SurePlace DEF Places
  <2>6. k \in JobRecord
    BY <1>1, SurePlace DEF Places
  <2> HIDE DEF k
  <2>7. PICK l : l = k
    OBVIOUS
  <2>8. Chain(l)' /\ Known(l)'
    <3>1. /\ \A w \in Vms : (Lost(w) => Lost(w)')
          /\ mci'.there => mci.there
      BY <2>3, AheadKeeps DEF Ahead
    <3>2. DOMAIN k.seen \subseteq Vms
      BY <2>6 DEF JobRecord, SeenMaps
    <3>3. Chain(l)'
      BY <2>5, <2>7 DEF Chain, Stage
    <3>4. Known(l)'
      BY <2>5, <2>7, <3>1, <3>2 DEF Known
    <3> QED
      BY <3>3, <3>4
  <2>9. KnownAt(l.pc, l)'
    <3>1. i.target \subseteq Vms
      BY <1>1 DEF JobRecord
    <3>2. i.act = "Terminate" => Leaving(v)'
      BY <2>2 DEF Leaving
    <3>3. \A w \in Vms : Leaving(w) => Leaving(w)'
      BY <2>3 DEF Ahead
    <3>4. i.pc = "runOne" /\ i.act = "Terminate" =>
             \A w \in i.target : i.at[w] \in {"start", "call"} \/ Leaving(w)
      BY <1>1 DEF KnownAt
    <3>5. l.pc = "runOne" /\ l.act = "Terminate" =>
             \A w \in l.target : l.at[w] \in {"start", "call"} \/ Leaving(w)'
      BY <2>5, <2>7, <3>1, <3>2, <3>3, <3>4
    <3>6. l.pc \in {"run", "runOne"}
      BY <1>1, <2>5, <2>7
    <3> QED
      BY <3>5, <3>6 DEF KnownAt
  <2>10. Set(c, l) /\ SureJob(l)'
    BY <1>4, <2>7, <2>8, <2>9 DEF SureJob, k
  <2> QED
    BY <2>3, <2>4, <2>10, SureStep
<1> QED
  BY <1>3, <1>4 DEF ControlCall

LEMMA SureFollow ==
    ASSUME SureInv, TypeInv', Unforced, NEW c \in Clients, NEW v \in Vms, ControlFollow(c, v)
    PROVE  SureInv' /\ DropsOver
<1> DEFINE i == job[c]
<1>1. /\ i \in JobRecord /\ Chain(i) /\ Known(i) /\ KnownAt(i.pc, i)
      /\ i.pc \in {"run", "runOne"} /\ i.at[v] = "follow"
  BY SureParts DEF ControlFollow, Running
<1>2. PICK s \in Statuses : FetchVmStatus(v, s)
  BY DEF ControlFollow
<1>3. Ahead /\ WorldSure' /\ DropsOver
  BY <1>2, AheadFetch DEF ControlFollow
<1>4. Set(c, Place(i, {v}, "out"))
  BY DEF ControlFollow
<1> HIDE DEF i
<1>5. SureJob(Place(i, {v}, "out"))
  <2> DEFINE k == Place(i, {v}, "out")
  <2>1. /\ k.pc = i.pc /\ k.act = i.act /\ k.target = i.target /\ Chain(k) /\ Known(k)
        /\ \A w \in Vms : k.at[w] = IF w \in {v} THEN "out" ELSE i.at[w]
    BY <1>1, SurePlace DEF Places
  <2>2. i.target \subseteq Vms
    BY <1>1 DEF JobRecord
  <2> HIDE DEF k
  <2>3. KnownAt(k.pc, k)
    BY <1>1, <2>1, <2>2 DEF KnownAt
  <2> QED
    BY <2>1, <2>3 DEF SureJob, k
<1> QED
  BY <1>3, <1>4, <1>5, SureGo

LEMMA SureDropVm ==
    ASSUME SureInv, TypeInv', NEW c \in Clients, DropVm(c)
    PROVE  SureInv' /\ DropsOver
<1> DEFINE i == job[c]
<1>1. /\ i \in JobRecord /\ Chain(i) /\ Known(i) /\ KnownAt(i.pc, i) /\ i.pc = "dropVm"
      /\ MciType
  BY SureParts DEF DropVm
<1>2. mci' = mci /\ csp' = csp /\ Set(c, Proceed(i))
      /\ vm' = [v \in Vms |-> IF v \in i.target THEN [vm[v] EXCEPT !.there = FALSE] ELSE vm[v]]
  BY DEF DropVm
<1> HIDE DEF i
<1>3. SureJob(Proceed(i))
  BY <1>1, SurePlain DEF Telling
<1>4. \A v \in Vms : /\ vm'[v].named = vm[v].named /\ vm'[v].status = vm[v].status
                     /\ vm'[v].there => vm[v].there
                     /\ vm[v].there /\ ~vm'[v].there => v \in i.target
  BY <1>1, <1>2 DEF MciType, VmRecord
<1>5. \A v \in i.target : Leaving(v)
  BY <1>1 DEF KnownAt
<1>6. Ahead /\ DropsOver /\ Listed' \subseteq Listed
  BY <1>2, <1>4, <1>5 DEF Ahead, DropsOver, Listed, Over, Leaving
<1>7. WorldSure'
  BY <1>2, <1>4, <1>6 DEF SureInv, WorldSure, VmSure, Over
<1> QED
  BY <1>2, <1>3, <1>6, <1>7, SureGo

LEMMA SureDropNext ==
    ASSUME SureInv, TypeInv', NEW c \in Clients, NEW v \in Vms, DropNext(c, v)
    PROVE  SureInv' /\ DropsOver
<1> DEFINE i == job[c]
           k == Place(i, {v}, "out")
<1>1. /\ i \in JobRecord /\ JobOK(i) /\ Chain(i) /\ Known(i) /\ KnownAt(i.pc, i)
      /\ i.pc \in {"purge", "dropAll"} /\ i.at[v] = "drop" /\ MciType
  BY SureParts DEF DropNext
<1>2. mci' = mci /\ csp' = csp
  BY DEF DropNext
<1>3. CASE ~vm[v].there
  <2>1. vm' = vm /\ Set(c, Idle)
    BY <1>3 DEF DropNext
  <2> QED
    BY <1>2, <2>1, SureIdle, SureMove
<1>4. CASE vm[v].there
  <2>1. Drop(v) /\ Set(c, k)
    BY <1>4 DEF DropNext
  <2>2. Over(v)
    BY <1>1, <1>4 DEF Known, Lost
  <2>3. \A w \in Vms : /\ vm'[w].named = vm[w].named /\ vm'[w].status = vm[w].status
                       /\ vm'[w].there = (vm[w].there /\ w # v)
    <3>1. vm \in [Vms -> VmRecord] /\ vm' = [vm EXCEPT ![v].there = FALSE]
      BY <1>1, <2>1 DEF MciType, Drop
    <3>2. \A w \in Vms : vm[w] \in VmRecord /\ (w # v => vm'[w] = vm[w])
      BY <3>1
    <3>3. vm'[v] = [vm[v] EXCEPT !.there = FALSE]
      BY <3>1
    <3> QED
      BY <3>2, <3>3 DEF VmRecord
  <2>4. Ahead /\ DropsOver /\ Listed' = Listed \ {v}
    BY <1>2, <2>2, <2>3 DEF Ahead, DropsOver, Listed, Over, Leaving
  <2>5. WorldSure'
    BY <1>2, <2>3, <2>4 DEF SureInv, WorldSure, VmSure, Over
  <2> HIDE DEF i
  <2>6. /\ k.pc = i.pc /\ k \in JobRecord /\ Chain(k) /\ Known(k)
        /\ \A w \in Vms : k.at[w] = IF w \in {v} THEN "out" ELSE i.at[w]
    BY <1>1, SurePlace DEF Places
  <2> HIDE DEF k
  <2>7. PICK l : l = k
    OBVIOUS
  <2>8. Chain(l)' /\ Known(l)'
    <3>1. /\ \A w \in Vms : (Lost(w) => Lost(w)')
          /\ mci'.there => mci.there
      BY <2>4, AheadKeeps DEF Ahead
    <3>2. DOMAIN k.seen \subseteq Vms
      BY <2>6 DEF JobRecord, SeenMaps
    <3>3. Chain(l)'
      BY <2>6, <2>7 DEF Chain, Stage
    <3>4. Known(l)'
      BY <2>6, <2>7, <3>1, <3>2 DEF Known
    <3> QED
      BY <3>3, <3>4
  <2>9. KnownAt(l.pc, l)'
    <3>1. i.pc = "dropAll" => \A w \in Listed : i.at[w] = "drop"
      BY <1>1 DEF KnownAt
    <3>2. l.pc = "dropAll" => \A w \in Listed' : l.at[w] = "drop"
      BY <2>4, <2>6, <2>7, <3>1 DEF Listed
    <3>3. l.pc \in {"purge", "dropAll"}
      BY <1>1, <2>6, <2>7
    <3> QED
      BY <3>2, <3>3 DEF KnownAt
  <2>10. Set(c, l) /\ SureJob(l)'
    BY <2>1, <2>7, <2>8, <2>9 DEF SureJob, k, i
  <2> QED
    BY <2>4, <2>5, <2>10, SureStep
<1> QED
  BY <1>3, <1>4

LEMMA SureDropEnd ==
    ASSUME SureInv, TypeInv', NEW c \in Clients, DropEnd(c)
    PROVE  SureInv' /\ DropsOver
<1> DEFINE i == job[c]
<1>1. /\ i \in JobRecord /\ Chain(i) /\ Known(i) /\ KnownAt(i.pc, i)
      /\ i.pc \in {"purge", "dropAll"} /\ i.at = Out
  BY SureParts DEF DropEnd
<1>2. Set(c, Proceed(i)) /\ UNCHANGED <<mci, vm, csp>>
  BY DEF DropEnd
<1> HIDE DEF i
<1>3. CASE i.pc = "purge"
  BY <1>1, <1>2, <1>3, SurePlain, SureMove DEF Telling
<1>4. CASE i.pc = "dropAll"
  <2>1. Listed = {}
    BY <1>1, <1>4 DEF KnownAt, Out, Listed
  <2>2. \A q \in Stages : i.pc \in After(q) => KnownAt(q, i)
    BY <1>4, <2>1 DEF After, KnownAt, Stages
  <2>3. SureJob(Proceed(i))
    BY <1>1, <2>2, SureProceed
  <2> QED
    BY <1>2, <2>3, SureMove
<1> QED
  BY <1>1, <1>3, <1>4

LEMMA ThenIs ==
    ASSUME NEW j \in JobRecord, NEW s \in Seq(Stages), s # <<>>
    PROVE  Then(j, s).pc = s[1] /\ Then(j, s) \in JobRecord
<1> DEFINE k == [j EXCEPT !.rest = s \o j.rest]
<1>1. s \o j.rest \in Seq(Stages) /\ s \o j.rest # <<>> /\ (s \o j.rest)[1] = s[1]
  BY DEF JobRecord
<1>2. k \in JobRecord /\ k.rest = s \o j.rest
  BY <1>1 DEF JobRecord
<1>3. Then(j, s) = Proceed(k)
  BY DEF Then
<1> HIDE DEF k
<1> QED
  BY <1>1, <1>2, <1>3, ProceedIs

\* Refining drops only VMs that looked lost.
LEMMA SureRefine ==
    ASSUME SureInv, TypeInv', NEW c \in Clients, Refine(c)
    PROVE  SureInv' /\ DropsOver
<1> DEFINE i == job[c]
           s == <<"purge", "reread", "rewrite">>
           k == Then(i, s)
           V == Doomed(i.seen)
<1>1. i \in JobRecord /\ Chain(i) /\ Known(i) /\ i.pc = "refine"
  BY SureParts DEF Refine
<1>2. (Set(c, Proceed(i)) \/ Set(c, Place(k, V, "drop"))) /\ UNCHANGED <<mci, vm, csp>>
  BY DEF Refine
<1> HIDE DEF i
<1>3. SureJob(Proceed(i))
  BY <1>1, SurePlain DEF Telling
<1>4. s \in Seq(Stages) /\ s # <<>> /\ s[1] = "purge"
  BY DEF Stages
<1>5. Fits(s, i.pc, i.kind)
  BY <1>1, FitsPurge
<1> HIDE DEF s
<1>6. SureJob(k) /\ k.pc = "purge" /\ k \in JobRecord
  BY <1>1, <1>4, <1>5, SureThen, ThenIs DEF Telling
<1>7. \A v \in V \cap Vms : Lost(v)
  BY <1>1 DEF Doomed, Known, LooksOver
<1> HIDE DEF k, V
<1>8. SureJob(Place(k, V, "drop"))
  BY <1>6, <1>7, SurePlacing DEF SureJob, Places
<1> QED
  BY <1>2, <1>3, <1>8, SureMove

LEMMA SureRefineRead ==
    ASSUME SureInv, TypeInv', NEW c \in Clients, RefineRead(c)
    PROVE  SureInv' /\ DropsOver
<1> DEFINE i == job[c]
           n == [i EXCEPT !.read = mci.action]
<1>1. i \in JobRecord /\ Chain(i) /\ Known(i) /\ i.pc = "reread" /\ MciType
  BY SureParts DEF RefineRead
<1>2. Set(c, Proceed(n)) /\ UNCHANGED <<mci, vm, csp>>
  BY DEF RefineRead
<1>3. n = Reading(i, mci.action, i.seen)
  BY <1>1, ReadingIs
<1>4. mci.action \in Controls \cup {"None"} /\ mci.action # "error" /\ i.seen \in SeenMaps
  BY <1>1 DEF MciType, Controls, JobRecord
<1> HIDE DEF i, n
<1>5. n \in JobRecord /\ Chain(n) /\ Known(n) /\ n.pc = "reread"
  BY <1>1, <1>3, <1>4, SureRead DEF Known
<1>6. SureJob(Proceed(n))
  BY <1>5, SurePlain DEF Telling
<1> QED
  BY <1>2, <1>6, SureMove

LEMMA SureSplit ==
    ASSUME SureInv, TypeInv', NEW c \in Clients, DelMciAdvance(c) \/ DelMciTerminate(c)
    PROVE  SureInv' /\ DropsOver
<1> DEFINE i == job[c]
           s == <<"status", "refine", "terminate", "try">>
<1>1. /\ i \in JobRecord /\ Chain(i) /\ Known(i) /\ KnownAt(i.pc, i)
  BY SureParts
<1>2. UNCHANGED <<mci, vm, csp>>
  BY DEF DelMciAdvance, DelMciTerminate
<1>3. CASE DelMciAdvance(c)
  <2>1. i.pc = "advance" /\ (Set(c, Proceed(i)) \/ Set(c, Then(i, s)))
    BY <1>3 DEF DelMciAdvance
  <2> HIDE DEF i
  <2>2. Listed \subseteq DOMAIN i.seen
    BY <1>1, <2>1 DEF KnownAt
  <2>3. Fits(s, i.pc, i.kind)
    BY <2>1, FitsAdvance
  <2> HIDE DEF s
  <2>4. SureJob(Proceed(i)) /\ SureJob(Then(i, s))
    BY <1>1, <2>1, <2>2, <2>3, SureSeen, SureThen DEF Telling
  <2> QED
    BY <1>2, <2>1, <2>4, SureMove
<1>4. CASE DelMciTerminate(c)
  <2>1. i.pc = "terminate" /\ (Set(c, Proceed(i)) \/ Set(c, Then(i, ControlPlan)))
    BY <1>4 DEF DelMciTerminate
  <2> HIDE DEF i
  <2>2. Fits(ControlPlan, i.pc, i.kind)
    BY <2>1, FitsControl
  <2>3. SureJob(Proceed(i)) /\ SureJob(Then(i, ControlPlan))
    BY <1>1, <2>1, <2>2, SurePlain, SureThen DEF Telling
  <2> QED
    BY <1>2, <2>1, <2>3, SureMove
<1> QED
  BY <1>3, <1>4

\* The MCI goes when it lists no VM any more.
LEMMA SureLast ==
    ASSUME SureInv, TypeInv', NEW c \in Clients, DelMciLast(c)
    PROVE  SureInv' /\ DropsOver
<1>1. /\ job[c] \in JobRecord /\ Chain(job[c]) /\ Known(job[c]) /\ KnownAt(job[c].pc, job[c])
      /\ job[c].pc = "dropMci"
  BY SureParts DEF DelMciLast
<1>2. Listed = {}
  BY <1>1 DEF KnownAt
<1>3. SureJob(Proceed(job[c]))
  BY <1>1, SurePlain DEF Telling
<1>4. Set(c, Proceed(job[c])) /\ mci'.there = FALSE /\ UNCHANGED <<vm, csp>>
  BY DEF DelMciLast
<1> QED
  BY <1>2, <1>3, <1>4, SureMove

LEMMA SureRequest ==
    ASSUME SureInv, TypeInv', Unforced, NEW c \in Clients, NEW k \in Kinds, NEW a \in Wanted,
           NEW v \in Vms, NEW opt \in {"none", "force", "terminate"}, Request(c, k, a, v, opt)
    PROVE  SureInv' /\ DropsOver
<1> DEFINE V == IF k \in {"vm", "drop"} THEN {v} ELSE {}
           j == NewJob(k, ActionOf(k, a), opt, V)
<1>1. ActionOf(k, a) \in Controls /\ V \in SUBSET Vms
  BY MciAssumption DEF MciAssumption, ActionOf, Controls
<1>2. Set(c, j) /\ opt \in Options(k) /\ UNCHANGED <<mci, vm, csp>>
  BY DEF Request, NewJob
<1>3. opt \in {"none", "terminate"} /\ (k = "drop" => opt = "none" /\ ActionOf(k, a) = "Terminate")
  BY <1>2 DEF Options, Unforced, ActionOf
<1> HIDE DEF V
<1>4. SureJob(j)
  BY <1>1, <1>3, SureNew
<1> QED
  BY <1>2, <1>4, SureMove

LEMMA SureCspProgress ==
    ASSUME SureInv, TypeInv', NEW v \in Vms, CspProgress(v)
    PROVE  SureInv' /\ DropsOver
<1>1. mci' = mci /\ vm' = vm /\ job' = job
  BY DEF CspProgress
<1>2. csp \in [Vms -> CspStates]
  BY DEF SureInv, TypeInv, MciType
<1>3. \A w \in Vms : (Over(w) => Over(w)') /\ (Leaving(w) => Leaving(w)')
                     /\ (csp[w] = "Absent" => csp'[w] = "Absent")
  BY <1>2 DEF CspProgress, Over, Leaving
<1>4. Ahead /\ DropsOver /\ Listed' = Listed
  BY <1>1, <1>3 DEF Ahead, DropsOver, Listed
<1>5. WorldSure'
  BY <1>1, <1>3, <1>4 DEF SureInv, WorldSure, VmSure
<1>6. ASSUME NEW c \in Clients PROVE SureJob(job[c])'
  <2>1. PICK j : j = job[c]
    OBVIOUS
  <2>2. JobOK(j) /\ SureJob(j)
    BY <2>1 DEF SureInv, TypeInv, JobsOK
  <2>3. SureJob(j)'
    BY <1>4, <2>2, SureAhead
  <2> QED
    BY <1>1, <2>1, <2>3
<1> QED
  BY <1>4, <1>5, <1>6 DEF SureInv

LEMMA SureServe ==
    ASSUME SureInv, TypeInv', Unforced, NEW c \in Clients, Serve(c)
    PROVE  SureInv' /\ DropsOver
<1>1. CASE GetMciStatus(c)
  BY <1>1, SureStatusRead, SureStatusFetch, SureStatusEnd DEF GetMciStatus
<1>2. CASE ControlMci(c)
  BY <1>2, SureGuards, SureLaunch, SureSelect, SureStart, SureCall, SureFollow, SureEnd, SureVmGuard
  DEF ControlMci, ControlVm
<1>3. CASE Deletion(c)
  BY <1>3, SureDropVm, SureRefine, SureDropNext, SureDropEnd, SureRefineRead, SureGuards, SureSplit,
     SureCheck, SureLast
  DEF Deletion
<1> QED
  BY <1>1, <1>2, <1>3 DEF Serve

LEMMA SureNext == SureInv /\ Unforced /\ [Next]_vars => SureInv' /\ DropsOver
<1> SUFFICES ASSUME SureInv, Unforced, [Next]_vars PROVE SureInv' /\ DropsOver
  OBVIOUS
<1>1. TypeInv'
  BY TypeStepOK DEF SureInv
<1>2. CASE \E c \in Clients, k \in Kinds, a \in Wanted, v \in Vms,
             opt \in {"none", "force", "terminate"} : Request(c, k, a, v, opt)
  BY <1>1, <1>2, SureRequest
<1>3. CASE \E c \in Clients : Serve(c)
  BY <1>1, <1>3, SureServe
<1>4. CASE \E v \in Vms : CspProgress(v)
  BY <1>1, <1>4, SureCspProgress
<1>5. CASE UNCHANGED vars
  BY <1>1, <1>5
  DEF SureInv, WorldSure, VmSure, SureJob, Chain, Stage, Known, KnownAt, Lost, Over, Leaving, Listed,
      DropsOver, vars
<1> QED
  BY <1>2, <1>3, <1>4, <1>5 DEF Next

LEMMA SureInit == Init /\ Unforced => SureInv
<1> SUFFICES ASSUME Init PROVE SureInv
  OBVIOUS
<1>1. \A c \in Clients : SureJob(job[c])
  BY SureIdle DEF Init
<1>2. \A v \in Vms : VmSure(v)
  BY DEF Init, Vm, VmSure, Over, LooksOver
<1> QED
  BY <1>1, <1>2, TypeInitOK DEF SureInv, WorldSure, Init

\* Without force and without failing calls, VM objects are deleted only when the
\* CSP has no such VM or is terminating it (DelMci, DelMciVm, refine), for any
\* number of requests that overlap in any way.
THEOREM NothingForgotten == Unforced => (Spec => NoVmIsForgotten)
<1>1. SureInv /\ Unforced /\ [Next]_vars =>
        [\A v \in Vms :
           vm[v].there /\ ~vm'[v].there => csp[v] \in {"Absent", "Gone", "Terminating"}]_vars
  BY SureNext DEF DropsOver, Leaving
<1>2. CASE Unforced
  <2>1. Init => SureInv
    BY <1>2, SureInit
  <2>2. SureInv /\ [Next]_vars => SureInv'
    BY <1>2, SureNext
  <2>3. SureInv /\ [Next]_vars =>
        [\A v \in Vms :
           vm[v].there /\ ~vm'[v].there => csp[v] \in {"Absent", "Gone", "Terminating"}]_vars
    BY <1>1, <1>2
  <2> QED
    BY <2>1, <2>2, <2>3, PTL DEF Spec, NoVmIsForgotten
<1> QED
  BY <1>2
=============================================================================
