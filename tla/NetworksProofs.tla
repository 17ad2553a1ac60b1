---------------------------- MODULE NetworksProofs ----------------------------
(* Theorems about Networks, for any number of clients, subnets, VMs, names and *)
(* faults: no network is lost, what is shown as usable is there, and the list   *)
(* of the subnets is right when requests come one by one.                      *)
EXTENDS Networks, TLAPS

-----------------------------------------------------------------------------
(* What a request has in its hands at each place. *)

Creating     == {"putVNet", "postVNet", "cleanVNet", "saveVNet", "saveSubnets"}
Making       == {"putSubnet", "postSubnet", "cleanSubnet", "saveSubnet"}
WithRecord   == {"getSubnet", "markSubnet", "deletePart", "dropSubnet"}
SubnetSteps  == WithRecord \cup {"removeFromVNet"}
WithCopy     == Making \cup SubnetSteps \cup {"addToVNet", "getVNet", "markVNet", "deleteVpc", "putVms"}

Shape(r) ==
    /\ r.pc = "idle" => r = Idle
    /\ r.pc \in Creating =>
          r.kind \in {"CreateVNet", "RegisterVNet"} /\ r.uid \in Uids /\ r.v \in VNetRecord
    /\ r.pc \in WithCopy => r.v \in VNetRecord
    /\ r.pc \in Making \cup {"addToVNet"} =>
          /\ r.kind = "CreateSubnet" /\ r.uid \in Uids /\ r.on \in Subnets
          /\ r.sub \in SubnetRecord /\ r.sub.id = r.on
    /\ r.pc = "saveSubnet" => r.sub.name \in PartNames
    /\ r.pc \in SubnetSteps => r.sub \in SubnetRecord
    /\ r.pc \in SubnetSteps \cup {"nextSubnet"} =>
          /\ r.kind \in {"DeleteVNet", "RefineVNet", "DeleteSubnet", "RefineSubnet"}
          /\ r.kind \notin WholeKinds => r.todo \subseteq {r.on}
    /\ r.pc \in SubnetSteps => (r.kind \notin WholeKinds => r.sub.id = r.on)
    /\ r.pc = "getSubnet" => r.kind # "DeleteVNet"
    /\ r.pc \in {"readVNet", "markVNet", "deleteVpc"} => r.kind = "DeleteVNet"
    /\ r.pc \in {"getVNet", "dropSubnets"} => r.kind = "RefineVNet"
    /\ r.pc = "dropVNet" => r.kind \in WholeKinds
    /\ r.pc = "putVms" => r.kind = "Associate" /\ r.on \in Vms

RestType ==
    /\ vnet \in VNetRecord \cup {None}
    /\ subnets \in [Subnets -> SubnetRecord \cup {None}] /\ \A s \in Keys : subnets[s].id = s
    /\ vpcs \subseteq Uids /\ parts \subseteq [vpc : Uids, name : PartNames]
    /\ faults \in 0..MaxFaults /\ attached \subseteq Vms /\ lost \subseteq Names
    /\ overlapped \in BOOLEAN

Hands == req \in [Clients -> Requests] /\ \A c \in Clients : Shape(req[c])

-----------------------------------------------------------------------------
(* The invariant. *)

AsOne == \A c, d \in Clients : c # d /\ req[c] # Idle /\ req[d] # Idle => ~Clash(req[c], req[d])

\* The names of the parts of Spider's that s may stand for.
NamesOf(s) == {NoName} \cup ({s} \X Uids)

SpiderSound ==
    /\ \A p, q \in parts : p.name = q.name => p = q
    /\ \A p \in parts : p.vpc \in vpcs
    /\ \A s \in Keys : subnets[s].name \in NamesOf(s)
    /\ \A s \in Keys : \A p \in parts : p.name = subnets[s].name => p.vpc = subnets[s].vpc

\* Nothing is lost by losing the record of s.
Loose(s) == (\A p \in parts : p.name # subnets[s].name) \/ subnets[s].name \in lost
AllLoose == \A s \in Keys : Loose(s)

\* The subnets recorded are those of the vNet recorded.
Tied == \A s \in Keys : Loose(s) \/ (vnet # None /\ vnet.name \in {NoName, subnets[s].vpc})

Found ==
    /\ \A x \in vpcs :
          x \in lost \/ (vnet # None /\ vnet.name = x) \/ \E c \in Clients : x \in Unsaved(req[c])
    /\ \A p \in parts :
          \/ p.name \in lost
          \/ \E s \in Keys : subnets[s].name = p.name
          \/ \E c \in Clients : p.name \in Unsaved(req[c])

CopyHand(r) == r.pc \in WithCopy => vnet # None /\ r.v.name = vnet.name

SubnetHand(r) ==
    /\ r.pc \in WithRecord =>
          /\ subnets[r.sub.id] # None
          /\ subnets[r.sub.id].name = r.sub.name /\ subnets[r.sub.id].vpc = r.sub.vpc
    /\ r.pc = "dropSubnet" => Loose(r.sub.id)

MakeHand(r) ==
    /\ r.pc \in Making => r.sub.vpc = r.v.name
    /\ r.pc = "putSubnet" => subnets[r.on] = None
    /\ r.pc \in Making \ {"putSubnet"} => subnets[r.on] # None /\ subnets[r.on].name = NoName
    /\ r.pc \in {"putSubnet", "postSubnet"} =>
          r.sub.name = NoName /\ \A p \in parts : p.name # <<r.on, r.uid>>
    /\ r.pc = "saveSubnet" =>
          r.sub.name = <<r.on, r.uid>> /\ \A p \in parts : p.name = r.sub.name => p.vpc = r.sub.vpc

CreateHand(r) ==
    /\ r.pc \in {"putVNet", "postVNet"} =>
          /\ r.uid \notin vpcs
          /\ \A p \in parts : p.name \notin Named(r.uid, Subnets)
          /\ \A s \in Keys : subnets[s].name \notin Named(r.uid, Subnets)
    /\ r.pc = "putVNet" => vnet = None /\ r.v.name = NoName
    /\ r.pc \in {"postVNet", "cleanVNet"} => vnet # None /\ vnet.name = NoName
    /\ r.pc \in {"putVNet", "postVNet", "cleanVNet"} => AllLoose
    /\ r.pc \in {"saveVNet", "saveSubnets"} =>
          /\ r.v.name = r.uid /\ vnet # None
          /\ vnet.name = IF r.kind = "CreateVNet" /\ r.pc = "saveSubnets" THEN r.uid ELSE NoName
          /\ \A p \in parts : p.name \in Named(r.uid, Subnets) => p.vpc = r.uid
          /\ \A s \in Keys : Loose(s) \/ (subnets[s].vpc = r.uid /\ s \notin r.todo)
    /\ r.pc = "saveVNet" /\ r.kind = "RegisterVNet" => r.todo = {}

EndHand(r) ==
    /\ r.kind = "DeleteVNet" =>
          /\ r.pc \in WithRecord \cup {"nextSubnet"} => Keys \subseteq r.todo
          /\ r.pc = "removeFromVNet" => Keys \subseteq r.todo \ {r.sub.id}
          /\ r.pc \in {"readVNet", "markVNet", "deleteVpc"} => Keys = {}
    /\ r.pc \in {"dropSubnets", "dropVNet"} =>
          AllLoose /\ (vnet # None => vnet.name \notin vpcs \/ vnet.name \in lost)

HandOf(c) ==
    CopyHand(req[c]) /\ SubnetHand(req[c]) /\ MakeHand(req[c]) /\ CreateHand(req[c]) /\ EndHand(req[c])

NamesInv ==
    /\ RestType /\ Hands /\ AsOne
    /\ SpiderSound /\ Tied /\ Found
    /\ \A c \in Clients : HandOf(c)

\* For what is usable.
ThereNow ==
    /\ \A s \in Keys : subnets[s].status = "Available" => InSpider(subnets[s]) # {}
    /\ vnet # None /\ vnet.status = "InUse" => vnet.name \in vpcs

UseHand(r) ==
    /\ r.pc \in WithCopy /\ r.v.status = "InUse" => r.v.name \in vpcs
    /\ r.pc = "deletePart" => subnets[r.sub.id].status = "Deleting"
    /\ r.pc = "deleteVpc" => vnet.status = "Deleting"
    /\ r.pc = "putSubnet" => r.sub.status = "Configuring"
    /\ r.pc = "saveSubnet" => InSpider(r.sub) # {}
    /\ r.pc \in {"saveSubnet", "addToVNet"} => r.v.name \in vpcs
    /\ r.pc = "putVNet" => r.v.status = "Configuring"
    /\ r.pc \in {"saveVNet", "saveSubnets"} =>
          r.uid \in vpcs /\ \A s \in r.todo : [vpc |-> r.uid, name |-> <<s, r.uid>>] \in parts

UseInv == ThereNow /\ \A c \in Clients : UseHand(req[c])

-----------------------------------------------------------------------------
(* Types. *)

LEMMA TypesAre == TypeOK /\ Hands <=> RestType /\ Hands
BY DEF TypeOK, RestType, Hands

LEMMA IdleShape == Idle \in Requests /\ Shape(Idle)
BY DEF Idle, Requests, Labels, Shape, Creating, Making, WithCopy, SubnetSteps, WithRecord

LEMMA Onward ==
    ASSUME Hands, NEW c \in Clients, NEW q \in Requests, Shape(q), req' = [req EXCEPT ![c] = q]
    PROVE  Hands'
BY DEF Hands

Follows(r, label) == label \in Labels /\ Shape([r EXCEPT !.pc = label])

LEMMA GoesTo ==
    ASSUME Hands, NEW c \in Clients, NEW label, GoTo(c, label), Follows(req[c], label)
    PROVE  Hands'
<1>0. label \in Labels /\ Shape([req[c] EXCEPT !.pc = label])
  BY DEF Follows
<1>1. [req[c] EXCEPT !.pc = label] \in Requests
  BY <1>0 DEF Hands, Requests
<1>2. req' = [req EXCEPT ![c] = [req[c] EXCEPT !.pc = label]]
  BY DEF Hands, GoTo
<1> QED
  BY <1>0, <1>1, <1>2, Onward

LEMMA Returns ==
    ASSUME Hands, NEW c \in Clients, Return(c)
    PROVE  Hands'
BY IdleShape, Onward DEF Return

LEMMA Starts ==
    ASSUME RestType, Hands, NEW c \in Clients, NEW q \in Requests, Shape(q), Start(c, q)
    PROVE  RestType' /\ Hands'
<1>1. Hands'
  BY Onward DEF Start
<1>2. RestType'
  BY DEF Start, RestType, Keys, spider
<1> QED
  BY <1>1, <1>2

LEMMA OneFault == RestType /\ (NoFault \/ Fault) => faults' \in 0..MaxFaults
BY FaultAssumption DEF RestType, NoFault, Fault

LEMMA DropsAll ==
    ASSUME RestType, NEW c \in Clients, DropSubnets(c)
    PROVE  subnets' \in [Subnets -> SubnetRecord \cup {None}] /\ \A s \in Subnets : subnets'[s] \in {None, subnets[s]}
BY DEF DropSubnets, RestType, Keys

\* The copy of the vNet's record differs in its VMs only.
LEMMA EntersVm ==
    ASSUME RestType, NEW c \in Clients, ReadForVm(c)
    PROVE  /\ vnet \in VNetRecord /\ vnet # None
           /\ \E m \in Vms, v \in VNetRecord :
                /\ v.name = vnet.name /\ v.status = vnet.status
                /\ Start(c, [Idle EXCEPT !.pc = "putVms", !.kind = "Associate", !.on = m, !.v = v])
<1>1. vnet \in VNetRecord /\ vnet # None
  BY DEF ReadForVm, RestType
<1>2. PICK m \in Vms :
         Start(c, [Idle EXCEPT !.pc = "putVms", !.kind = "Associate", !.on = m,
           !.v = [vnet EXCEPT !.vms = IF m \in @ THEN @ \ {m} ELSE @ \cup {m}]])
  BY DEF ReadForVm
<1> DEFINE v == [vnet EXCEPT !.vms = IF m \in @ THEN @ \ {m} ELSE @ \cup {m}]
<1>3. v \in VNetRecord /\ v.name = vnet.name /\ v.status = vnet.status
  BY <1>1 DEF VNetRecord
<1>4. Start(c, [Idle EXCEPT !.pc = "putVms", !.kind = "Associate", !.on = m, !.v = v])
  BY <1>2
<1> HIDE DEF v
<1> QED
  BY <1>1, <1>3, <1>4

\* The steps that only read.
LEMMA StartTypes ==
    ASSUME RestType, Hands, NEW c \in Clients,
           \/ CheckVNet(c) \/ CheckSubnet(c) \/ AskDeleteVNet(c) \/ AskSubnet(c)
           \/ AskRefineVNet(c) \/ ReadForVm(c)
    PROVE  RestType' /\ Hands'
<1> USE DEF Shape, Creating, Making, WithCopy, SubnetSteps, WithRecord, Idle, Requests, Labels, Kinds,
            WholeKinds
<1>1. ASSUME CheckVNet(c) PROVE RestType' /\ Hands'
  <2>1. PICK uid \in Uids, list \in SUBSET Subnets, kind \in {"CreateVNet", "RegisterVNet"} :
           Start(c, [Idle EXCEPT !.pc = "putVNet", !.kind = kind, !.uid = uid,
                !.v = [status |-> "Configuring", name |-> NoName, list |-> list, vms |-> {}]])
    BY <1>1 DEF CheckVNet, Fresh
  <2> DEFINE v == [status |-> "Configuring", name |-> NoName, list |-> list, vms |-> {}]
  <2>2. v \in VNetRecord
    BY DEF VNetRecord
  <2>3. [Idle EXCEPT !.pc = "putVNet", !.kind = kind, !.uid = uid, !.v = v] \in Requests
    BY <2>2
  <2>4. Shape([Idle EXCEPT !.pc = "putVNet", !.kind = kind, !.uid = uid, !.v = v])
    BY <2>2
  <2> QED
    BY <2>1, <2>3, <2>4, Starts
<1>2. ASSUME CheckSubnet(c) PROVE RestType' /\ Hands'
  <2>1. vnet \in VNetRecord
    BY <1>2 DEF CheckSubnet, RestType
  <2>2. PICK s \in Subnets, uid \in Uids :
           Start(c, [Idle EXCEPT !.pc = "putSubnet", !.kind = "CreateSubnet", !.on = s,
                !.uid = uid, !.v = vnet,
                !.sub = [id |-> s, status |-> "Configuring", name |-> NoName, vpc |-> vnet.name]])
    BY <1>2 DEF CheckSubnet, Fresh
  <2> DEFINE sub == [id |-> s, status |-> "Configuring", name |-> NoName, vpc |-> vnet.name]
  <2>3. sub \in SubnetRecord /\ sub.id = s
    BY <2>1 DEF VNetRecord, SubnetRecord
  <2> DEFINE q == [Idle EXCEPT !.pc = "putSubnet", !.kind = "CreateSubnet", !.on = s,
                !.uid = uid, !.v = vnet, !.sub = sub]
  <2>4. q \in Requests
    BY <2>1, <2>3
  <2>5. Shape(q)
    BY <2>1, <2>3
  <2> QED
    BY <2>2, <2>4, <2>5, Starts
<1>3. ASSUME AskDeleteVNet(c) PROVE RestType' /\ Hands'
  <2>1. PICK force \in BOOLEAN :
           Start(c, [Idle EXCEPT !.pc = "nextSubnet", !.kind = "DeleteVNet", !.force = force, !.todo = Keys])
    BY <1>3 DEF AskDeleteVNet
  <2> DEFINE q == [Idle EXCEPT !.pc = "nextSubnet", !.kind = "DeleteVNet", !.force = force, !.todo = Keys]
  <2>2. q \in Requests /\ Shape(q)
    BY DEF Keys
  <2> QED
    BY <2>1, <2>2, Starts
<1>4. ASSUME AskSubnet(c) PROVE RestType' /\ Hands'
  <2>1. PICK s \in Subnets, kind \in {"DeleteSubnet", "RefineSubnet"} :
           Start(c, [Idle EXCEPT !.pc = "nextSubnet", !.kind = kind, !.on = s, !.todo = {s}])
    BY <1>4 DEF AskSubnet
  <2> DEFINE q == [Idle EXCEPT !.pc = "nextSubnet", !.kind = kind, !.on = s, !.todo = {s}]
  <2>2. q \in Requests /\ Shape(q)
    OBVIOUS
  <2> QED
    BY <2>1, <2>2, Starts
<1>5. ASSUME AskRefineVNet(c) PROVE RestType' /\ Hands'
  <2>1. vnet \in VNetRecord
    BY <1>5 DEF AskRefineVNet, RestType
  <2> DEFINE q == [Idle EXCEPT !.pc = "getVNet", !.kind = "RefineVNet", !.v = vnet]
  <2>2. q \in Requests /\ Shape(q)
    BY <2>1
  <2> QED
    BY <1>5, <2>2, Starts DEF AskRefineVNet
<1>6. ASSUME ReadForVm(c) PROVE RestType' /\ Hands'
  <2>2. PICK m \in Vms, v \in VNetRecord :
           Start(c, [Idle EXCEPT !.pc = "putVms", !.kind = "Associate", !.on = m, !.v = v])
    BY <1>6, EntersVm
  <2> DEFINE q == [Idle EXCEPT !.pc = "putVms", !.kind = "Associate", !.on = m, !.v = v]
  <2>3. q \in Requests /\ Shape(q)
    OBVIOUS
  <2> QED
    BY <2>2, <2>3, Starts
<1> QED
  BY <1>1, <1>2, <1>3, <1>4, <1>5, <1>6

LEMMA CreateTypes ==
    ASSUME RestType, Hands, NEW c \in Clients,
           \/ PutVNet(c) \/ PostVNet(c) \/ CleanVNet(c) \/ SaveVNet(c) \/ SaveSubnets(c)
    PROVE  RestType' /\ Hands'
<1> DEFINE r == req[c]
<1>1. r \in Requests /\ Shape(r)
  BY DEF Hands
<1> USE DEF Shape, Creating, Making, WithCopy, SubnetSteps, WithRecord, Idle, Requests, Labels
<1>2. ASSUME PutVNet(c) PROVE RestType' /\ Hands'
  <2>1. RestType'
    BY <1>1, <1>2, OneFault DEF PutVNet, RestType, Keys, spider
  <2>2. Hands'
    <3>1. PutVNet(c) => Follows(r, "postVNet")
      BY <1>1 DEF PutVNet, Follows
    <3> QED
      BY <1>2, <3>1, GoesTo, Returns DEF PutVNet
  <2> QED
    BY <2>1, <2>2
<1>3. ASSUME PostVNet(c) PROVE RestType' /\ Hands'
  <2>1. r.pc = "postVNet" /\ r.uid \in Uids /\ r.v \in VNetRecord /\ r.kind \in {"CreateVNet", "RegisterVNet"}
    BY <1>1, <1>3 DEF PostVNet
  <2>2. \A list \in SUBSET Subnets :
           /\ Named(r.uid, list) \subseteq PartNames
           /\ [vpc : {r.uid}, name : Named(r.uid, list)] \subseteq [vpc : Uids, name : PartNames]
    BY <2>1 DEF Named, PartNames
  <2>3. r.v.list \in SUBSET Subnets
    BY <2>1 DEF VNetRecord
  <2>4. \/ spider' = spider
        \/ \E list \in SUBSET Subnets : /\ vpcs' = vpcs \cup {r.uid}
               /\ parts' = parts \cup [vpc : {r.uid}, name : Named(r.uid, list)]
    BY <1>3, <2>3 DEF PostVNet, spider
  <2>5. \/ lost' = lost
        \/ \E list \in SUBSET Subnets : lost' = lost \cup {r.uid} \cup Named(r.uid, list)
    BY <1>3, <2>3 DEF PostVNet
  <2>6. /\ vpcs' \subseteq Uids /\ parts' \subseteq [vpc : Uids, name : PartNames]
        /\ lost' \subseteq Names
    BY <2>1, <2>2, <2>4, <2>5 DEF RestType, Names, spider
  <2>7. (NoFault \/ Fault) /\ UNCHANGED <<vnet, subnets, attached, overlapped>>
    BY <1>3 DEF PostVNet
  <2>8. RestType'
    BY <2>6, <2>7, OneFault DEF RestType, Keys
  <2>9. ASSUME NEW list \in SUBSET Subnets, NEW label \in {"saveVNet", "saveSubnets"},
               req' = [req EXCEPT ![c].v = [@ EXCEPT !.status = StatusOf(list), !.name = r.uid, !.list = list],
                                  ![c].todo = list, ![c].pc = label]
        PROVE  Hands'
    <3> DEFINE v == [r.v EXCEPT !.status = StatusOf(list), !.name = r.uid, !.list = list]
               q == [r EXCEPT !.v = v, !.todo = list, !.pc = label]
    <3>1. v \in VNetRecord
      BY <2>1 DEF VNetRecord, StatusOf
    <3>2. q \in Requests /\ Shape(q)
      BY <1>1, <2>1, <3>1
    <3>3. req' = [req EXCEPT ![c] = q]
      BY <2>9 DEF Hands
    <3> QED
      BY <3>2, <3>3, Onward
  <2>10. GoTo(c, "cleanVNet") => Hands'
    <3>1. Follows(r, "cleanVNet")
      BY <1>1, <2>1 DEF Follows
    <3> QED
      BY <3>1, GoesTo
  <2>11. Hands'
    BY <1>3, <2>3, <2>9, <2>10 DEF PostVNet
  <2> QED
    BY <2>8, <2>11
<1>4. ASSUME CleanVNet(c) PROVE RestType' /\ Hands'
  <2>1. RestType'
    BY <1>1, <1>4, OneFault DEF CleanVNet, RestType, Keys, spider
  <2>2. Hands'
    BY <1>4, Returns DEF CleanVNet
  <2> QED
    BY <2>1, <2>2
<1>5. ASSUME SaveVNet(c) PROVE RestType' /\ Hands'
  <2>1. r.pc = "saveVNet" /\ r.uid \in Uids /\ r.v \in VNetRecord /\ r.todo \in SUBSET Subnets
    BY <1>1, <1>5 DEF SaveVNet
  <2>2. Named(r.uid, r.todo) \subseteq PartNames
    BY <2>1 DEF Named, PartNames
  <2>3. vnet' \in {vnet, r.v} /\ lost' \subseteq Names /\ (NoFault \/ Fault)
    BY <1>5, <2>1, <2>2 DEF SaveVNet, RestType, Names
  <2>4. RestType'
    BY <1>5, <2>1, <2>3, OneFault DEF SaveVNet, RestType, Keys, spider
  <2>5. Hands'
    <3>1. Follows(r, "saveSubnets")
      BY <1>1, <2>1 DEF Follows
    <3> QED
      BY <1>5, <3>1, GoesTo, Returns DEF SaveVNet
  <2> QED
    BY <2>4, <2>5
<1>6. ASSUME SaveSubnets(c) PROVE RestType' /\ Hands'
  <2>1. r.pc = "saveSubnets" /\ r.uid \in Uids /\ r.v \in VNetRecord /\ r.todo \in SUBSET Subnets
    BY <1>1, <1>6 DEF SaveSubnets
  <2>2. Named(r.uid, r.todo) \subseteq PartNames
    BY <2>1 DEF Named, PartNames
  <2>3. \A s \in r.todo : [id |-> s, status |-> "Available", name |-> <<s, r.uid>>, vpc |-> r.uid] \in SubnetRecord
    BY <2>1 DEF SubnetRecord, PartNames
  <2>4. lost' \subseteq Names /\ (NoFault \/ Fault)
    BY <1>6, <2>1, <2>2 DEF SaveSubnets, RestType, Names
  <2>5. \/ subnets' = subnets
        \/ \E s \in r.todo : subnets' = [subnets EXCEPT ![s] =
               [id |-> s, status |-> "Available", name |-> <<s, r.uid>>, vpc |-> r.uid]]
    BY <1>6 DEF SaveSubnets
  <2>6. subnets' \in [Subnets -> SubnetRecord \cup {None}] /\ \A s \in Keys' : subnets'[s].id = s
    BY <2>1, <2>3, <2>5 DEF RestType, Keys
  <2>7. RestType'
    BY <1>6, <2>4, <2>6, OneFault DEF SaveSubnets, RestType, Keys, spider
  <2>8. ASSUME NEW s \in r.todo, req' = [req EXCEPT ![c].todo = @ \ {s}] PROVE Hands'
    <3> DEFINE q == [r EXCEPT !.todo = @ \ {s}]
    <3>1. q \in Requests /\ Shape(q)
      BY <1>1, <2>1
    <3>2. req' = [req EXCEPT ![c] = q]
      BY <2>8 DEF Hands
    <3> QED
      BY <3>1, <3>2, Onward
  <2>9. GoTo(c, "saveVNet") => Hands'
    <3>1. Follows(r, "saveVNet")
      BY <1>1, <2>1 DEF Follows
    <3> QED
      BY <3>1, GoesTo
  <2>10. Hands'
    BY <1>6, <2>8, <2>9, Returns DEF SaveSubnets
  <2> QED
    BY <2>7, <2>10
<1> QED
  BY <1>2, <1>3, <1>4, <1>5, <1>6

LEMMA MakeTypes ==
    ASSUME RestType, Hands, NEW c \in Clients,
           \/ PutSubnet(c) \/ PostSubnet(c) \/ CleanSubnet(c) \/ SaveSubnet(c) \/ AddToVNet(c) \/ PutVms(c)
    PROVE  RestType' /\ Hands'
<1> DEFINE r == req[c]
<1>1. r \in Requests /\ Shape(r)
  BY DEF Hands
<1> USE DEF Shape, Creating, Making, WithCopy, SubnetSteps, WithRecord, Idle, Requests, Labels
<1>2. ASSUME r.sub \in SubnetRecord, r.sub.id = r.on, r.on \in Subnets,
             subnets' = [subnets EXCEPT ![r.on] = r.sub]
      PROVE  subnets' \in [Subnets -> SubnetRecord \cup {None}] /\ \A s \in Keys' : subnets'[s].id = s
  BY <1>2 DEF RestType, Keys
<1>3. ASSUME PutSubnet(c) PROVE RestType' /\ Hands'
  <2>1. r.sub \in SubnetRecord /\ r.sub.id = r.on /\ r.on \in Subnets
    BY <1>1, <1>3 DEF PutSubnet
  <2>2. RestType'
    BY <1>2, <1>3, <2>1, OneFault DEF PutSubnet, RestType, Keys, spider
  <2>3. Hands'
    <3>1. PutSubnet(c) => Follows(r, "postSubnet")
      BY <1>1 DEF PutSubnet, Follows
    <3> QED
      BY <1>3, <3>1, GoesTo, Returns DEF PutSubnet
  <2> QED
    BY <2>2, <2>3
<1>4. ASSUME PostSubnet(c) PROVE RestType' /\ Hands'
  <2>1. /\ r.pc = "postSubnet" /\ r.sub \in SubnetRecord /\ r.sub.id = r.on /\ r.on \in Subnets
        /\ r.uid \in Uids /\ r.kind = "CreateSubnet" /\ r.v \in VNetRecord
    BY <1>1, <1>4 DEF PostSubnet
  <2>2. <<r.on, r.uid>> \in PartNames
    BY <2>1 DEF PartNames
  <2>3. parts' = parts \/ (r.sub.vpc \in vpcs /\ parts' = parts \cup {[vpc |-> r.sub.vpc, name |-> <<r.on, r.uid>>]})
    BY <1>4 DEF PostSubnet
  <2>4. lost' \subseteq Names /\ (NoFault \/ Fault) /\ parts' \subseteq [vpc : Uids, name : PartNames]
    BY <1>4, <2>2, <2>3 DEF PostSubnet, RestType, Names
  <2>5. RestType'
    BY <1>4, <2>4, OneFault DEF PostSubnet, RestType, Keys, spider
  <2>6. ASSUME req' = [req EXCEPT ![c].sub = [@ EXCEPT !.status = "Available", !.name = <<r.on, r.uid>>],
                                  ![c].pc = "saveSubnet"]
        PROVE  Hands'
    <3> DEFINE sub == [r.sub EXCEPT !.status = "Available", !.name = <<r.on, r.uid>>]
               q == [r EXCEPT !.sub = sub, !.pc = "saveSubnet"]
    <3>1. sub \in SubnetRecord /\ sub.id = r.on /\ sub.name \in PartNames
      BY <2>1, <2>2 DEF SubnetRecord
    <3>2. q \in Requests /\ Shape(q)
      <4> HIDE DEF sub
      <4> QED
        BY <1>1, <2>1, <3>1
    <3>3. req' = [req EXCEPT ![c] = q]
      BY <2>6 DEF Hands
    <3> QED
      BY <3>2, <3>3, Onward
  <2>7. GoTo(c, "cleanSubnet") => Hands'
    <3>1. Follows(r, "cleanSubnet")
      BY <1>1, <2>1 DEF Follows
    <3> QED
      BY <3>1, GoesTo
  <2>8. Hands'
    BY <1>4, <2>6, <2>7 DEF PostSubnet
  <2> QED
    BY <2>5, <2>8
<1>5. ASSUME CleanSubnet(c) PROVE RestType' /\ Hands'
  <2>1. RestType'
    BY <1>1, <1>5, OneFault DEF CleanSubnet, RestType, Keys, spider
  <2>2. Hands'
    BY <1>5, Returns DEF CleanSubnet
  <2> QED
    BY <2>1, <2>2
<1>6. ASSUME SaveSubnet(c) PROVE RestType' /\ Hands'
  <2>1. r.sub \in SubnetRecord /\ r.sub.id = r.on /\ r.on \in Subnets
    BY <1>1, <1>6 DEF SaveSubnet
  <2>2. r.sub.name \in Names
    BY <1>1, <1>6 DEF SaveSubnet, Names
  <2>3. RestType'
    BY <1>2, <1>6, <2>1, <2>2, OneFault DEF SaveSubnet, RestType, Keys, spider
  <2>4. Hands'
    <3>1. SaveSubnet(c) => Follows(r, "addToVNet")
      BY <1>1 DEF SaveSubnet, Follows
    <3> QED
      BY <1>6, <3>1, GoesTo, Returns DEF SaveSubnet
  <2> QED
    BY <2>3, <2>4
<1>7. ASSUME AddToVNet(c) PROVE RestType' /\ Hands'
  <2>1. r.v \in VNetRecord /\ r.on \in Subnets
    BY <1>1, <1>7 DEF AddToVNet
  <2>2. [r.v EXCEPT !.list = @ \cup {r.on}, !.status = "InUse"] \in VNetRecord
    BY <2>1 DEF VNetRecord
  <2>3. RestType'
    BY <1>7, <2>2, OneFault DEF AddToVNet, RestType, Keys, spider
  <2>4. Hands'
    BY <1>7, Returns DEF AddToVNet
  <2> QED
    BY <2>3, <2>4
<1>8. ASSUME PutVms(c) PROVE RestType' /\ Hands'
  <2>1. r.v \in VNetRecord /\ r.on \in Vms
    BY <1>1, <1>8 DEF PutVms
  <2>2. RestType'
    BY <1>8, <2>1, OneFault DEF PutVms, RestType, Keys, spider
  <2>3. Hands'
    BY <1>8, Returns DEF PutVms
  <2> QED
    BY <2>2, <2>3
<1> QED
  BY <1>3, <1>4, <1>5, <1>6, <1>7, <1>8

LEMMA DeleteTypes ==
    ASSUME RestType, Hands, NEW c \in Clients,
           \/ ReadSubnet(c) \/ NoMoreSubnets(c) \/ MarkSubnet(c) \/ DeletePart(c) \/ GetSubnet(c)
           \/ DropSubnet(c) \/ RemoveFromVNet(c)
    PROVE  RestType' /\ Hands'
<1> DEFINE r == req[c]
<1>1. r \in Requests /\ Shape(r)
  BY DEF Hands
<1> USE DEF Shape, Creating, Making, WithCopy, SubnetSteps, WithRecord, Idle, Requests, Labels
<1>2. ASSUME r.pc \in {"nextSubnet", "removeFromVNet", "getSubnet"}, NEW s,
             req' = [req EXCEPT ![c].pc = "nextSubnet", ![c].todo = @ \ {s}]
      PROVE  Hands'
  <2> DEFINE less == r.todo \ {s}
             q == [r EXCEPT !.pc = "nextSubnet", !.todo = less]
  <2>0. less \subseteq r.todo /\ less \in SUBSET Subnets
    BY <1>1
  <2>1. q \in Requests
    <3> HIDE DEF less
    <3> QED
      BY <1>1, <1>2, <2>0
  <2>3. Shape(q)
    <3> HIDE DEF less
    <3> QED
      BY <1>1, <1>2, <2>0
  <2>2. req' = [req EXCEPT ![c] = q]
    BY <1>2 DEF Hands
  <2> HIDE DEF q
  <2> QED
    BY <2>1, <2>2, <2>3, Onward
<1>3. ASSUME r.pc \in {"removeFromVNet", "getSubnet"}, SubnetDone(c) \/ SubnetFails(c) PROVE Hands'
  BY <1>2, <1>3, Returns DEF SubnetDone, SubnetFails
<1>4. r.pc \in WithRecord \cup SubnetSteps => r.sub \in SubnetRecord /\ r.sub.id \in Subnets
  BY <1>1 DEF SubnetRecord
<1>5. ASSUME ReadSubnet(c) PROVE RestType' /\ Hands'
  <2>1. RestType'
    BY <1>5 DEF ReadSubnet, RestType, Keys, spider, history
  <2>2. PICK s \in r.todo :
           IF vnet # None /\ subnets[s] # None
           THEN req' = [req EXCEPT ![c].v = vnet, ![c].sub = subnets[s],
                                   ![c].pc = IF Refines(c) THEN "getSubnet" ELSE "markSubnet"]
           ELSE IF r.kind = "RefineVNet" THEN req' = [req EXCEPT ![c].todo = @ \ {s}]
                                         ELSE Return(c)
    BY <1>5 DEF ReadSubnet
  <2>3. CASE vnet # None /\ subnets[s] # None
    <3> DEFINE label == IF Refines(c) THEN "getSubnet" ELSE "markSubnet"
               q == [r EXCEPT !.v = vnet, !.sub = subnets[s], !.pc = label]
    <3>1. label \in {"getSubnet", "markSubnet"} /\ (label = "getSubnet" => r.kind # "DeleteVNet")
      BY DEF Refines
    <3>2. s \in Subnets /\ vnet \in VNetRecord /\ subnets[s] \in SubnetRecord /\ subnets[s].id = s
      BY <1>1, <2>3 DEF RestType, Keys
    <3>3. r.pc = "nextSubnet"
      BY <1>5 DEF ReadSubnet
    <3>4. q \in Requests
      <4> HIDE DEF label
      <4> QED
        BY <1>1, <3>1, <3>2, <3>3
    <3>6. Shape(q)
      <4> HIDE DEF label
      <4> QED
        BY <1>1, <3>1, <3>2, <3>3
    <3>5. req' = [req EXCEPT ![c] = q]
      BY <2>2, <2>3 DEF Hands
    <3> HIDE DEF q
    <3> QED
      BY <2>1, <3>4, <3>5, <3>6, Onward
  <2>4. CASE ~(vnet # None /\ subnets[s] # None)
    <3>1. ASSUME req' = [req EXCEPT ![c].todo = @ \ {s}] PROVE Hands'
      <4> DEFINE less == r.todo \ {s}
                 q == [r EXCEPT !.todo = less]
      <4>0. less \subseteq r.todo /\ less \in SUBSET Subnets /\ r.pc = "nextSubnet"
        BY <1>1, <1>5 DEF ReadSubnet
      <4>1. q \in Requests /\ Shape(q)
        <5> HIDE DEF less
        <5> QED
          BY <1>1, <4>0
      <4>2. req' = [req EXCEPT ![c] = q]
        BY <3>1 DEF Hands
      <4> QED
        BY <4>1, <4>2, Onward
    <3> QED
      BY <2>1, <2>2, <2>4, <3>1, Returns
  <2> QED
    BY <2>3, <2>4
<1>6. ASSUME NoMoreSubnets(c) PROVE RestType' /\ Hands'
  <2>1. RestType'
    BY <1>6 DEF NoMoreSubnets, RestType, Keys, spider, history
  <2>2. NoMoreSubnets(c) /\ r.kind = "DeleteVNet" => Follows(r, "readVNet")
    BY <1>1 DEF NoMoreSubnets, Follows
  <2> QED
    BY <1>6, <2>1, <2>2, GoesTo, Returns DEF NoMoreSubnets
<1>7. ASSUME MarkSubnet(c) PROVE RestType' /\ Hands'
  <2>1. r.sub \in SubnetRecord /\ r.sub.id \in Subnets
    BY <1>4, <1>7 DEF MarkSubnet
  <2>2. Marked(r.sub) \in SubnetRecord /\ Marked(r.sub).id = r.sub.id
    BY <2>1 DEF Marked, SubnetRecord
  <2>3. subnets' = subnets \/ subnets' = [subnets EXCEPT ![r.sub.id] = Marked(r.sub)]
    BY <1>7, <2>2 DEF MarkSubnet
  <2>4. subnets' \in [Subnets -> SubnetRecord \cup {None}] /\ \A s \in Keys' : subnets'[s].id = s
    BY <2>1, <2>2, <2>3 DEF RestType, Keys
  <2>5. RestType'
    BY <1>7, <2>4, OneFault DEF MarkSubnet, RestType, Keys, spider
  <2>6. MarkSubnet(c) => Follows(r, "deletePart")
    BY <1>1 DEF MarkSubnet, Follows
  <2> QED
    BY <1>7, <2>5, <2>6, GoesTo, Returns DEF MarkSubnet
<1>8. ASSUME DeletePart(c) PROVE RestType' /\ Hands'
  <2>1. RestType'
    BY <1>8, OneFault DEF DeletePart, RestType, Keys, spider
  <2>2. DeletePart(c) => Follows(r, "dropSubnet")
    BY <1>1 DEF DeletePart, Follows
  <2> QED
    BY <1>8, <2>1, <2>2, GoesTo, Returns DEF DeletePart, NotDeleted
<1>9. ASSUME GetSubnet(c) PROVE RestType' /\ Hands'
  <2>1. {p.name : p \in InSpider(r.sub)} \subseteq Names
    BY DEF RestType, InSpider, Names
  <2>2. lost' \subseteq Names
    BY <1>9, <2>1 DEF GetSubnet, RestType
  <2>3. RestType'
    BY <1>9, <2>2, OneFault DEF GetSubnet, RestType, Keys, spider
  <2>4. GetSubnet(c) => Follows(r, "dropSubnet")
    BY <1>1 DEF GetSubnet, Follows
  <2> QED
    BY <1>3, <1>9, <2>3, <2>4, GoesTo DEF GetSubnet
<1>10. ASSUME DropSubnet(c) PROVE RestType' /\ Hands'
  <2>1. RestType'
    BY <1>10, OneFault DEF DropSubnet, RestType, Keys, spider
  <2>2. DropSubnet(c) => Follows(r, "removeFromVNet")
    BY <1>1 DEF DropSubnet, Follows
  <2> QED
    BY <1>10, <2>1, <2>2, GoesTo, Returns DEF DropSubnet
<1>11. ASSUME RemoveFromVNet(c) PROVE RestType' /\ Hands'
  <2>1. r.v \in VNetRecord /\ r.pc = "removeFromVNet"
    BY <1>1, <1>11 DEF RemoveFromVNet
  <2>2. \A list \in SUBSET Subnets :
           [r.v EXCEPT !.list = list, !.status = IF list = {} THEN "Available" ELSE @] \in VNetRecord
    BY <2>1 DEF VNetRecord
  <2>3. Without(r.v.list, r.sub.id) \in SUBSET Subnets
    BY <2>1 DEF VNetRecord, Without
  <2>4. vnet' \in VNetRecord \cup {None} /\ (NoFault \/ Fault)
    BY <1>11, <2>2, <2>3 DEF RemoveFromVNet, RestType
  <2>5. RestType'
    BY <1>11, <2>4, OneFault DEF RemoveFromVNet, RestType, Keys, spider
  <2> QED
    BY <1>3, <1>11, <2>1, <2>5, Returns DEF RemoveFromVNet
<1> QED
  BY <1>5, <1>6, <1>7, <1>8, <1>9, <1>10, <1>11

LEMMA EndTypes ==
    ASSUME RestType, Hands, NEW c \in Clients,
           \/ ReadVNet(c) \/ MarkVNet(c) \/ DeleteVpc(c) \/ GetVNet(c) \/ DropSubnets(c) \/ DropVNet(c)
    PROVE  RestType' /\ Hands'
<1> DEFINE r == req[c]
<1>1. r \in Requests /\ Shape(r)
  BY DEF Hands
<1> USE DEF Shape, Creating, Making, WithCopy, SubnetSteps, WithRecord, Idle, Requests, Labels
<1>2. ASSUME ReadVNet(c) PROVE RestType' /\ Hands'
  <2>1. RestType'
    BY <1>2 DEF ReadVNet, RestType, Keys, spider, history
  <2>2. ASSUME vnet # None, req' = [req EXCEPT ![c].v = vnet, ![c].sub = None, ![c].pc = "markVNet"]
        PROVE  Hands'
    <3> DEFINE q == [r EXCEPT !.v = vnet, !.sub = None, !.pc = "markVNet"]
    <3>1. vnet \in VNetRecord
      BY <2>2 DEF RestType
    <3>2. q \in Requests /\ Shape(q)
      BY <1>1, <1>2, <3>1 DEF ReadVNet
    <3>3. req' = [req EXCEPT ![c] = q]
      BY <2>2 DEF Hands
    <3> QED
      BY <3>2, <3>3, Onward
  <2> QED
    BY <1>2, <2>1, <2>2, Returns DEF ReadVNet
<1>3. ASSUME MarkVNet(c) PROVE RestType' /\ Hands'
  <2>1. [r.v EXCEPT !.status = "Deleting"] \in VNetRecord
    BY <1>1, <1>3 DEF MarkVNet, VNetRecord
  <2>2. RestType'
    BY <1>3, <2>1, OneFault DEF MarkVNet, RestType, Keys, spider
  <2>3. MarkVNet(c) => Follows(r, "deleteVpc")
    BY <1>1 DEF MarkVNet, Follows
  <2> QED
    BY <1>3, <2>2, <2>3, GoesTo, Returns DEF MarkVNet
<1>4. ASSUME DeleteVpc(c) PROVE RestType' /\ Hands'
  <2>1. RestType'
    BY <1>4, OneFault DEF DeleteVpc, RestType, Keys, spider
  <2>2. DeleteVpc(c) => Follows(r, "dropVNet")
    BY <1>1 DEF DeleteVpc, Follows, WholeKinds
  <2> QED
    BY <1>4, <2>1, <2>2, GoesTo, Returns DEF DeleteVpc
<1>5. ASSUME GetVNet(c) PROVE RestType' /\ Hands'
  <2>1. {p.name : p \in UNION {InSpider(subnets[s]) : s \in Keys}} \subseteq Names
    BY DEF RestType, InSpider, Names
  <2>2. lost' \subseteq Names
    BY <1>5, <2>1 DEF GetVNet, RestType, Names
  <2>3. RestType'
    BY <1>5, <2>2, OneFault DEF GetVNet, RestType, Keys, spider
  <2>4. r.pc = "getVNet"
    BY <1>5 DEF GetVNet
  <2>5. Follows(r, "dropSubnets")
    BY <1>1, <2>4 DEF Follows
  <2>6. ASSUME req' = [req EXCEPT ![c].pc = "nextSubnet", ![c].todo = Keys] PROVE Hands'
    <3> DEFINE q == [r EXCEPT !.pc = "nextSubnet", !.todo = Keys]
    <3>1. q \in Requests /\ Shape(q)
      BY <1>1, <2>4 DEF Keys, WholeKinds
    <3>2. req' = [req EXCEPT ![c] = q]
      BY <2>6 DEF Hands
    <3> QED
      BY <3>1, <3>2, Onward
  <2> QED
    BY <1>5, <2>3, <2>5, <2>6, GoesTo DEF GetVNet
<1>6. ASSUME DropSubnets(c) PROVE RestType' /\ Hands'
  <2>1. \A s \in Subnets : subnets'[s] \in {None, subnets[s]}
    BY <1>6, DropsAll
  <2>2. subnets' \in [Subnets -> SubnetRecord \cup {None}] /\ \A s \in Keys' : subnets'[s].id = s
    BY <1>6, <2>1, DropsAll DEF RestType, Keys
  <2>3. RestType'
    BY <1>6, <2>2, OneFault DEF DropSubnets, RestType, Keys, spider
  <2>4. DropSubnets(c) => Follows(r, "dropVNet")
    BY <1>1 DEF DropSubnets, Follows, WholeKinds
  <2> QED
    BY <1>6, <2>3, <2>4, GoesTo DEF DropSubnets
<1>7. ASSUME DropVNet(c) PROVE RestType' /\ Hands'
  <2>1. RestType'
    BY <1>7, OneFault DEF DropVNet, RestType, Keys, spider
  <2> QED
    BY <1>7, <2>1, Returns DEF DropVNet
<1> QED
  BY <1>2, <1>3, <1>4, <1>5, <1>6, <1>7

LEMMA CrashTypes ==
    ASSUME RestType, Hands, Crash
    PROVE  RestType' /\ Hands'
<1>1. \A c \in Clients : Unsaved(req[c]) \subseteq Names
  <2> TAKE c \in Clients
  <2> DEFINE r == req[c]
  <2>1. r \in Requests /\ Shape(r)
    BY DEF Hands
  <2>2. r.pc \in {"saveVNet", "saveSubnets"} => r.uid \in Uids
    BY <2>1 DEF Shape, Creating
  <2>3. r.pc \in {"saveVNet", "saveSubnets"} => Named(r.uid, r.todo) \subseteq PartNames
    BY <2>1, <2>2 DEF Named, PartNames, Requests
  <2>4. r.pc = "saveSubnet" => r.sub.name \in PartNames
    BY <2>1 DEF Shape
  <2> QED
    BY <2>2, <2>3, <2>4 DEF Unsaved, Names
<1>2. lost' \subseteq Names
  BY <1>1 DEF Crash, RestType
<1>3. RestType'
  BY <1>2, OneFault DEF Crash, RestType, Keys, spider
<1>4. Hands'
  BY IdleShape DEF Crash, Hands
<1> QED
  BY <1>3, <1>4

LEMMA StepTypes == RestType /\ Hands /\ [Next]_vars => RestType' /\ Hands'
<1> SUFFICES ASSUME RestType, Hands, [Next]_vars PROVE RestType' /\ Hands'
  OBVIOUS
<1>1. CASE UNCHANGED vars
  BY <1>1 DEF RestType, Hands, Keys, vars, spider, history
<1> QED
  BY <1>1, StartTypes, CreateTypes, MakeTypes, DeleteTypes, EndTypes, CrashTypes DEF Next, Create, Delete

LEMMA InitTypes == Init => RestType /\ Hands
<1> SUFFICES ASSUME Init PROVE RestType /\ Hands
  OBVIOUS
<1>1. Keys = {} /\ subnets \in [Subnets -> SubnetRecord \cup {None}]
  BY DEF Init, Keys
<1>3. 0 \in 0..MaxFaults
  BY FaultAssumption
<1>4. RestType
  BY <1>1, <1>3 DEF Init, RestType
<1>2. Hands
  BY IdleShape DEF Init, Hands
<1> QED
  BY <1>2, <1>4

LEMMA Typed == Spec => [](RestType /\ Hands)
BY InitTypes, StepTypes, PTL DEF Spec

\* Every variable keeps its type, and a subnet's record is under its own key, whatever
\* requests overlap and clash (vnet.go, subnet.go).
THEOREM TypeCorrect == Spec => []TypeOK
<1>1. RestType /\ Hands => TypeOK
  BY TypesAre
<1> QED
  BY <1>1, Typed, PTL

-----------------------------------------------------------------------------
(* One request at a time about one thing. *)

Stays(c) == \A d \in Clients \ {c} : req'[d] = req[d]
GoesOn(c) ==
    /\ Stays(c) /\ req[c] # Idle
    /\ req'[c] = Idle \/ (req'[c].kind = req[c].kind /\ req'[c].on = req[c].on)

CreateStep(c) ==
    \/ PutVNet(c) \/ PostVNet(c) \/ CleanVNet(c) \/ SaveVNet(c) \/ SaveSubnets(c)
MakeStep(c) ==
    \/ PutSubnet(c) \/ PostSubnet(c) \/ CleanSubnet(c) \/ SaveSubnet(c) \/ AddToVNet(c) \/ PutVms(c)
SubnetStep(c) ==
    \/ ReadSubnet(c) \/ NoMoreSubnets(c) \/ MarkSubnet(c) \/ DeletePart(c) \/ GetSubnet(c)
    \/ DropSubnet(c) \/ RemoveFromVNet(c)
EndStep(c) ==
    \/ ReadVNet(c) \/ MarkVNet(c) \/ DeleteVpc(c) \/ GetVNet(c) \/ DropSubnets(c) \/ DropVNet(c)
StartStep(c) ==
    \/ CheckVNet(c) \/ CheckSubnet(c) \/ AskDeleteVNet(c) \/ AskSubnet(c)
    \/ AskRefineVNet(c) \/ ReadForVm(c)

LEMMA AnyStep ==
    Next <=> Crash \/ \E c \in Clients :
        StartStep(c) \/ CreateStep(c) \/ MakeStep(c) \/ SubnetStep(c) \/ EndStep(c)
BY DEF Next, Create, Delete, StartStep, CreateStep, MakeStep, SubnetStep, EndStep

LEMMA Proceeds ==
    ASSUME Hands, NEW c \in Clients,
           CreateStep(c) \/ MakeStep(c) \/ SubnetStep(c) \/ EndStep(c)
    PROVE  GoesOn(c)
<1>1. req \in [Clients -> Requests]
  BY DEF Hands
<1>2. req[c].pc # "idle" => req[c] # Idle
  BY DEF Idle
<1>3. \A label : GoTo(c, label) =>
         Stays(c) /\ req'[c].kind = req[c].kind /\ req'[c].on = req[c].on
  BY <1>1 DEF GoTo, Requests, Stays
<1>4. Return(c) => Stays(c) /\ req'[c] = Idle
  BY <1>1 DEF Return, Stays
<1>5. SubnetDone(c) => Stays(c) /\ req'[c].kind = req[c].kind /\ req'[c].on = req[c].on
  BY <1>1 DEF SubnetDone, Requests, Stays
<1>6. CreateStep(c) => GoesOn(c)
  <2>1. PutVNet(c) \/ CleanVNet(c) \/ SaveVNet(c) => GoesOn(c)
    BY <1>2, <1>3, <1>4 DEF PutVNet, CleanVNet, SaveVNet, GoesOn
  <2>2. PostVNet(c) => GoesOn(c)
    <3>1. ASSUME NEW v, NEW todo, NEW label, req' = [req EXCEPT ![c].v = v, ![c].todo = todo, ![c].pc = label]
          PROVE  Stays(c) /\ req'[c].kind = req[c].kind /\ req'[c].on = req[c].on
      BY <1>1, <3>1 DEF Stays, Requests
    <3>2. PostVNet(c) =>
             \/ \E v, todo, label : req' = [req EXCEPT ![c].v = v, ![c].todo = todo, ![c].pc = label]
             \/ GoTo(c, "cleanVNet")
      <4>1. ASSUME NEW list,
                   req' = [req EXCEPT ![c].v = [@ EXCEPT !.status = StatusOf(list), !.name = req[c].uid, !.list = list],
                             ![c].todo = list,
                             ![c].pc = IF req[c].kind = "CreateVNet" THEN "saveVNet" ELSE "saveSubnets"]
            PROVE  \E v, todo, label : req' = [req EXCEPT ![c].v = v, ![c].todo = todo, ![c].pc = label]
        <5> DEFINE w == [req[c].v EXCEPT !.status = StatusOf(list), !.name = req[c].uid, !.list = list]
                   l == IF req[c].kind = "CreateVNet" THEN "saveVNet" ELSE "saveSubnets"
        <5>1. req' = [req EXCEPT ![c].v = w, ![c].todo = list, ![c].pc = l]
          BY <4>1
        <5> HIDE DEF w, l
        <5> QED
          BY <5>1
      <4> QED
        BY <4>1 DEF PostVNet
    <3> QED
      <4>1. PostVNet(c) => Stays(c) /\ req'[c].kind = req[c].kind /\ req'[c].on = req[c].on
        BY <1>3, <3>1, <3>2
      <4>2. PostVNet(c) => req[c] # Idle
        BY <1>2 DEF PostVNet
      <4> QED
        BY <4>1, <4>2 DEF GoesOn
  <2>3. SaveSubnets(c) => GoesOn(c)
    BY <1>1, <1>2, <1>3, <1>4 DEF SaveSubnets, GoesOn, Requests, Stays
  <2> QED
    BY <2>1, <2>2, <2>3 DEF CreateStep
<1>7. MakeStep(c) => GoesOn(c)
  BY <1>1, <1>2, <1>3, <1>4
  DEF MakeStep, PutSubnet, PostSubnet, CleanSubnet, SaveSubnet, AddToVNet, PutVms, GoesOn, Requests, Stays
<1>8. SubnetStep(c) => GoesOn(c)
  <2>1. ReadSubnet(c) => GoesOn(c)
    BY <1>1, <1>2, <1>4 DEF ReadSubnet, GoesOn, Requests, Stays
  <2>2. NoMoreSubnets(c) \/ MarkSubnet(c) \/ DeletePart(c) \/ DropSubnet(c) \/ RemoveFromVNet(c) => GoesOn(c)
    BY <1>2, <1>3, <1>4, <1>5
    DEF NoMoreSubnets, MarkSubnet, DeletePart, NotDeleted, DropSubnet, RemoveFromVNet, GoesOn
  <2>3. GetSubnet(c) => GoesOn(c)
    BY <1>2, <1>3, <1>4, <1>5 DEF GetSubnet, SubnetFails, SubnetDone, GoesOn
  <2> QED
    BY <2>1, <2>2, <2>3 DEF SubnetStep
<1>9. EndStep(c) => GoesOn(c)
  BY <1>1, <1>2, <1>3, <1>4
  DEF EndStep, ReadVNet, MarkVNet, DeleteVpc, GetVNet, DropSubnets, DropVNet, GoesOn, Requests, Stays
<1> QED
  BY <1>6, <1>7, <1>8, <1>9

Started(c) ==
    \E q \in Requests : Shape(q) /\ Start(c, q) /\ q.pc # "idle"

LEMMA AsOneKept ==
    ASSUME ~MayClash, Hands, AsOne, NEW c \in Clients,
           GoesOn(c) \/ (\E q : Start(c, q))
    PROVE  AsOne'
<1>1. req \in [Clients -> Requests]
  BY DEF Hands
<1>2. ASSUME GoesOn(c) PROVE AsOne'
  BY <1>2 DEF AsOne, GoesOn, Stays, Clash
<1>3. ASSUME NEW q, Start(c, q) PROVE AsOne'
  <2>1. /\ req'[c] = q /\ Stays(c)
        /\ \A d \in Clients \ {c} : req[d] # Idle => ~Clash(q, req[d])
    BY <1>1, <1>3 DEF Start, Stays
  <2> QED
    BY <2>1 DEF AsOne, Stays, Clash
<1> QED
  BY <1>2, <1>3

\* The other requests are idle, or about other things.
Alone(c) == \A d \in Clients \ {c} : req[d] = Idle

LEMMA WholeIsAlone ==
    ASSUME AsOne, NEW c \in Clients, req[c] # Idle, req[c].kind \in WholeKinds
    PROVE  Alone(c)
BY DEF AsOne, Clash, Alone

-----------------------------------------------------------------------------
(* Steps that do not change the names. *)

SameNames ==
    /\ vpcs' = vpcs /\ parts' = parts /\ lost \subseteq lost'
    /\ vnet' = None <=> vnet = None
    /\ vnet # None => vnet'.name = vnet.name
    /\ Keys' = Keys
    /\ \A s \in Keys : subnets'[s].name = subnets[s].name /\ subnets'[s].vpc = subnets[s].vpc

LEMMA SameSound ==
    ASSUME SpiderSound, Tied, SameNames
    PROVE  SpiderSound' /\ Tied' /\ (AllLoose => AllLoose')
<1>1. \A s \in Keys : Loose(s) => Loose(s)'
  BY DEF SameNames, Loose
<1>2. Tied'
  BY <1>1 DEF SameNames, Tied
<1>3. AllLoose => AllLoose'
  BY <1>1 DEF SameNames, AllLoose
<1>4. SpiderSound'
  BY DEF SameNames, SpiderSound, NamesOf
<1> QED
  BY <1>2, <1>3, <1>4

LEMMA SameFound ==
    ASSUME Found, SameNames, NEW c \in Clients, Stays(c), Unsaved(req[c]) \subseteq lost' \cup Unsaved(req'[c])
    PROVE  Found'
<1>1. \A d \in Clients : Unsaved(req[d]) \subseteq lost' \cup Unsaved(req'[d])
  BY DEF Stays
<1>2. \A x \in vpcs' : x \in lost' \/ (vnet' # None /\ vnet'.name = x) \/ \E d \in Clients : x \in Unsaved(req'[d])
  BY <1>1 DEF Found, SameNames
<1>3. \A p \in parts' :
          \/ p.name \in lost'
          \/ \E s \in Keys' : subnets'[s].name = p.name
          \/ \E d \in Clients : p.name \in Unsaved(req'[d])
  BY <1>1 DEF Found, SameNames
<1> QED
  BY <1>2, <1>3 DEF Found

\* Each name is found after the step, or was another request's before.
VpcsFound(c) ==
    \A x \in vpcs' :
        \/ x \in lost' \/ (vnet' # None /\ vnet'.name = x) \/ x \in Unsaved(req'[c])
        \/ x \in vpcs /\ x \notin lost /\ (vnet # None => vnet.name # x) /\ x \notin Unsaved(req[c])
PartsFound(c) ==
    \A p \in parts' :
        \/ p.name \in lost' \/ (\E s \in Keys' : subnets'[s].name = p.name)
        \/ p.name \in Unsaved(req'[c])
        \/ /\ p \in parts /\ p.name \notin lost /\ (\A s \in Keys : subnets[s].name # p.name)
           /\ p.name \notin Unsaved(req[c])

LEMMA FoundAgain ==
    ASSUME Found, NEW c \in Clients, Stays(c), VpcsFound(c), PartsFound(c)
    PROVE  Found'
<1>1. \A d \in Clients \ {c} : Unsaved(req'[d]) = Unsaved(req[d])
  BY DEF Stays
<1>2. \A x \in vpcs' : x \in lost' \/ (vnet' # None /\ vnet'.name = x) \/ \E d \in Clients : x \in Unsaved(req'[d])
  BY <1>1 DEF Found, VpcsFound
<1>3. \A p \in parts' :
          \/ p.name \in lost'
          \/ \E s \in Keys' : subnets'[s].name = p.name
          \/ \E d \in Clients : p.name \in Unsaved(req'[d])
  BY <1>1 DEF Found, PartsFound
<1> QED
  BY <1>2, <1>3 DEF Found

LEMMA UnsavedIs ==
    ASSUME NEW r
    PROVE  /\ r.pc \notin {"saveVNet", "saveSubnets", "saveSubnet"} => Unsaved(r) = {}
           /\ r.pc = "saveSubnet" => Unsaved(r) = {r.sub.name}
           /\ r.pc = "saveVNet" => Unsaved(r) =
                {r.uid} \cup (IF r.kind = "CreateVNet" THEN Named(r.uid, r.todo) ELSE {})
           /\ r.pc = "saveSubnets" => Unsaved(r) =
                Named(r.uid, r.todo) \cup (IF r.kind = "RegisterVNet" THEN {r.uid} ELSE {})
BY DEF Unsaved

-----------------------------------------------------------------------------
(* What a step at subnet o leaves to requests about other things. *)

OwnNames(o) == {n \in PartNames : n[1] = o}

StepAt(o) ==
    /\ vpcs' = vpcs
    /\ vnet' = None <=> vnet = None
    /\ vnet # None => vnet'.name = vnet.name
    /\ \A s \in Subnets : s # o => subnets'[s] = subnets[s]
    /\ \A p : p.name \notin OwnNames(o) => (p \in parts' <=> p \in parts)
    /\ \A x : x \notin OwnNames(o) => (x \in lost' <=> x \in lost)

LEMMA HandsApart ==
    ASSUME RestType, Hands, SpiderSound, NEW d \in Clients, HandOf(d), req'[d] = req[d],
           req[d].kind \notin WholeKinds, NEW o, req[d].on # o, StepAt(o)
    PROVE  HandOf(d)'
<1> DEFINE r == req[d]
<1>1. r \in Requests /\ Shape(r)
  BY DEF Hands
<1>2. CopyHand(r)'
  BY DEF HandOf, CopyHand, StepAt
<1>3. r.pc \notin Creating \cup {"readVNet", "markVNet", "deleteVpc", "getVNet", "dropSubnets", "dropVNet"}
  BY <1>1 DEF Shape, Creating, WholeKinds
<1>4. CreateHand(r)'
  BY <1>3 DEF CreateHand, Creating
<1>5. EndHand(r)'
  BY <1>3 DEF EndHand, WholeKinds
<1>6. r.pc \in SubnetSteps => r.sub.id = r.on /\ r.sub.id \in Subnets
  BY <1>1 DEF Shape, SubnetRecord
<1>7. \A s \in Subnets : s # o /\ subnets[s] # None /\ Loose(s) => Loose(s)'
  <2> TAKE s \in Subnets
  <2> HAVE s # o /\ subnets[s] # None /\ Loose(s)
  <2>1. subnets[s].name \in NamesOf(s)
    BY DEF SpiderSound, Keys
  <2>2. subnets[s].name \notin OwnNames(o)
    BY <2>1, NameAssumption DEF NamesOf, Names, OwnNames
  <2> QED
    BY <2>2 DEF Loose, StepAt
<1>8. SubnetHand(r)'
  BY <1>6, <1>7 DEF HandOf, SubnetHand, StepAt, WithRecord, SubnetSteps
<1>9. r.pc \in Making => r.on \in Subnets /\ r.uid \in Uids
  BY <1>1 DEF Shape, Making
<1>10. MakeHand(r)'
  <2>1. r.pc \in Making => subnets'[r.on] = subnets[r.on]
    BY <1>9 DEF StepAt
  <2>2. <<r.on, r.uid>> \notin OwnNames(o)
    BY DEF OwnNames
  <2>3. \A p : p.name = <<r.on, r.uid>> => (p \in parts' <=> p \in parts)
    BY <2>2 DEF StepAt
  <2> QED
    BY <2>1, <2>3 DEF HandOf, MakeHand, Making
<1> QED
  BY <1>2, <1>4, <1>5, <1>8, <1>10 DEF HandOf

-----------------------------------------------------------------------------
(* The steps, one by one. *)

NameState == <<vnet, subnets, vpcs, parts, lost>>
Narrow(c) == req[c].kind \notin WholeKinds => StepAt(req[c].on)
Sound(c)  == SpiderSound' /\ Tied' /\ Found' /\ HandOf(c)' /\ Narrow(c)

Before(c) == RestType /\ Hands /\ SpiderSound /\ Tied /\ Found /\ HandOf(c) /\ RestType' /\ Hands'

LEMMA IdleHand ==
    ASSUME NEW c \in Clients, req'[c] = Idle
    PROVE  HandOf(c)' /\ Unsaved(req'[c]) = {}
<1>1. Unsaved(Idle) = {}
  BY DEF Unsaved, Idle
<1>2. req'[c].pc = "idle" /\ req'[c].kind = "none"
  BY DEF Idle
<1>3. CopyHand(req[c])' /\ SubnetHand(req[c])' /\ MakeHand(req[c])'
  BY <1>2 DEF CopyHand, SubnetHand, MakeHand, WithCopy, Making, SubnetSteps, WithRecord
<1>4. CreateHand(req[c])' /\ EndHand(req[c])'
  BY <1>2 DEF CreateHand, EndHand
<1> QED
  BY <1>1, <1>3, <1>4 DEF HandOf

LEMMA GivesUp ==
    ASSUME NEW c \in Clients, Before(c), GoesOn(c), req'[c] = Idle, SameNames,
           Unsaved(req[c]) \subseteq lost'
    PROVE  SpiderSound' /\ Tied' /\ Found' /\ HandOf(c)'
BY IdleHand, SameSound, SameFound DEF Before, GoesOn

LEMMA NothingChanges ==
    ASSUME NEW c \in Clients, UNCHANGED NameState
    PROVE  SameNames /\ StepAt(req[c].on)
BY DEF SameNames, StepAt, NameState, Keys

\* The names of what Spider has.
LEMMA PartsHaveNames ==
    ASSUME RestType
    PROVE  /\ \A p \in parts : p.vpc \in Uids /\ p.name \in PartNames /\ p.name # NoName /\ p.name \notin Uids
           /\ \A x \in vpcs : x \in Uids /\ x # NoName /\ x \notin PartNames
           /\ \A s \in Subnets : subnets[s] \in SubnetRecord \cup {None}
           /\ \A s \in Keys : s \in Subnets /\ subnets[s] # None /\ subnets[s] \in SubnetRecord
           /\ \A s \in Subnets : s \in Keys <=> subnets[s] # None
           /\ \A v \in VNetRecord : v # None
           /\ \A sub \in SubnetRecord : sub # None
BY NameAssumption DEF RestType, Keys, Names

LEMMA OwnName ==
    ASSUME NEW s \in Subnets, NEW uid \in Uids
    PROVE  /\ <<s, uid>> \in PartNames /\ <<s, uid>> \in OwnNames(s) /\ <<s, uid>> \in NamesOf(s)
           /\ \A t : <<s, uid>> \in NamesOf(t) => t = s
           /\ NoName \notin OwnNames(s)
BY NameAssumption DEF PartNames, OwnNames, NamesOf, Names

LEMMA OneRecord ==
    ASSUME RestType, NEW s \in Subnets, NEW rec \in SubnetRecord, subnets' = [subnets EXCEPT ![s] = rec]
    PROVE  /\ subnets'[s] = rec /\ rec # None /\ s \in Keys' /\ Keys' = Keys \cup {s}
           /\ \A t \in Subnets \ {s} : subnets'[t] = subnets[t]
           /\ \A t \in Keys \ {s} : subnets'[t] = subnets[t] /\ t \in Keys'
           /\ \A t \in Keys' \ {s} : subnets'[t] = subnets[t] /\ t \in Keys
BY NameAssumption DEF RestType, Keys

LEMMA RecordGone ==
    ASSUME RestType, NEW s \in Subnets, subnets' = [subnets EXCEPT ![s] = None]
    PROVE  /\ subnets'[s] = None /\ Keys' = Keys \ {s}
           /\ \A t \in Subnets \ {s} : subnets'[t] = subnets[t]
           /\ \A t \in Keys \ {s} : subnets'[t] = subnets[t] /\ t \in Keys'
           /\ \A t \in Keys' : t # s /\ subnets'[t] = subnets[t] /\ t \in Keys
BY DEF RestType, Keys

LEMMA PutSubnetSound ==
    ASSUME NEW c \in Clients, Before(c), GoesOn(c), PutSubnet(c)
    PROVE  Sound(c)
<1> DEFINE r == req[c]
<1>1. /\ r.pc = "putSubnet" /\ r.on \in Subnets /\ r.sub \in SubnetRecord /\ r.sub.name = NoName
      /\ r.sub.vpc = r.v.name /\ subnets[r.on] = None /\ r.v \in VNetRecord
      /\ vnet # None /\ r.v.name = vnet.name
  BY DEF Before, Hands, Shape, Making, WithCopy, PutSubnet, HandOf, MakeHand, CopyHand
<1>2. Unsaved(r) = {} /\ UNCHANGED <<vnet, vpcs, parts, lost>>
  BY <1>1, UnsavedIs DEF PutSubnet, spider
<1>3. CASE Return(c) /\ UNCHANGED subnets
  <2>1. UNCHANGED NameState /\ req'[c] = Idle
    BY <1>2, <1>3 DEF NameState, Return, Before, Hands
  <2> QED
    BY <1>2, <2>1, NothingChanges, GivesUp DEF Sound, Narrow
<1>4. CASE subnets' = [subnets EXCEPT ![r.on] = r.sub] /\ GoTo(c, "postSubnet")
  <2>1. req'[c] = [r EXCEPT !.pc = "postSubnet"]
    BY <1>4 DEF GoTo, Before, Hands
  <2>2. /\ subnets'[r.on] = r.sub /\ r.sub # None /\ Keys' = Keys \cup {r.on} /\ r.on \notin Keys
        /\ \A t \in Subnets \ {r.on} : subnets'[t] = subnets[t]
        /\ \A t \in Keys \ {r.on} : subnets'[t] = subnets[t] /\ t \in Keys'
        /\ \A t \in Keys' \ {r.on} : subnets'[t] = subnets[t] /\ t \in Keys
    <3>1. /\ r.on \in Subnets /\ r.sub \in SubnetRecord /\ RestType
          /\ subnets' = [subnets EXCEPT ![r.on] = r.sub] /\ (r.pc = "putSubnet" => subnets[r.on] = None)
      BY <1>1, <1>4 DEF Before
    <3> HIDE DEF r
    <3>2. /\ subnets'[r.on] = r.sub /\ r.sub # None /\ Keys' = Keys \cup {r.on}
          /\ \A t \in Subnets \ {r.on} : subnets'[t] = subnets[t]
          /\ \A t \in Keys \ {r.on} : subnets'[t] = subnets[t] /\ t \in Keys'
          /\ \A t \in Keys' \ {r.on} : subnets'[t] = subnets[t] /\ t \in Keys
      BY <3>1, OneRecord
    <3> QED
      BY <1>1, <3>1, <3>2 DEF Keys
  <2>4. SpiderSound'
    BY <1>1, <1>2, <2>2, PartsHaveNames DEF SpiderSound, NamesOf, Before
  <2>5. Tied'
    BY <1>1, <1>2, <2>2, PartsHaveNames DEF Tied, Loose, Before
  <2>6. Found'
    <3>1. VpcsFound(c)
      BY <1>2 DEF VpcsFound
    <3>2. PartsFound(c)
      BY <1>2, <2>2 DEF PartsFound
    <3> QED
      BY <3>1, <3>2, FoundAgain DEF Before, GoesOn
  <2>7. HandOf(c)'
    BY <1>1, <1>2, <2>1, <2>2
    DEF Before, HandOf, CopyHand, SubnetHand, MakeHand, CreateHand, EndHand, WithCopy, Making, SubnetSteps,
        WithRecord, Hands, Requests
  <2>8. Narrow(c)
    BY <1>2, <2>2 DEF Narrow, StepAt
  <2> QED
    BY <2>4, <2>5, <2>6, <2>7, <2>8 DEF Sound
<1> QED
  BY <1>3, <1>4 DEF PutSubnet

LEMMA CleanSubnetSound ==
    ASSUME NEW c \in Clients, Before(c), GoesOn(c), CleanSubnet(c)
    PROVE  Sound(c)
<1> DEFINE r == req[c]
<1>1. r.pc = "cleanSubnet" /\ r.on \in Subnets /\ r.on \in Keys /\ subnets[r.on].name = NoName
  BY DEF Before, Hands, Shape, Making, CleanSubnet, HandOf, MakeHand, Keys
<1>2. Unsaved(r) = {} /\ UNCHANGED <<vnet, vpcs, parts, lost>> /\ req'[c] = Idle
  BY <1>1, UnsavedIs DEF CleanSubnet, spider, Return, Before, Hands
<1>3. CASE UNCHANGED subnets
  BY <1>2, <1>3, NothingChanges, GivesUp DEF Sound, Narrow, NameState
<1>4. CASE subnets' = [subnets EXCEPT ![r.on] = None]
  <2>1. /\ Keys' = Keys \ {r.on}
        /\ \A t \in Subnets \ {r.on} : subnets'[t] = subnets[t]
        /\ \A t \in Keys \ {r.on} : subnets'[t] = subnets[t] /\ t \in Keys'
        /\ \A t \in Keys' : subnets'[t] = subnets[t] /\ t \in Keys
    BY <1>1, <1>4, RecordGone DEF Before
  <2>2. SpiderSound'
    BY <1>2, <2>1 DEF SpiderSound, NamesOf, Before
  <2>3. Tied'
    BY <1>2, <2>1 DEF Tied, Loose, Before
  <2>4. VpcsFound(c)
    BY <1>2 DEF VpcsFound
  <2>5. PartsFound(c)
    BY <1>1, <1>2, <2>1, PartsHaveNames DEF PartsFound, Before
  <2>6. Found'
    BY <2>4, <2>5, FoundAgain DEF Before, GoesOn
  <2>7. Narrow(c)
    BY <1>2, <2>1 DEF Narrow, StepAt
  <2> QED
    BY <1>2, <2>2, <2>3, <2>6, <2>7, IdleHand DEF Sound
<1> QED
  BY <1>3, <1>4 DEF CleanSubnet

LEMMA SaveSubnetSound ==
    ASSUME NEW c \in Clients, Before(c), GoesOn(c), SaveSubnet(c)
    PROVE  Sound(c)
<1> DEFINE r == req[c]
<1>1. /\ r.pc = "saveSubnet" /\ r.on \in Subnets /\ r.uid \in Uids /\ r.sub \in SubnetRecord
      /\ r.sub.name = <<r.on, r.uid>> /\ r.sub.vpc = r.v.name /\ r.v \in VNetRecord
      /\ r.on \in Keys /\ subnets[r.on].name = NoName
      /\ vnet # None /\ r.v.name = vnet.name
      /\ \A p \in parts : p.name = r.sub.name => p.vpc = r.sub.vpc
  BY DEF Before, Hands, Shape, Making, WithCopy, SaveSubnet, HandOf, MakeHand, CopyHand, Keys
<1>2. Unsaved(r) = {r.sub.name} /\ UNCHANGED <<vnet, vpcs, parts>>
  BY <1>1, UnsavedIs DEF SaveSubnet, spider
<1>3. CASE Return(c) /\ UNCHANGED subnets /\ lost' = lost \cup {r.sub.name}
  <2>1. req'[c] = Idle
    BY <1>3 DEF Return, Before, Hands
  <2>2. SameNames
    BY <1>2, <1>3 DEF SameNames, Keys
  <2>3. Narrow(c)
    BY <1>1, <1>2, <1>3, OwnName DEF Narrow, StepAt
  <2> QED
    BY <1>2, <1>3, <2>1, <2>2, <2>3, GivesUp DEF Sound
<1>4. CASE subnets' = [subnets EXCEPT ![r.on] = r.sub] /\ GoTo(c, "addToVNet") /\ UNCHANGED lost
  <2>1. req'[c] = [r EXCEPT !.pc = "addToVNet"]
    BY <1>4 DEF GoTo, Before, Hands
  <2>2. /\ subnets'[r.on] = r.sub /\ r.sub # None /\ Keys' = Keys \cup {r.on}
        /\ \A t \in Subnets \ {r.on} : subnets'[t] = subnets[t]
        /\ \A t \in Keys \ {r.on} : subnets'[t] = subnets[t] /\ t \in Keys'
        /\ \A t \in Keys' \ {r.on} : subnets'[t] = subnets[t] /\ t \in Keys
    <3>1. /\ r.on \in Subnets /\ r.sub \in SubnetRecord /\ RestType
          /\ subnets' = [subnets EXCEPT ![r.on] = r.sub] /\ (r.pc = "putSubnet" => subnets[r.on] = None)
      BY <1>1, <1>4 DEF Before
    <3> HIDE DEF r
    <3>2. /\ subnets'[r.on] = r.sub /\ r.sub # None /\ Keys' = Keys \cup {r.on}
          /\ \A t \in Subnets \ {r.on} : subnets'[t] = subnets[t]
          /\ \A t \in Keys \ {r.on} : subnets'[t] = subnets[t] /\ t \in Keys'
          /\ \A t \in Keys' \ {r.on} : subnets'[t] = subnets[t] /\ t \in Keys
      BY <3>1, OneRecord
    <3> QED
      BY <1>1, <3>1, <3>2 DEF Keys
  <2>3. r.sub.name \in NamesOf(r.on)
    BY <1>1, OwnName
  <2>4. SpiderSound'
    <3>1. \A p, q \in parts' : p.name = q.name => p = q
      BY <1>2 DEF SpiderSound, Before
    <3>2. \A p \in parts' : p.vpc \in vpcs'
      BY <1>2 DEF SpiderSound, Before
    <3>3. \A s \in Keys' : subnets'[s].name \in NamesOf(s)
      BY <2>2, <2>3 DEF SpiderSound, Before
    <3>4. \A s \in Keys' : \A p \in parts' : p.name = subnets'[s].name => p.vpc = subnets'[s].vpc
      BY <1>1, <1>2, <2>2 DEF SpiderSound, Before
    <3> QED
      BY <3>1, <3>2, <3>3, <3>4 DEF SpiderSound, NamesOf
  <2>5. Tied'
    BY <1>1, <1>2, <1>4, <2>2, PartsHaveNames DEF Tied, Loose, Before
  <2>6. Found'
    <3>1. VpcsFound(c)
      BY <1>1, <1>2, <1>4, PartsHaveNames, OwnName DEF VpcsFound, Before
    <3>2. PartsFound(c)
      BY <1>1, <1>2, <1>4, <2>2, PartsHaveNames DEF PartsFound, Before
    <3> QED
      BY <3>1, <3>2, FoundAgain DEF Before, GoesOn
  <2>7. HandOf(c)'
    BY <1>1, <1>2, <2>1, <2>2
    DEF Before, HandOf, CopyHand, SubnetHand, MakeHand, CreateHand, EndHand, WithCopy, Making, SubnetSteps,
        WithRecord, Hands, Requests
  <2>8. Narrow(c)
    BY <1>2, <1>4, <2>2 DEF Narrow, StepAt
  <2> QED
    BY <2>4, <2>5, <2>6, <2>7, <2>8 DEF Sound
<1> QED
  BY <1>3, <1>4 DEF SaveSubnet

LEMMA PostSubnetSound ==
    ASSUME NEW c \in Clients, Before(c), GoesOn(c), PostSubnet(c)
    PROVE  Sound(c)
<1> DEFINE r == req[c]
           new == [vpc |-> r.sub.vpc, name |-> <<r.on, r.uid>>]
<1>1. /\ r.pc = "postSubnet" /\ r.on \in Subnets /\ r.uid \in Uids /\ r.sub \in SubnetRecord
      /\ r.sub.name = NoName /\ r.sub.vpc = r.v.name /\ r.v \in VNetRecord
      /\ r.on \in Keys /\ subnets[r.on].name = NoName
      /\ vnet # None /\ r.v.name = vnet.name
      /\ \A p \in parts : p.name # <<r.on, r.uid>>
  BY DEF Before, Hands, Shape, Making, WithCopy, PostSubnet, HandOf, MakeHand, CopyHand, Keys
<1>2. Unsaved(r) = {} /\ UNCHANGED <<vnet, subnets, vpcs>> /\ Keys' = Keys
  BY <1>1, UnsavedIs DEF PostSubnet, Keys
<1>3. ASSUME GoTo(c, "cleanSubnet")
      PROVE  HandOf(c)' /\ Unsaved(req'[c]) = {}
  <2>1. req'[c] = [r EXCEPT !.pc = "cleanSubnet"]
    BY <1>3 DEF GoTo, Before, Hands
  <2> QED
    BY <1>1, <1>2, <2>1, UnsavedIs
    DEF Before, HandOf, CopyHand, SubnetHand, MakeHand, CreateHand, EndHand, WithCopy, Making, SubnetSteps,
        WithRecord, Hands, Requests, Keys
<1>4. CASE GoTo(c, "cleanSubnet") /\ UNCHANGED <<parts, lost>>
  <2>1. SameNames /\ Narrow(c)
    BY <1>2, <1>4, NothingChanges DEF NameState, Narrow
  <2> QED
    BY <1>2, <1>3, <1>4, <2>1, SameSound, SameFound DEF Sound, Before, GoesOn
<1>5. ASSUME new.vpc \in vpcs, parts' = parts \cup {new}, lost \subseteq lost',
             lost' \subseteq lost \cup {new.name}, new.name \in lost' \cup Unsaved(req'[c])
      PROVE  SpiderSound' /\ Tied' /\ Found' /\ Narrow(c)
  <2>1. new.name = <<r.on, r.uid>> /\ new.vpc = r.sub.vpc
    OBVIOUS
  <2>2. \A s \in Keys : subnets[s].name # new.name
    BY <1>1, <2>1, OwnName DEF SpiderSound, NamesOf, Before
  <2> HIDE DEF new
  <2>4. SpiderSound'
    BY <1>1, <1>2, <1>5, <2>1, <2>2 DEF SpiderSound, NamesOf, Before
  <2>5. Tied'
    BY <1>2, <1>5, <2>2 DEF Tied, Loose, Before
  <2>6. VpcsFound(c)
    BY <1>2, <1>5 DEF VpcsFound
  <2>7. PartsFound(c)
    BY <1>2, <1>5 DEF PartsFound
  <2>8. Found'
    BY <2>6, <2>7, FoundAgain DEF Before, GoesOn
  <2>9. Narrow(c)
    BY <1>1, <1>2, <1>5, <2>1, OwnName DEF Narrow, StepAt
  <2> QED
    BY <2>4, <2>5, <2>8, <2>9
<1>6. CASE /\ new.vpc \in vpcs /\ parts' = parts \cup {new} /\ UNCHANGED lost
           /\ req' = [req EXCEPT ![c].sub = [@ EXCEPT !.status = "Available", !.name = <<r.on, r.uid>>],
                                 ![c].pc = "saveSubnet"]
  <2> DEFINE sub == [r.sub EXCEPT !.status = "Available", !.name = <<r.on, r.uid>>]
  <2>1. sub.name = <<r.on, r.uid>> /\ sub.vpc = r.sub.vpc /\ sub.id = r.sub.id
    BY <1>1 DEF SubnetRecord
  <2>2. req'[c] = [r EXCEPT !.sub = sub, !.pc = "saveSubnet"]
    BY <1>6 DEF Before, Hands
  <2>3. \A p \in parts' : p.name = <<r.on, r.uid>> => p.vpc = r.sub.vpc
    BY <1>1, <1>6
  <2> HIDE DEF sub
  <2>4. /\ req'[c].pc = "saveSubnet" /\ req'[c].sub = sub /\ req'[c].on = r.on /\ req'[c].uid = r.uid
        /\ req'[c].v = r.v /\ req'[c].kind = r.kind
    BY <2>2 DEF Before, Hands, Requests
  <2>5. Unsaved(req'[c]) = {<<r.on, r.uid>>}
    BY <2>1, <2>4, UnsavedIs
  <2>6. HandOf(c)'
    BY <1>1, <1>2, <2>1, <2>3, <2>4
    DEF HandOf, CopyHand, SubnetHand, MakeHand, CreateHand, EndHand, WithCopy, Making, SubnetSteps, WithRecord, Keys
  <2> QED
    BY <1>5, <1>6, <2>5, <2>6 DEF Sound
<1>7. CASE /\ new.vpc \in vpcs /\ parts' = parts \cup {new} /\ lost' = lost \cup {<<r.on, r.uid>>}
           /\ GoTo(c, "cleanSubnet")
  BY <1>3, <1>5, <1>7 DEF Sound
<1> QED
  BY <1>4, <1>6, <1>7 DEF PostSubnet

\* The vNet's record is put back as it was, but for what the request is about.
LEMMA SameVNet ==
    ASSUME NEW c \in Clients, Before(c), GoesOn(c), NEW v \in VNetRecord, v.name = req[c].v.name,
           req[c].pc \in WithCopy, vnet' \in {vnet, v}, UNCHANGED <<subnets, vpcs, parts, lost>>
    PROVE  SameNames /\ Narrow(c)
<1>1. vnet # None /\ req[c].v.name = vnet.name /\ v # None
  BY PartsHaveNames DEF Before, HandOf, CopyHand
<1> QED
  BY <1>1 DEF SameNames, Narrow, StepAt, Keys

LEMMA PutBackSound ==
    ASSUME NEW c \in Clients, Before(c), GoesOn(c), AddToVNet(c) \/ PutVms(c)
    PROVE  Sound(c)
<1> DEFINE r == req[c]
<1>1. /\ r.v \in VNetRecord /\ r.pc \in WithCopy /\ req'[c] = Idle
      /\ r.pc \in {"addToVNet", "putVms"} /\ Unsaved(r) = {}
  BY UnsavedIs DEF Before, Hands, Shape, Making, WithCopy, AddToVNet, PutVms, Return
<1>2. [r.v EXCEPT !.list = @ \cup {r.on}, !.status = "InUse"] \in VNetRecord \/ r.pc = "putVms"
  BY <1>1 DEF Before, Hands, Shape, VNetRecord
<1>3. [r.v EXCEPT !.list = @ \cup {r.on}, !.status = "InUse"].name = r.v.name
  BY <1>1 DEF VNetRecord
<1>4. UNCHANGED <<subnets, vpcs, parts, lost>>
  BY DEF AddToVNet, PutVms, spider
<1>5. \E v \in VNetRecord : v.name = r.v.name /\ vnet' \in {vnet, v}
  <2>1. CASE AddToVNet(c)
    <3>1. r.pc = "addToVNet"
      BY <2>1 DEF AddToVNet
    <3> QED
      BY <1>2, <1>3, <2>1, <3>1 DEF AddToVNet
  <2>2. CASE PutVms(c)
    BY <1>1, <2>2 DEF PutVms
  <2> QED
    BY <2>1, <2>2
<1>6. SameNames /\ Narrow(c)
  BY <1>1, <1>4, <1>5, SameVNet
<1> QED
  BY <1>1, <1>6, GivesUp DEF Sound

LEMMA MakeSound ==
    ASSUME NEW c \in Clients, Before(c), GoesOn(c), MakeStep(c)
    PROVE  Sound(c)
BY PutSubnetSound, CleanSubnetSound, SaveSubnetSound, PostSubnetSound, PutBackSound DEF MakeStep

\* The subnet a deletion or a refinement is at.
LEMMA AtSubnet ==
    ASSUME NEW c \in Clients, Before(c), req[c].pc \in SubnetSteps
    PROVE  /\ req[c].sub \in SubnetRecord /\ req[c].sub.id \in Subnets /\ req[c].v \in VNetRecord
           /\ req[c].kind \notin WholeKinds => req[c].sub.id = req[c].on
           /\ req[c].kind \in {"DeleteVNet", "RefineVNet", "DeleteSubnet", "RefineSubnet"}
           /\ vnet # None /\ req[c].v.name = vnet.name /\ Unsaved(req[c]) = {}
           /\ req[c].pc \in WithRecord =>
                /\ req[c].sub.id \in Keys /\ subnets[req[c].sub.id].name = req[c].sub.name
                /\ subnets[req[c].sub.id].vpc = req[c].sub.vpc
                /\ req[c].sub.name \in NamesOf(req[c].sub.id)
                /\ \A p \in parts : p.name = req[c].sub.name => p.vpc = req[c].sub.vpc
<1>1. /\ req[c].sub \in SubnetRecord /\ req[c].v \in VNetRecord
      /\ req[c].kind \notin WholeKinds => req[c].sub.id = req[c].on
      /\ req[c].kind \in {"DeleteVNet", "RefineVNet", "DeleteSubnet", "RefineSubnet"}
  BY DEF Before, Hands, Shape, SubnetSteps, WithCopy
<1>2. req[c].sub.id \in Subnets
  BY <1>1 DEF SubnetRecord
<1>3. vnet # None /\ req[c].v.name = vnet.name
  BY DEF Before, HandOf, CopyHand, WithCopy
<1>4. req[c].pc \in WithRecord =>
         /\ req[c].sub.id \in Keys /\ subnets[req[c].sub.id].name = req[c].sub.name
         /\ subnets[req[c].sub.id].vpc = req[c].sub.vpc
  BY <1>2 DEF Before, HandOf, SubnetHand, Keys
<1>5. Unsaved(req[c]) = {}
  BY UnsavedIs DEF SubnetSteps, WithRecord
<1> QED
  BY <1>1, <1>2, <1>3, <1>4, <1>5 DEF SpiderSound, Before

\* Going on to the next subnet.
LEMMA NextHand ==
    ASSUME NEW c \in Clients, req'[c].pc = "nextSubnet", req'[c].kind = "DeleteVNet" => Keys' \subseteq req'[c].todo
    PROVE  HandOf(c)' /\ Unsaved(req'[c]) = {}
BY UnsavedIs
DEF HandOf, CopyHand, SubnetHand, MakeHand, CreateHand, EndHand, WithCopy, Making, SubnetSteps, WithRecord

LEMMA ReadSubnetSound ==
    ASSUME NEW c \in Clients, Before(c), GoesOn(c), ReadSubnet(c) \/ NoMoreSubnets(c)
    PROVE  Sound(c)
<1> DEFINE r == req[c]
<1>1. r.pc = "nextSubnet" /\ r \in Requests /\ Unsaved(r) = {}
  BY UnsavedIs DEF ReadSubnet, NoMoreSubnets, Before, Hands
<1>2. UNCHANGED NameState /\ Keys' = Keys
  BY DEF ReadSubnet, NoMoreSubnets, NameState, spider, history, Keys
<1>3. SameNames /\ Narrow(c)
  BY <1>2, NothingChanges DEF Narrow
<1>4. SpiderSound' /\ Tied' /\ Found'
  BY <1>1, <1>3, SameSound, SameFound DEF Before, GoesOn
<1>5. r.kind = "DeleteVNet" => Keys \subseteq r.todo
  BY <1>1 DEF Before, HandOf, EndHand
<1>6. Return(c) => HandOf(c)'
  BY IdleHand DEF Return, Before, Hands
<1>7. ASSUME NoMoreSubnets(c) PROVE HandOf(c)'
  <2>1. ASSUME r.kind = "DeleteVNet", GoTo(c, "readVNet") PROVE HandOf(c)'
    <3>1. req'[c] = [r EXCEPT !.pc = "readVNet"] /\ Keys' = {}
      BY <1>2, <1>5, <1>7, <2>1 DEF GoTo, Before, Hands, NoMoreSubnets
    <3>2. req'[c].pc = "readVNet" /\ req'[c].kind = "DeleteVNet"
      BY <1>1, <2>1, <3>1 DEF Requests
    <3> QED
      BY <3>1, <3>2
      DEF HandOf, CopyHand, SubnetHand, MakeHand, CreateHand, EndHand, WithCopy, Making, SubnetSteps, WithRecord
  <2> QED
    BY <1>6, <1>7, <2>1 DEF NoMoreSubnets
<1>8. ASSUME NEW s \in r.todo, req' = [req EXCEPT ![c].todo = @ \ {s}], r.kind = "RefineVNet" PROVE HandOf(c)'
  <2>1. req'[c].pc = "nextSubnet" /\ req'[c].kind = "RefineVNet"
    BY <1>1, <1>8 DEF Requests, Before, Hands
  <2> QED
    BY <2>1, NextHand
<1>9. ASSUME NEW s \in r.todo, vnet # None, subnets[s] # None, NEW label \in {"getSubnet", "markSubnet"},
             req' = [req EXCEPT ![c].v = vnet, ![c].sub = subnets[s], ![c].pc = label]
      PROVE  HandOf(c)'
  <2>1. /\ req'[c].v = vnet /\ req'[c].sub = subnets[s] /\ req'[c].pc = label
        /\ req'[c].kind = r.kind /\ req'[c].todo = r.todo
    BY <1>1, <1>9 DEF Requests, Before, Hands
  <2>2. s \in Subnets /\ subnets[s].id = s
    BY <1>1, <1>9 DEF Requests, Before, RestType, Keys
  <2>3. CopyHand(req[c])' /\ SubnetHand(req[c])'
    BY <1>2, <1>9, <2>1, <2>2 DEF CopyHand, SubnetHand, NameState
  <2>4. MakeHand(req[c])' /\ CreateHand(req[c])' /\ EndHand(req[c])'
    BY <1>2, <1>5, <1>9, <2>1 DEF MakeHand, CreateHand, EndHand, Making
  <2> QED
    BY <2>3, <2>4 DEF HandOf
<1>10. ASSUME ReadSubnet(c) PROVE HandOf(c)'
  BY <1>6, <1>8, <1>9, <1>10 DEF ReadSubnet
<1> QED
  BY <1>3, <1>4, <1>7, <1>10 DEF Sound

LEMMA MarkSubnetSound ==
    ASSUME NEW c \in Clients, Before(c), GoesOn(c), MarkSubnet(c)
    PROVE  Sound(c)
<1> DEFINE r == req[c]
           sub == Marked(r.sub)
<1>1. r.pc = "markSubnet" /\ r.pc \in SubnetSteps /\ r.pc \in WithRecord /\ r \in Requests
  BY DEF MarkSubnet, SubnetSteps, WithRecord, Before, Hands
<1>2. sub \in SubnetRecord /\ sub.id = r.sub.id /\ sub.name = r.sub.name /\ sub.vpc = r.sub.vpc
  BY <1>1, AtSubnet DEF Marked, SubnetRecord
<1>3. UNCHANGED <<vnet, vpcs, parts, lost>>
  BY DEF MarkSubnet, spider
<1> HIDE DEF sub
<1>4. CASE subnets' = subnets /\ Return(c)
  <2>1. UNCHANGED NameState /\ req'[c] = Idle
    BY <1>3, <1>4 DEF NameState, Return, Before, Hands
  <2> QED
    BY <1>1, <2>1, AtSubnet, NothingChanges, GivesUp DEF Sound, Narrow
<1>5. CASE subnets' = [subnets EXCEPT ![sub.id] = sub] /\ GoTo(c, "deletePart")
  <2>1. RestType /\ sub.id \in Subnets /\ sub.id \in Keys
    BY <1>1, <1>2, AtSubnet DEF Before
  <2>2. /\ subnets'[sub.id] = sub /\ sub # None /\ Keys' = Keys \cup {sub.id}
        /\ \A t \in Subnets \ {sub.id} : subnets'[t] = subnets[t]
    <3> DEFINE id == sub.id
    <3>1. RestType /\ id \in Subnets /\ sub \in SubnetRecord /\ subnets' = [subnets EXCEPT ![id] = sub]
      BY <1>2, <1>5, <2>1
    <3> HIDE DEF id
    <3>2. /\ subnets'[id] = sub /\ sub # None /\ Keys' = Keys \cup {id}
          /\ \A t \in Subnets \ {id} : subnets'[t] = subnets[t]
      BY <3>1, OneRecord
    <3> QED
      BY <3>2 DEF id
  <2>3. \A t \in Keys : subnets'[t].name = subnets[t].name /\ subnets'[t].vpc = subnets[t].vpc
    BY <1>1, <1>2, <2>2, AtSubnet DEF Keys
  <2>4. SameNames
    BY <1>3, <2>1, <2>2, <2>3 DEF SameNames
  <2>5. Narrow(c)
    BY <1>1, <1>2, <1>3, <2>2, AtSubnet DEF Narrow, StepAt
  <2>6. /\ req'[c].pc = "deletePart" /\ req'[c].kind = r.kind /\ req'[c].todo = r.todo
        /\ req'[c].sub = r.sub /\ req'[c].v = r.v
    BY <1>1, <1>5 DEF GoTo, Before, Hands, Requests
  <2>7. CopyHand(req[c])' /\ SubnetHand(req[c])'
    BY <1>1, <1>2, <1>3, <2>2, <2>6, AtSubnet DEF CopyHand, SubnetHand
  <2>8. r.kind = "DeleteVNet" => Keys \subseteq r.todo
    BY <1>1 DEF Before, HandOf, EndHand
  <2>9. MakeHand(req[c])' /\ CreateHand(req[c])' /\ EndHand(req[c])'
    BY <2>1, <2>2, <2>6, <2>8 DEF MakeHand, CreateHand, EndHand, Making
  <2>10. Unsaved(req[c]) = {} /\ Unsaved(req'[c]) = {}
    BY <1>1, <2>6, UnsavedIs
  <2> QED
    BY <2>4, <2>5, <2>7, <2>9, <2>10, SameSound, SameFound DEF Sound, HandOf, Before, GoesOn
<1> QED
  BY <1>4, <1>5 DEF MarkSubnet, sub

LEMMA DeletePartSound ==
    ASSUME NEW c \in Clients, Before(c), GoesOn(c), DeletePart(c)
    PROVE  Sound(c)
<1> DEFINE r == req[c]
           id == r.sub.id
           name == r.sub.name
           found == InSpider(r.sub)
<1>1. r.pc = "deletePart" /\ r.pc \in SubnetSteps /\ r.pc \in WithRecord /\ r \in Requests
  BY DEF DeletePart, SubnetSteps, WithRecord, Before, Hands
<1>2. /\ id \in Keys /\ subnets[id].name = name /\ name \in NamesOf(id) /\ id \in Subnets
      /\ Unsaved(r) = {} /\ (r.kind \notin WholeKinds => id = r.on)
      /\ found = {p \in parts : p.name = name}
  BY <1>1, AtSubnet DEF InSpider
<1>3. UNCHANGED <<vnet, subnets, vpcs>> /\ Keys' = Keys
  BY DEF DeletePart, Keys
<1>4. Return(c) => req'[c] = Idle
  BY DEF Return, Before, Hands
<1>5. CASE Return(c) /\ UNCHANGED <<parts, lost>>
  <2>1. UNCHANGED NameState
    BY <1>3, <1>5 DEF NameState
  <2> QED
    BY <1>2, <1>4, <1>5, <2>1, NothingChanges, GivesUp DEF Sound, Narrow
<1>6. CASE /\ found # {} /\ parts' = parts \ found /\ lost' = lost \ {p.name : p \in found}
           /\ (Return(c) \/ GoTo(c, "dropSubnet"))
  <2>1. name \in PartNames /\ name # NoName /\ name \in OwnNames(id)
    BY <1>2, <1>6, PartsHaveNames DEF Before, OwnNames, NamesOf
  <2>2. {p.name : p \in found} = {name}
    BY <1>2, <1>6
  <2> HIDE DEF id, name, found
  <2>3. parts' \subseteq parts /\ (\A p \in parts' : p.name # name) /\ lost' = lost \ {name}
        /\ \A p \in parts : p.name # name => p \in parts'
    BY <1>2, <1>6, <2>2
  <2>4. SpiderSound'
    BY <1>3, <2>3 DEF SpiderSound, NamesOf, Before
  <2>5. \A s \in Keys : Loose(s) => Loose(s)'
    BY <1>3, <2>3 DEF Loose
  <2>6. Tied'
    BY <1>3, <2>5 DEF Tied, Before
  <2>7. VpcsFound(c)
    BY <1>2, <1>3, <2>1, <2>3, PartsHaveNames DEF VpcsFound, Before
  <2>8. PartsFound(c)
    BY <1>2, <1>3, <2>3 DEF PartsFound
  <2>9. Found'
    BY <2>7, <2>8, FoundAgain DEF Before, GoesOn
  <2>10. Narrow(c)
    BY <1>2, <1>3, <2>1, <2>3 DEF Narrow, StepAt
  <2>11. ASSUME GoTo(c, "dropSubnet") PROVE HandOf(c)'
    <3>1. /\ req'[c].pc = "dropSubnet" /\ req'[c].kind = r.kind /\ req'[c].todo = r.todo
          /\ req'[c].sub = r.sub /\ req'[c].v = r.v
      BY <1>1, <2>11 DEF GoTo, Before, Hands, Requests
    <3>2. r.kind = "DeleteVNet" => Keys \subseteq r.todo
      BY <1>1 DEF Before, HandOf, EndHand
    <3>3. CopyHand(req[c])'
      BY <1>1, <1>3, <3>1, AtSubnet DEF CopyHand
    <3>4. Loose(id)'
      BY <1>2, <1>3, <2>3, <3>1 DEF Loose, id, name
    <3>5. SubnetHand(req[c])'
      BY <1>1, <1>3, <3>1, <3>4, AtSubnet DEF SubnetHand, id, Keys
    <3>6. MakeHand(req[c])' /\ CreateHand(req[c])' /\ EndHand(req[c])'
      BY <1>3, <3>1, <3>2 DEF MakeHand, CreateHand, EndHand, Making, WithRecord
    <3> QED
      BY <3>3, <3>5, <3>6 DEF HandOf
  <2> QED
    BY <1>4, <1>6, <2>4, <2>6, <2>9, <2>10, <2>11, IdleHand DEF Sound
<1> QED
  BY <1>5, <1>6 DEF DeletePart, NotDeleted

LEMMA GetSubnetSound ==
    ASSUME NEW c \in Clients, Before(c), GoesOn(c), GetSubnet(c)
    PROVE  Sound(c)
<1> DEFINE r == req[c]
           id == r.sub.id
           name == r.sub.name
           found == InSpider(r.sub)
<1>1. r.pc = "getSubnet" /\ r.pc \in SubnetSteps /\ r.pc \in WithRecord /\ r \in Requests /\ r.kind # "DeleteVNet"
  BY DEF GetSubnet, SubnetSteps, WithRecord, Before, Hands, Shape
<1>2. /\ id \in Keys /\ subnets[id].name = name /\ name \in NamesOf(id) /\ id \in Subnets
      /\ Unsaved(r) = {} /\ (r.kind \notin WholeKinds => id = r.on)
      /\ found = {p \in parts : p.name = name}
  BY <1>1, AtSubnet DEF InSpider
<1>3. UNCHANGED <<vnet, subnets, vpcs, parts>> /\ Keys' = Keys
  BY DEF GetSubnet, Keys, spider
<1>4. {p.name : p \in found} \subseteq OwnNames(id) /\ {p.name : p \in found} \subseteq {name}
  BY <1>2, PartsHaveNames DEF Before, OwnNames, NamesOf
<1>5. lost \subseteq lost' /\ lost' \subseteq lost \cup {p.name : p \in found}
  BY DEF GetSubnet
<1>6. SameNames
  BY <1>3, <1>5 DEF SameNames
<1>7. Narrow(c)
  BY <1>2, <1>3, <1>4, <1>5 DEF Narrow, StepAt
<1>8. SpiderSound' /\ Tied' /\ Found'
  BY <1>2, <1>6, SameSound, SameFound DEF Before, GoesOn
<1>9. ASSUME SubnetFails(c) PROVE HandOf(c)'
  <2>1. req'[c] = Idle \/ (req'[c].pc = "nextSubnet" /\ req'[c].kind = "RefineVNet")
    BY <1>1, <1>9 DEF SubnetFails, Return, Requests, Before, Hands
  <2> QED
    BY <2>1, IdleHand, NextHand
<1>10. ASSUME found = {} \/ lost' = lost \cup {p.name : p \in found}, GoTo(c, "dropSubnet") PROVE HandOf(c)'
  <2>1. /\ req'[c].pc = "dropSubnet" /\ req'[c].kind = r.kind /\ req'[c].todo = r.todo
        /\ req'[c].sub = r.sub /\ req'[c].v = r.v
    BY <1>1, <1>10 DEF GoTo, Before, Hands, Requests
  <2>2. CopyHand(req[c])'
    BY <1>1, <1>3, <2>1, AtSubnet DEF CopyHand
  <2>3. Loose(id)'
    BY <1>2, <1>3, <1>10, <2>1 DEF Loose
  <2>4. SubnetHand(req[c])'
    BY <1>1, <1>3, <2>1, <2>3, AtSubnet DEF SubnetHand, Keys
  <2>5. MakeHand(req[c])' /\ CreateHand(req[c])' /\ EndHand(req[c])'
    BY <1>1, <2>1 DEF MakeHand, CreateHand, EndHand, Making
  <2> QED
    BY <2>2, <2>4, <2>5 DEF HandOf
<1> HIDE DEF found
<1>11. HandOf(c)'
  BY <1>9, <1>10 DEF GetSubnet, found
<1> QED
  BY <1>7, <1>8, <1>11 DEF Sound

LEMMA DropSubnetSound ==
    ASSUME NEW c \in Clients, Before(c), GoesOn(c), DropSubnet(c)
    PROVE  Sound(c)
<1> DEFINE r == req[c]
           id == r.sub.id
<1>1. r.pc = "dropSubnet" /\ r.pc \in SubnetSteps /\ r.pc \in WithRecord /\ r \in Requests
  BY DEF DropSubnet, SubnetSteps, WithRecord, Before, Hands
<1>2. /\ id \in Keys /\ id \in Subnets /\ Unsaved(r) = {} /\ (r.kind \notin WholeKinds => id = r.on)
      /\ Loose(id)
  BY <1>1, AtSubnet DEF Before, HandOf, SubnetHand
<1>3. UNCHANGED <<vnet, vpcs, parts, lost>>
  BY DEF DropSubnet, spider
<1>4. r.kind = "DeleteVNet" => Keys \subseteq r.todo
  BY <1>1 DEF Before, HandOf, EndHand
<1>5. ASSUME GoTo(c, "removeFromVNet"), Keys' \subseteq Keys \ {id} \/ r.kind # "DeleteVNet"
      PROVE  HandOf(c)' /\ Unsaved(req'[c]) = {}
  <2>1. /\ req'[c].pc = "removeFromVNet" /\ req'[c].kind = r.kind /\ req'[c].todo = r.todo
        /\ req'[c].sub = r.sub /\ req'[c].v = r.v
    BY <1>1, <1>5 DEF GoTo, Before, Hands, Requests
  <2>2. CopyHand(req[c])'
    BY <1>1, <1>3, <2>1, AtSubnet DEF CopyHand
  <2>3. SubnetHand(req[c])' /\ MakeHand(req[c])' /\ CreateHand(req[c])' /\ EndHand(req[c])'
    BY <1>4, <1>5, <2>1 DEF SubnetHand, MakeHand, CreateHand, EndHand, Making, WithRecord
  <2>4. Unsaved(req'[c]) = {}
    BY <2>1, UnsavedIs
  <2> QED
    BY <2>2, <2>3, <2>4 DEF HandOf
<1>6. CASE UNCHANGED subnets /\ (IF Refines(c) THEN GoTo(c, "removeFromVNet") ELSE Return(c))
  <2>1. UNCHANGED NameState
    BY <1>3, <1>6 DEF NameState
  <2>2. Return(c) => req'[c] = Idle
    BY DEF Return, Before, Hands
  <2>3. HandOf(c)' /\ Unsaved(req'[c]) = {}
    BY <1>5, <1>6, <2>2, IdleHand DEF Refines
  <2> QED
    BY <1>2, <2>1, <2>3, NothingChanges, SameSound, SameFound DEF Sound, Narrow, Before, GoesOn
<1>7. CASE subnets' = [subnets EXCEPT ![id] = None] /\ GoTo(c, "removeFromVNet")
  <2> HIDE DEF id
  <2>1. /\ Keys' = Keys \ {id}
        /\ \A t \in Subnets \ {id} : subnets'[t] = subnets[t]
        /\ \A t \in Keys \ {id} : subnets'[t] = subnets[t] /\ t \in Keys'
        /\ \A t \in Keys' : subnets'[t] = subnets[t] /\ t \in Keys
    BY <1>2, <1>7, RecordGone DEF Before
  <2>2. SpiderSound'
    BY <1>3, <2>1 DEF SpiderSound, NamesOf, Before
  <2>3. Tied'
    BY <1>3, <2>1 DEF Tied, Loose, Before
  <2>4. VpcsFound(c)
    BY <1>2, <1>3 DEF VpcsFound
  <2>5. PartsFound(c)
    BY <1>2, <1>3, <2>1 DEF PartsFound, Loose
  <2>6. Found'
    BY <2>4, <2>5, FoundAgain DEF Before, GoesOn
  <2>7. Narrow(c)
    BY <1>2, <1>3, <2>1 DEF Narrow, StepAt
  <2> QED
    BY <1>5, <1>7, <2>1, <2>2, <2>3, <2>6, <2>7 DEF Sound
<1> QED
  BY <1>6, <1>7 DEF DropSubnet

LEMMA RemoveFromVNetSound ==
    ASSUME NEW c \in Clients, Before(c), GoesOn(c), RemoveFromVNet(c)
    PROVE  Sound(c)
<1> DEFINE r == req[c]
<1>1. r.pc = "removeFromVNet" /\ r.pc \in SubnetSteps /\ r \in Requests /\ r.pc \in WithCopy
  BY DEF RemoveFromVNet, SubnetSteps, WithRecord, WithCopy, Before, Hands
<1>2. r.v \in VNetRecord /\ r.sub \in SubnetRecord /\ Unsaved(r) = {}
  BY <1>1, AtSubnet
<1>3. UNCHANGED <<subnets, vpcs, parts, lost>> /\ Keys' = Keys
  BY DEF RemoveFromVNet, spider, Keys
<1>4. \A list \in SUBSET Subnets :
         /\ [r.v EXCEPT !.list = list, !.status = IF list = {} THEN "Available" ELSE @] \in VNetRecord
         /\ [r.v EXCEPT !.list = list, !.status = IF list = {} THEN "Available" ELSE @].name = r.v.name
  BY <1>2 DEF VNetRecord
<1>5. Without(r.v.list, r.sub.id) \in SUBSET Subnets
  BY <1>2 DEF VNetRecord, Without
<1>6. \E v \in VNetRecord : v.name = r.v.name /\ vnet' \in {vnet, v}
  <2>1. CASE UNCHANGED vnet
    BY <1>2, <2>1
  <2>2. CASE vnet' = [r.v EXCEPT !.list = Without(r.v.list, r.sub.id),
                                 !.status = IF Without(r.v.list, r.sub.id) = {} THEN "Available" ELSE @]
    BY <1>4, <1>5, <2>2
  <2> QED
    BY <2>1, <2>2 DEF RemoveFromVNet
<1>7. SameNames /\ Narrow(c)
  BY <1>1, <1>3, <1>6, SameVNet
<1>8. SpiderSound' /\ Tied' /\ Found'
  BY <1>2, <1>7, SameSound, SameFound DEF Before, GoesOn
<1>9. r.kind = "DeleteVNet" => Keys \subseteq r.todo \ {r.sub.id}
  BY <1>1 DEF Before, HandOf, EndHand
<1>10. Return(c) => HandOf(c)'
  BY IdleHand DEF Return, Before, Hands
<1>11. SubnetDone(c) => HandOf(c)'
  <2> SUFFICES ASSUME SubnetDone(c) PROVE HandOf(c)'
    OBVIOUS
  <2>1. req'[c].pc = "nextSubnet" /\ req'[c].kind = r.kind /\ req'[c].todo = r.todo \ {r.sub.id}
    BY <1>1 DEF SubnetDone, Requests, Before, Hands
  <2> QED
    BY <1>3, <1>9, <2>1, NextHand
<1> QED
  BY <1>7, <1>8, <1>10, <1>11 DEF Sound, RemoveFromVNet

LEMMA SubnetSound ==
    ASSUME NEW c \in Clients, Before(c), GoesOn(c), SubnetStep(c)
    PROVE  Sound(c)
BY ReadSubnetSound, MarkSubnetSound, DeletePartSound, GetSubnetSound, DropSubnetSound, RemoveFromVNetSound
DEF SubnetStep

-----------------------------------------------------------------------------
(* Creation and deletion of the whole vNet: nobody else is at work. *)

\* The record of the vNet may change while nothing depends on it.
LEMMA PutVNetSound ==
    ASSUME NEW c \in Clients, Before(c), GoesOn(c), PutVNet(c)
    PROVE  Sound(c)
<1> DEFINE r == req[c]
<1>1. /\ r.pc = "putVNet" /\ r \in Requests /\ r.uid \in Uids /\ r.v \in VNetRecord /\ r.v.name = NoName
      /\ r.kind \in {"CreateVNet", "RegisterVNet"} /\ vnet = None /\ AllLoose
      /\ r.uid \notin vpcs /\ (\A p \in parts : p.name \notin Named(r.uid, Subnets))
      /\ \A s \in Keys : subnets[s].name \notin Named(r.uid, Subnets)
  BY DEF PutVNet, Before, Hands, Shape, Creating, HandOf, CreateHand
<1>2. Unsaved(r) = {} /\ UNCHANGED <<subnets, vpcs, parts, lost>> /\ Keys' = Keys
  BY <1>1, UnsavedIs DEF PutVNet, spider, Keys
<1>3. CASE Return(c) /\ UNCHANGED vnet
  <2>1. UNCHANGED NameState /\ req'[c] = Idle
    BY <1>2, <1>3 DEF NameState, Return, Before, Hands
  <2> QED
    BY <1>2, <2>1, NothingChanges, GivesUp DEF Sound, Narrow
<1>4. CASE vnet' = r.v /\ GoTo(c, "postVNet")
  <2>1. vnet' # None /\ vnet'.name = NoName
    BY <1>1, <1>4, NameAssumption
  <2>2. AllLoose' /\ SpiderSound'
    BY <1>1, <1>2 DEF AllLoose, Loose, SpiderSound, NamesOf, Before
  <2>3. Tied'
    BY <2>2 DEF Tied, AllLoose
  <2>4. VpcsFound(c) /\ PartsFound(c)
    BY <1>1, <1>2 DEF VpcsFound, PartsFound
  <2>5. Found'
    BY <2>4, FoundAgain DEF Before, GoesOn
  <2>6. req'[c].pc = "postVNet" /\ req'[c].kind = r.kind /\ req'[c].uid = r.uid
    BY <1>1, <1>4 DEF GoTo, Before, Hands, Requests
  <2>7. CreateHand(req[c])'
    BY <1>1, <1>2, <2>1, <2>2, <2>6 DEF CreateHand
  <2>8. CopyHand(req[c])' /\ SubnetHand(req[c])' /\ MakeHand(req[c])' /\ EndHand(req[c])'
    BY <1>1, <2>6 DEF CopyHand, SubnetHand, MakeHand, EndHand, WithCopy, Making, SubnetSteps, WithRecord
  <2> QED
    BY <1>1, <2>2, <2>3, <2>5, <2>7, <2>8 DEF Sound, HandOf, Narrow, WholeKinds
<1> QED
  BY <1>3, <1>4 DEF PutVNet

LEMMA PostVNetSound ==
    ASSUME NEW c \in Clients, Before(c), GoesOn(c), PostVNet(c)
    PROVE  Sound(c)
<1> DEFINE r == req[c]
<1>1. /\ r.pc = "postVNet" /\ r \in Requests /\ r.uid \in Uids /\ r.v \in VNetRecord
      /\ r.kind \in {"CreateVNet", "RegisterVNet"} /\ vnet # None /\ vnet.name = NoName /\ AllLoose
      /\ r.uid \notin vpcs /\ (\A p \in parts : p.name \notin Named(r.uid, Subnets))
      /\ \A s \in Keys : subnets[s].name \notin Named(r.uid, Subnets)
  BY DEF PostVNet, Before, Hands, Shape, Creating, HandOf, CreateHand
<1>2. Unsaved(r) = {} /\ UNCHANGED <<vnet, subnets>> /\ Keys' = Keys /\ Narrow(c)
  BY <1>1, UnsavedIs DEF PostVNet, Keys, Narrow, WholeKinds
<1>3. r.v.list \in SUBSET Subnets
  BY <1>1 DEF VNetRecord
<1>4. ASSUME AllLoose', GoTo(c, "cleanVNet")
      PROVE  HandOf(c)' /\ Unsaved(req'[c]) = {}
  <2>1. req'[c].pc = "cleanVNet" /\ req'[c].kind = r.kind
    BY <1>1, <1>4 DEF GoTo, Before, Hands, Requests
  <2>2. CreateHand(req[c])'
    BY <1>1, <1>2, <1>4, <2>1 DEF CreateHand
  <2>3. CopyHand(req[c])' /\ SubnetHand(req[c])' /\ MakeHand(req[c])' /\ EndHand(req[c])'
    BY <1>1, <2>1 DEF CopyHand, SubnetHand, MakeHand, EndHand, WithCopy, Making, SubnetSteps, WithRecord
  <2> QED
    BY <2>1, <2>2, <2>3, UnsavedIs DEF HandOf
<1>5. CASE GoTo(c, "cleanVNet") /\ UNCHANGED <<vpcs, parts, lost>>
  <2>1. SameNames
    BY <1>2, <1>5, NothingChanges DEF NameState
  <2> QED
    BY <1>1, <1>2, <1>4, <1>5, <2>1, SameSound, SameFound DEF Sound, Before, GoesOn
<1>6. ASSUME NEW list \in SUBSET Subnets, vpcs' = vpcs \cup {r.uid},
             parts' = parts \cup [vpc : {r.uid}, name : Named(r.uid, list)],
             lost \subseteq lost', {r.uid} \cup Named(r.uid, list) \subseteq lost' \cup Unsaved(req'[c])
      PROVE  /\ SpiderSound' /\ Tied' /\ Found' /\ AllLoose'
             /\ \A p \in parts' : p.name \in Named(r.uid, Subnets) => p.vpc = r.uid
  <2> DEFINE new == [vpc : {r.uid}, name : Named(r.uid, list)]
  <2>1. \A p \in new : p.vpc = r.uid /\ p.name \in Named(r.uid, list) /\ p.name \in Named(r.uid, Subnets)
    BY DEF Named
  <2>2. \A p, q \in new : p.name = q.name => p = q
    BY <2>1
  <2>3. parts' = parts \cup new
    BY <1>6
  <2> HIDE DEF new
  <2>4. SpiderSound'
    BY <1>1, <1>2, <1>6, <2>1, <2>2, <2>3 DEF SpiderSound, NamesOf, Before
  <2>5. AllLoose'
    BY <1>1, <1>2, <1>6, <2>1, <2>3 DEF AllLoose, Loose
  <2>6. Tied'
    BY <2>5 DEF Tied, AllLoose
  <2>7. VpcsFound(c)
    BY <1>2, <1>6 DEF VpcsFound
  <2>8. PartsFound(c)
    BY <1>2, <1>6, <2>1, <2>3 DEF PartsFound
  <2>9. Found'
    BY <2>7, <2>8, FoundAgain DEF Before, GoesOn
  <2> QED
    BY <1>1, <2>1, <2>3, <2>4, <2>5, <2>6, <2>9
<1>7. ASSUME NEW list \in SUBSET Subnets, vpcs' = vpcs \cup {r.uid},
             parts' = parts \cup [vpc : {r.uid}, name : Named(r.uid, list)], UNCHANGED lost,
             req' = [req EXCEPT ![c].v = [@ EXCEPT !.status = StatusOf(list), !.name = r.uid, !.list = list],
                                ![c].todo = list,
                                ![c].pc = IF r.kind = "CreateVNet" THEN "saveVNet" ELSE "saveSubnets"]
      PROVE  Sound(c)
  <2> DEFINE v == [r.v EXCEPT !.status = StatusOf(list), !.name = r.uid, !.list = list]
  <2>1. v.name = r.uid
    BY <1>1 DEF VNetRecord
  <2>2. req'[c] = [r EXCEPT !.v = v, !.todo = list,
                            !.pc = IF r.kind = "CreateVNet" THEN "saveVNet" ELSE "saveSubnets"]
    BY <1>7 DEF Before, Hands
  <2> HIDE DEF v
  <2>3. /\ req'[c].v = v /\ req'[c].todo = list /\ req'[c].kind = r.kind /\ req'[c].uid = r.uid
        /\ req'[c].pc = IF r.kind = "CreateVNet" THEN "saveVNet" ELSE "saveSubnets"
    BY <1>1, <2>2 DEF Requests
  <2>4. Unsaved(req'[c]) = {r.uid} \cup Named(r.uid, list)
    BY <1>1, <2>3, UnsavedIs
  <2>5. /\ SpiderSound' /\ Tied' /\ Found' /\ AllLoose'
        /\ \A p \in parts' : p.name \in Named(r.uid, Subnets) => p.vpc = r.uid
    BY <1>6, <1>7, <2>4
  <2>6. CreateHand(req[c])'
    BY <1>1, <1>2, <2>1, <2>3, <2>5 DEF CreateHand, AllLoose
  <2>7. CopyHand(req[c])' /\ SubnetHand(req[c])' /\ MakeHand(req[c])' /\ EndHand(req[c])'
    BY <1>1, <2>3 DEF CopyHand, SubnetHand, MakeHand, EndHand, WithCopy, Making, SubnetSteps, WithRecord
  <2> QED
    BY <1>2, <2>5, <2>6, <2>7 DEF Sound, HandOf
<1>8. ASSUME NEW list \in SUBSET Subnets, vpcs' = vpcs \cup {r.uid},
             parts' = parts \cup [vpc : {r.uid}, name : Named(r.uid, list)],
             lost' = lost \cup {r.uid} \cup Named(r.uid, list), GoTo(c, "cleanVNet")
      PROVE  Sound(c)
  <2>1. SpiderSound' /\ Tied' /\ Found' /\ AllLoose'
    BY <1>6, <1>8
  <2> QED
    BY <1>2, <1>4, <1>8, <2>1 DEF Sound
<1> QED
  BY <1>3, <1>5, <1>7, <1>8 DEF PostVNet, spider

\* Records that are loose may go.
LEMMA RecordsGo ==
    ASSUME NEW c \in Clients, Before(c), GoesOn(c), AllLoose, UNCHANGED <<vpcs, parts, lost>>,
           \A s \in Subnets : subnets'[s] \in {None, subnets[s]},
           vnet' = vnet \/ (vnet' = None /\ (vnet # None => vnet.name \notin vpcs \/ vnet.name \in lost)),
           Unsaved(req[c]) = {}
    PROVE  SpiderSound' /\ Tied' /\ Found' /\ AllLoose' /\ Keys' \subseteq Keys
<1>1. \A s \in Keys' : s \in Keys /\ subnets'[s] = subnets[s]
  BY DEF Keys
<1>2. AllLoose'
  BY <1>1 DEF AllLoose, Loose
<1>3. Tied'
  BY <1>2 DEF Tied, AllLoose
<1>4. SpiderSound'
  BY <1>1 DEF SpiderSound, NamesOf, Before
<1>5. VpcsFound(c)
  BY DEF VpcsFound
<1>6. PartsFound(c)
  BY DEF PartsFound, AllLoose, Loose
<1>7. Found'
  BY <1>5, <1>6, FoundAgain DEF Before, GoesOn
<1> QED
  BY <1>1, <1>2, <1>3, <1>4, <1>7

LEMMA CleanVNetSound ==
    ASSUME NEW c \in Clients, Before(c), GoesOn(c), CleanVNet(c)
    PROVE  Sound(c)
<1> DEFINE r == req[c]
<1>1. /\ r.pc = "cleanVNet" /\ r.kind \in {"CreateVNet", "RegisterVNet"}
      /\ vnet # None /\ vnet.name = NoName /\ AllLoose
  BY DEF CleanVNet, Before, Hands, Shape, Creating, HandOf, CreateHand
<1>2. Unsaved(r) = {} /\ UNCHANGED <<vpcs, parts, lost>> /\ req'[c] = Idle /\ vnet' \in {None, vnet}
  BY <1>1, UnsavedIs DEF CleanVNet, spider, Return, Before, Hands
<1>3. \A s \in Subnets : subnets'[s] \in {None, subnets[s]}
  BY DEF CleanVNet
<1>4. vnet.name \notin vpcs
  BY <1>1, PartsHaveNames DEF Before
<1>5. SpiderSound' /\ Tied' /\ Found'
  BY <1>1, <1>2, <1>3, <1>4, RecordsGo
<1> QED
  BY <1>1, <1>2, <1>5, IdleHand DEF Sound, Narrow, WholeKinds

LEMMA SaveVNetSound ==
    ASSUME NEW c \in Clients, Before(c), GoesOn(c), SaveVNet(c)
    PROVE  Sound(c)
<1> DEFINE r == req[c]
<1>1. /\ r.pc = "saveVNet" /\ r \in Requests /\ r.uid \in Uids /\ r.v \in VNetRecord /\ r.v.name = r.uid
      /\ r.kind \in {"CreateVNet", "RegisterVNet"} /\ vnet # None /\ vnet.name = NoName
      /\ (\A p \in parts : p.name \in Named(r.uid, Subnets) => p.vpc = r.uid)
      /\ \A s \in Keys : Loose(s) \/ (subnets[s].vpc = r.uid /\ s \notin r.todo)
  BY DEF SaveVNet, Before, Hands, Shape, Creating, HandOf, CreateHand
<1>2. /\ Unsaved(r) = {r.uid} \cup (IF r.kind = "CreateVNet" THEN Named(r.uid, r.todo) ELSE {})
      /\ UNCHANGED <<subnets, vpcs, parts>> /\ Keys' = Keys /\ Narrow(c)
  BY <1>1, UnsavedIs DEF SaveVNet, spider, Keys, Narrow, WholeKinds
<1>3. Return(c) => req'[c] = Idle
  BY DEF Return, Before, Hands
<1>4. CASE /\ Return(c) /\ UNCHANGED vnet
           /\ lost' = lost \cup {r.uid} \cup IF r.kind = "CreateVNet" THEN Named(r.uid, r.todo) ELSE {}
  <2>1. SameNames
    BY <1>2, <1>4 DEF SameNames
  <2>2. Unsaved(r) \subseteq lost'
    BY <1>2, <1>4
  <2> QED
    BY <1>2, <1>3, <1>4, <2>1, <2>2, GivesUp DEF Sound
<1>5. CASE /\ vnet' = r.v /\ UNCHANGED lost
           /\ IF r.kind = "CreateVNet" THEN GoTo(c, "saveSubnets") ELSE Return(c)
  <2>1. vnet' # None /\ vnet'.name = r.uid
    BY <1>1, <1>5, NameAssumption
  <2>2. \A s \in Keys : Loose(s)' <=> Loose(s)
    BY <1>2, <1>5 DEF Loose
  <2>3. SpiderSound'
    BY <1>2 DEF SpiderSound, NamesOf, Before
  <2>4. Tied'
    BY <1>1, <1>2, <2>1, <2>2 DEF Tied
  <2>5. HandOf(c)' /\ Unsaved(r) \subseteq {r.uid} \cup Unsaved(req'[c])
    <3>1. CASE r.kind = "CreateVNet"
      <4>1. /\ req'[c].pc = "saveSubnets" /\ req'[c].kind = r.kind /\ req'[c].uid = r.uid
            /\ req'[c].todo = r.todo /\ req'[c].v = r.v
        BY <1>1, <1>5, <3>1 DEF GoTo, Before, Hands, Requests
      <4>2. CreateHand(req[c])'
        BY <1>1, <1>2, <2>1, <2>2, <3>1, <4>1 DEF CreateHand
      <4>3. CopyHand(req[c])' /\ SubnetHand(req[c])' /\ MakeHand(req[c])' /\ EndHand(req[c])'
        BY <3>1, <4>1 DEF CopyHand, SubnetHand, MakeHand, EndHand, WithCopy, Making, SubnetSteps, WithRecord
      <4>4. Named(r.uid, r.todo) \subseteq Unsaved(req'[c])
        BY <4>1, UnsavedIs
      <4> QED
        BY <1>2, <4>2, <4>3, <4>4 DEF HandOf
    <3>2. CASE r.kind # "CreateVNet"
      BY <1>2, <1>3, <1>5, <3>2, IdleHand
    <3> QED
      BY <3>1, <3>2
  <2>6. VpcsFound(c)
    BY <1>1, <1>2, <1>5, <2>1, <2>5, PartsHaveNames DEF VpcsFound, Before
  <2>7. PartsFound(c)
    BY <1>1, <1>2, <1>5, <2>5, PartsHaveNames DEF PartsFound, Before
  <2>8. Found'
    BY <2>6, <2>7, FoundAgain DEF Before, GoesOn
  <2> QED
    BY <1>2, <2>3, <2>4, <2>5, <2>8 DEF Sound
<1> QED
  BY <1>4, <1>5 DEF SaveVNet

LEMMA SaveSubnetsSound ==
    ASSUME NEW c \in Clients, Before(c), GoesOn(c), SaveSubnets(c)
    PROVE  Sound(c)
<1> DEFINE r == req[c]
           lastName == IF r.kind = "RegisterVNet" THEN {r.uid} ELSE {}
<1>1. /\ r.pc = "saveSubnets" /\ r \in Requests /\ r.uid \in Uids /\ r.v.name = r.uid
      /\ r.kind \in {"CreateVNet", "RegisterVNet"} /\ vnet # None /\ r.todo \subseteq Subnets
      /\ vnet.name = IF r.kind = "CreateVNet" THEN r.uid ELSE NoName
      /\ (\A p \in parts : p.name \in Named(r.uid, Subnets) => p.vpc = r.uid)
      /\ \A s \in Keys : Loose(s) \/ (subnets[s].vpc = r.uid /\ s \notin r.todo)
  BY DEF SaveSubnets, Before, Hands, Shape, Creating, HandOf, CreateHand, Requests
<1>2. /\ Unsaved(r) = Named(r.uid, r.todo) \cup lastName
      /\ UNCHANGED <<vnet, vpcs, parts>> /\ Narrow(c)
  BY <1>1, UnsavedIs DEF SaveSubnets, spider, Narrow, WholeKinds
<1>3. Return(c) => req'[c] = Idle
  BY DEF Return, Before, Hands
<1>4. CASE lost' = lost \cup Named(r.uid, r.todo) \cup lastName /\ Return(c) /\ UNCHANGED subnets
  <2>1. SameNames
    BY <1>2, <1>4 DEF SameNames, Keys
  <2>2. Unsaved(r) \subseteq lost'
    BY <1>2, <1>4
  <2> QED
    BY <1>2, <1>3, <1>4, <2>1, <2>2, GivesUp DEF Sound
<1>5. CASE /\ r.todo = {} /\ UNCHANGED <<subnets, lost>>
           /\ IF r.kind = "CreateVNet" THEN Return(c) ELSE GoTo(c, "saveVNet")
  <2>1. SameNames
    BY <1>2, <1>5 DEF SameNames, Keys
  <2>2. Named(r.uid, r.todo) = {}
    BY <1>5 DEF Named
  <2>3. HandOf(c)' /\ Unsaved(req[c]) \subseteq Unsaved(req'[c])
    <3>1. CASE r.kind = "CreateVNet"
      BY <1>2, <1>3, <1>5, <2>2, <3>1, IdleHand
    <3>2. CASE r.kind # "CreateVNet"
      <4>1. /\ req'[c].pc = "saveVNet" /\ req'[c].kind = "RegisterVNet" /\ req'[c].uid = r.uid
            /\ req'[c].todo = r.todo /\ req'[c].v = r.v
        BY <1>1, <1>5, <3>2 DEF GoTo, Before, Hands, Requests
      <4>2. \A s \in Keys : Loose(s)' <=> Loose(s)
        BY <1>2, <1>5 DEF Loose
      <4>3. CreateHand(req[c])'
        BY <1>1, <1>2, <1>5, <2>1, <3>2, <4>1, <4>2 DEF CreateHand, SameNames
      <4>4. CopyHand(req[c])' /\ SubnetHand(req[c])' /\ MakeHand(req[c])' /\ EndHand(req[c])'
        BY <4>1 DEF CopyHand, SubnetHand, MakeHand, EndHand, WithCopy, Making, SubnetSteps, WithRecord
      <4>5. r.uid \in Unsaved(req'[c])
        BY <4>1, UnsavedIs
      <4> QED
        BY <1>2, <2>2, <4>3, <4>4, <4>5 DEF HandOf
    <3> QED
      BY <3>1, <3>2
  <2> QED
    BY <1>2, <2>1, <2>3, SameSound, SameFound DEF Sound, Before, GoesOn
<1>6. ASSUME NEW s \in r.todo, UNCHANGED lost, req' = [req EXCEPT ![c].todo = @ \ {s}],
             subnets' = [subnets EXCEPT ![s] = [id |-> s, status |-> "Available",
                                                name |-> <<s, r.uid>>, vpc |-> r.uid]]
      PROVE  Sound(c)
  <2> DEFINE rec == [id |-> s, status |-> "Available", name |-> <<s, r.uid>>, vpc |-> r.uid]
  <2>1. s \in Subnets /\ rec \in SubnetRecord /\ rec.name = <<s, r.uid>> /\ rec.vpc = r.uid
    BY <1>1 DEF SubnetRecord, PartNames
  <2>2. RestType /\ subnets' = [subnets EXCEPT ![s] = rec]
    BY <1>6 DEF Before
  <2> HIDE DEF rec
  <2>3. /\ subnets'[s] = rec /\ Keys' = Keys \cup {s}
        /\ \A t \in Subnets \ {s} : subnets'[t] = subnets[t]
        /\ \A t \in Keys \ {s} : subnets'[t] = subnets[t] /\ t \in Keys'
        /\ \A t \in Keys' \ {s} : subnets'[t] = subnets[t] /\ t \in Keys
    BY <2>1, <2>2, OneRecord
  <2>4. s \in Keys => Loose(s)
    BY <1>1, <1>6
  <2>5. \A t \in Keys \ {s} : Loose(t)' <=> Loose(t)
    BY <1>2, <1>6, <2>3 DEF Loose
  <2>6. <<s, r.uid>> \in Named(r.uid, Subnets) /\ <<s, r.uid>> \in NamesOf(s)
    BY <1>1, <2>1 DEF Named, NamesOf
  <2>7. SpiderSound'
    <3>1. \A p, q \in parts' : p.name = q.name => p = q
      BY <1>2 DEF SpiderSound, Before
    <3>2. \A p \in parts' : p.vpc \in vpcs'
      BY <1>2 DEF SpiderSound, Before
    <3>3. \A t \in Keys' : subnets'[t].name \in NamesOf(t)
      BY <2>1, <2>3, <2>6 DEF SpiderSound, Before
    <3>4. \A t \in Keys' : \A p \in parts' : p.name = subnets'[t].name => p.vpc = subnets'[t].vpc
      BY <1>1, <1>2, <2>1, <2>3, <2>6 DEF SpiderSound, Before
    <3> QED
      BY <3>1, <3>2, <3>3, <3>4 DEF SpiderSound, NamesOf
  <2>8. Tied'
    BY <1>1, <1>2, <2>1, <2>3, <2>5 DEF Tied, Before
  <2>9. /\ req'[c].pc = "saveSubnets" /\ req'[c].kind = r.kind /\ req'[c].uid = r.uid
        /\ req'[c].todo = r.todo \ {s} /\ req'[c].v = r.v
    BY <1>1, <1>6 DEF Before, Hands, Requests
  <2>10. CreateHand(req[c])'
    BY <1>1, <1>2, <2>1, <2>3, <2>5, <2>9 DEF CreateHand
  <2>11. CopyHand(req[c])' /\ SubnetHand(req[c])' /\ MakeHand(req[c])' /\ EndHand(req[c])'
    BY <1>1, <2>9 DEF CopyHand, SubnetHand, MakeHand, EndHand, WithCopy, Making, SubnetSteps, WithRecord
  <2>12. Unsaved(req'[c]) = Named(r.uid, r.todo \ {s}) \cup lastName
    BY <2>9, UnsavedIs
  <2>13. Unsaved(r) \subseteq Unsaved(req'[c]) \cup {<<s, r.uid>>}
    BY <1>2, <2>12 DEF Named
  <2>14. <<s, r.uid>> \in PartNames
    BY <1>1, <2>1 DEF PartNames
  <2>15. VpcsFound(c)
    BY <1>2, <1>6, <2>13, <2>14, PartsHaveNames DEF VpcsFound, Before
  <2>16. PartsFound(c)
    BY <1>2, <1>6, <2>1, <2>3, <2>4, <2>13 DEF PartsFound, Loose
  <2>17. Found'
    BY <2>15, <2>16, FoundAgain DEF Before, GoesOn
  <2> QED
    BY <1>2, <2>7, <2>8, <2>10, <2>11, <2>17 DEF Sound, HandOf
<1> HIDE DEF lastName
<1> QED
  BY <1>4, <1>5, <1>6 DEF SaveSubnets, lastName

LEMMA CreateSound ==
    ASSUME NEW c \in Clients, Before(c), GoesOn(c), CreateStep(c)
    PROVE  Sound(c)
BY PutVNetSound, PostVNetSound, CleanVNetSound, SaveVNetSound, SaveSubnetsSound DEF CreateStep

LEMMA MarkVNetSound ==
    ASSUME NEW c \in Clients, Before(c), GoesOn(c), ReadVNet(c) \/ MarkVNet(c)
    PROVE  Sound(c)
<1> DEFINE r == req[c]
<1>1. /\ r.pc \in {"readVNet", "markVNet"} /\ r \in Requests /\ r.kind = "DeleteVNet" /\ Unsaved(r) = {}
      /\ Keys = {}
  BY UnsavedIs DEF ReadVNet, MarkVNet, Before, Hands, Shape, HandOf, EndHand
<1>2. UNCHANGED <<subnets, vpcs, parts, lost>> /\ Keys' = Keys
  BY DEF ReadVNet, MarkVNet, spider, history, Keys
<1>3. Return(c) => HandOf(c)'
  BY IdleHand DEF Return, Before, Hands
<1>4. ASSUME NEW label \in {"markVNet", "deleteVpc"}, req'[c].pc = label, req'[c].kind = r.kind,
             vnet' # None, req'[c].v.name = vnet'.name
      PROVE  HandOf(c)'
  BY <1>1, <1>2, <1>4
  DEF HandOf, CopyHand, SubnetHand, MakeHand, CreateHand, EndHand, WithCopy, Making, SubnetSteps, WithRecord
<1>5. ASSUME ReadVNet(c) PROVE Sound(c)
  <2>1. UNCHANGED NameState
    BY <1>2, <1>5 DEF ReadVNet, NameState
  <2>2. SameNames /\ Narrow(c)
    BY <2>1, NothingChanges DEF Narrow
  <2>3. ASSUME vnet # None, req' = [req EXCEPT ![c].v = vnet, ![c].sub = None, ![c].pc = "markVNet"]
        PROVE  HandOf(c)'
    <3>1. req'[c].pc = "markVNet" /\ req'[c].kind = r.kind /\ req'[c].v = vnet
      BY <1>1, <2>3 DEF Before, Hands, Requests
    <3>2. vnet' = vnet
      BY <2>1 DEF NameState
    <3> QED
      BY <1>4, <2>3, <3>1, <3>2
  <2>4. HandOf(c)'
    BY <1>3, <1>5, <2>3 DEF ReadVNet
  <2> QED
    BY <1>1, <2>2, <2>4, SameSound, SameFound DEF Sound, Before, GoesOn
<1>6. ASSUME MarkVNet(c) PROVE Sound(c)
  <2> DEFINE v == [r.v EXCEPT !.status = "Deleting"]
  <2>1. r.pc = "markVNet" /\ r.pc \in WithCopy /\ r.v \in VNetRecord
    BY <1>6 DEF MarkVNet, WithCopy, Before, Hands, Shape
  <2>2. v \in VNetRecord /\ v.name = r.v.name
    BY <2>1 DEF VNetRecord
  <2>3. vnet' \in {vnet, v}
    BY <1>6 DEF MarkVNet
  <2>4. vnet # None /\ r.v.name = vnet.name
    BY <2>1 DEF Before, HandOf, CopyHand
  <2>5. ASSUME vnet' = v, GoTo(c, "deleteVpc") PROVE HandOf(c)'
    <3>1. req'[c].pc = "deleteVpc" /\ req'[c].kind = r.kind /\ req'[c].v = r.v
      BY <1>1, <2>5 DEF GoTo, Before, Hands, Requests
    <3>2. vnet' # None /\ vnet'.name = r.v.name
      BY <2>2, <2>5, NameAssumption
    <3> QED
      BY <1>4, <3>1, <3>2
  <2>6. HandOf(c)'
    BY <1>3, <1>6, <2>5 DEF MarkVNet
  <2> HIDE DEF v
  <2>7. SameNames /\ Narrow(c)
    BY <1>2, <2>1, <2>2, <2>3, SameVNet
  <2> QED
    BY <1>1, <2>6, <2>7, SameSound, SameFound DEF Sound, Before, GoesOn
<1> QED
  BY <1>5, <1>6

LEMMA DeleteVpcSound ==
    ASSUME NEW c \in Clients, Before(c), GoesOn(c), DeleteVpc(c)
    PROVE  Sound(c)
<1> DEFINE r == req[c]
           name == r.v.name
           inside == {p \in parts : p.vpc = name}
<1>1. /\ r.pc = "deleteVpc" /\ r \in Requests /\ r.kind = "DeleteVNet" /\ Unsaved(r) = {}
      /\ Keys = {} /\ vnet # None /\ vnet.name = name
  BY UnsavedIs DEF DeleteVpc, Before, Hands, Shape, HandOf, EndHand, CopyHand, WithCopy
<1>2. UNCHANGED <<vnet, subnets>> /\ Keys' = {} /\ Narrow(c)
  BY <1>1 DEF DeleteVpc, Keys, Narrow, WholeKinds
<1>3. Return(c) => req'[c] = Idle
  BY DEF Return, Before, Hands
<1>4. CASE Return(c) /\ UNCHANGED <<vpcs, parts, lost>>
  <2>1. UNCHANGED NameState
    BY <1>2, <1>4 DEF NameState
  <2> QED
    BY <1>1, <1>2, <1>3, <1>4, <2>1, NothingChanges, GivesUp DEF Sound
<1>5. CASE /\ vpcs' = vpcs \ {name} /\ parts' = parts \ inside /\ name \in vpcs
           /\ lost' = (lost \ {name}) \ {p.name : p \in inside}
           /\ (Return(c) \/ GoTo(c, "dropVNet"))
  <2>1. name \notin PartNames
    BY <1>5, PartsHaveNames DEF Before
  <2>2. \A p \in inside : p.name \in PartNames
    BY PartsHaveNames DEF Before
  <2>3. \A p \in parts' : p \in parts /\ p.vpc # name /\ p.name # name /\ \A q \in inside : q.name # p.name
    BY <1>5, <2>1, PartsHaveNames DEF SpiderSound, Before
  <2>4. SpiderSound'
    BY <1>2, <1>5, <2>3 DEF SpiderSound, NamesOf, Before
  <2>5. Tied'
    BY <1>2 DEF Tied
  <2>6. \A x \in vpcs : x \notin PartNames
    BY PartsHaveNames DEF Before
  <2>7. VpcsFound(c)
    BY <1>1, <1>2, <1>5, <2>2, <2>6 DEF VpcsFound
  <2>8. PartsFound(c)
    BY <1>1, <1>2, <1>5, <2>3 DEF PartsFound
  <2>9. Found'
    BY <2>7, <2>8, FoundAgain DEF Before, GoesOn
  <2>10. ASSUME GoTo(c, "dropVNet") PROVE HandOf(c)'
    <3>1. req'[c].pc = "dropVNet" /\ req'[c].kind = r.kind
      BY <1>1, <2>10 DEF GoTo, Before, Hands, Requests
    <3>2. vnet'.name \notin vpcs'
      BY <1>1, <1>2, <1>5
    <3>3. EndHand(req[c])'
      BY <1>1, <1>2, <3>1, <3>2 DEF EndHand, AllLoose, WithRecord
    <3>4. CopyHand(req[c])' /\ SubnetHand(req[c])' /\ MakeHand(req[c])' /\ CreateHand(req[c])'
      BY <3>1 DEF CopyHand, SubnetHand, MakeHand, CreateHand, WithCopy, Making, SubnetSteps, WithRecord
    <3> QED
      BY <3>3, <3>4 DEF HandOf
  <2> QED
    BY <1>2, <1>3, <1>5, <2>4, <2>5, <2>9, <2>10, IdleHand DEF Sound
<1> HIDE DEF name, inside
<1> QED
  BY <1>4, <1>5 DEF DeleteVpc, name, inside, spider

LEMMA GetVNetSound ==
    ASSUME NEW c \in Clients, Before(c), GoesOn(c), GetVNet(c)
    PROVE  Sound(c)
<1> DEFINE r == req[c]
           name == r.v.name
           below == {p.name : p \in UNION {InSpider(subnets[s]) : s \in Keys}}
<1>1. /\ r.pc = "getVNet" /\ r \in Requests /\ r.kind = "RefineVNet" /\ Unsaved(r) = {}
      /\ vnet # None /\ vnet.name = name
  BY UnsavedIs DEF GetVNet, Before, Hands, Shape, HandOf, CopyHand, WithCopy
<1>2. UNCHANGED <<vnet, subnets, vpcs, parts>> /\ Keys' = Keys /\ Narrow(c) /\ lost \subseteq lost'
  BY <1>1 DEF GetVNet, Keys, Narrow, WholeKinds, spider
<1>3. SameNames
  BY <1>2 DEF SameNames
<1>4. SpiderSound' /\ Tied' /\ Found'
  BY <1>1, <1>3, SameSound, SameFound DEF Before, GoesOn
<1>5. \A s \in Keys, p \in parts : p.name = subnets[s].name => p.name \in below
  <2> TAKE s \in Keys, p \in parts
  <2> HAVE p.name = subnets[s].name
  <2>1. p \in InSpider(subnets[s])
    BY DEF InSpider, SpiderSound, Before
  <2> QED
    BY <2>1
<1>6. ASSUME below \subseteq lost' \/ (name # NoName /\ name \notin vpcs), name \notin vpcs \/ name \in lost',
             GoTo(c, "dropSubnets")
      PROVE  HandOf(c)'
  <2>1. req'[c].pc = "dropSubnets" /\ req'[c].kind = r.kind
    BY <1>1, <1>6 DEF GoTo, Before, Hands, Requests
  <2>2. \A s \in Keys : Loose(s)'
    <3> TAKE s \in Keys
    <3>1. CASE below \subseteq lost'
      BY <1>2, <1>5, <3>1 DEF Loose
    <3>2. CASE name # NoName /\ name \notin vpcs
      <4>1. Loose(s) \/ vnet.name = subnets[s].vpc
        BY <1>1, <3>2 DEF Before, Tied
      <4>2. \A p \in parts : p.name = subnets[s].name => p.vpc = subnets[s].vpc /\ p.vpc \in vpcs
        BY DEF Before, SpiderSound
      <4>3. Loose(s)
        BY <1>1, <3>2, <4>1, <4>2 DEF Loose
      <4> QED
        BY <1>2, <4>3 DEF Loose
    <3> QED
      BY <1>6, <3>1, <3>2
  <2>3. AllLoose'
    BY <1>2, <2>2 DEF AllLoose
  <2>4. EndHand(req[c])'
    BY <1>1, <1>2, <1>6, <2>1, <2>3 DEF EndHand
  <2>5. CopyHand(req[c])' /\ SubnetHand(req[c])' /\ MakeHand(req[c])' /\ CreateHand(req[c])'
    BY <2>1 DEF CopyHand, SubnetHand, MakeHand, CreateHand, WithCopy, Making, SubnetSteps, WithRecord
  <2> QED
    BY <2>4, <2>5 DEF HandOf
<1>7. ASSUME req' = [req EXCEPT ![c].pc = "nextSubnet", ![c].todo = Keys] PROVE HandOf(c)'
  <2>1. req'[c].pc = "nextSubnet" /\ req'[c].kind = r.kind
    BY <1>1, <1>7 DEF Before, Hands, Requests
  <2> QED
    BY <1>1, <2>1, NextHand
<1> HIDE DEF below
<1>8. HandOf(c)'
  BY <1>1, <1>6, <1>7 DEF GetVNet, below
<1> QED
  BY <1>2, <1>4, <1>8 DEF Sound

LEMMA DropSound ==
    ASSUME NEW c \in Clients, Before(c), GoesOn(c), DropSubnets(c) \/ DropVNet(c)
    PROVE  Sound(c)
<1> DEFINE r == req[c]
<1>1. /\ r.pc \in {"dropSubnets", "dropVNet"} /\ r \in Requests /\ r.kind \in WholeKinds /\ Unsaved(r) = {}
      /\ AllLoose /\ (vnet # None => vnet.name \notin vpcs \/ vnet.name \in lost)
      /\ (r.pc = "dropSubnets" => r.kind = "RefineVNet")
  BY UnsavedIs DEF DropSubnets, DropVNet, Before, Hands, Shape, HandOf, EndHand, WholeKinds
<1>2. UNCHANGED <<vpcs, parts, lost>> /\ Narrow(c) /\ vnet' \in {None, vnet}
  BY <1>1 DEF DropSubnets, DropVNet, spider, Narrow
<1>3. \A s \in Subnets : subnets'[s] \in {None, subnets[s]}
  BY DropsAll DEF DropVNet, Before
<1>4. SpiderSound' /\ Tied' /\ Found' /\ AllLoose'
  BY <1>1, <1>2, <1>3, RecordsGo
<1>5. ASSUME DropSubnets(c) PROVE HandOf(c)'
  <2>1. req'[c].pc = "dropVNet" /\ req'[c].kind = "RefineVNet" /\ vnet' = vnet
    BY <1>1, <1>5 DEF DropSubnets, GoTo, Before, Hands, Requests
  <2>2. EndHand(req[c])'
    BY <1>1, <1>2, <1>4, <2>1 DEF EndHand
  <2>3. CopyHand(req[c])' /\ SubnetHand(req[c])' /\ MakeHand(req[c])' /\ CreateHand(req[c])'
    BY <2>1 DEF CopyHand, SubnetHand, MakeHand, CreateHand, WithCopy, Making, SubnetSteps, WithRecord
  <2> QED
    BY <2>2, <2>3 DEF HandOf
<1>6. ASSUME DropVNet(c) PROVE HandOf(c)'
  BY <1>6, IdleHand DEF DropVNet, Return, Before, Hands
<1> QED
  BY <1>2, <1>4, <1>5, <1>6 DEF Sound

LEMMA EndSound ==
    ASSUME NEW c \in Clients, Before(c), GoesOn(c), EndStep(c)
    PROVE  Sound(c)
BY MarkVNetSound, DeleteVpcSound, GetVNetSound, DropSound DEF EndStep

-----------------------------------------------------------------------------
(* A request starts, the server stops, and the other requests. *)

LEMMA HandsKept ==
    ASSUME NEW d \in Clients, UNCHANGED NameState, req'[d] = req[d], HandOf(d)
    PROVE  HandOf(d)'
<1>1. Keys' = Keys /\ \A s : Loose(s)' <=> Loose(s)
  BY DEF NameState, Keys, Loose
<1>2. CopyHand(req[d])' /\ SubnetHand(req[d])' /\ MakeHand(req[d])' /\ EndHand(req[d])'
  BY <1>1 DEF HandOf, CopyHand, SubnetHand, MakeHand, EndHand, NameState, AllLoose
<1>3. CreateHand(req[d])'
  BY <1>1 DEF HandOf, CreateHand, NameState, AllLoose
<1> QED
  BY <1>2, <1>3 DEF HandOf

LEMMA FreshName ==
    ASSUME NEW uid \in Fresh
    PROVE  /\ uid \in Uids /\ uid \notin vpcs
           /\ \A p \in parts : p.name \notin Named(uid, Subnets)
           /\ \A s \in Keys : subnets[s].name \notin Named(uid, Subnets)
BY DEF Fresh, UsedNames, Recorded

Quiet == SpiderSound /\ Tied /\ RestType /\ Hands

LEMMA StartHand ==
    ASSUME NEW c \in Clients, Quiet, StartStep(c), UNCHANGED NameState
    PROVE  HandOf(c)' /\ Unsaved(req'[c]) = {}
<1> USE DEF WithCopy, Making, SubnetSteps, WithRecord
<1>0. Keys' = Keys /\ (\A s : Loose(s)' <=> Loose(s)) /\ req \in [Clients -> Requests]
  BY DEF NameState, Keys, Loose, Quiet, Hands
<1>1. \A q : Start(c, q) => req'[c] = q
  BY <1>0 DEF Start
<1>2. ASSUME CheckVNet(c) PROVE HandOf(c)' /\ Unsaved(req'[c]) = {}
  <2>1. PICK uid \in Fresh, list \in SUBSET Subnets, kind \in {"CreateVNet", "RegisterVNet"} :
           Start(c, [Idle EXCEPT !.pc = "putVNet", !.kind = kind, !.uid = uid,
                !.v = [status |-> "Configuring", name |-> NoName, list |-> list, vms |-> {}]])
    BY <1>2 DEF CheckVNet
  <2>2. req'[c].pc = "putVNet" /\ req'[c].uid = uid /\ req'[c].v.name = NoName /\ req'[c].kind = kind
    <3> DEFINE v == [status |-> "Configuring", name |-> NoName, list |-> list, vms |-> {}]
               q == [Idle EXCEPT !.pc = "putVNet", !.kind = kind, !.uid = uid, !.v = v]
    <3>1. q.pc = "putVNet" /\ q.uid = uid /\ q.v = v /\ q.kind = kind
      BY DEF Idle
    <3>2. req'[c] = q
      BY <1>1, <2>1
    <3> HIDE DEF q
    <3> QED
      BY <3>1, <3>2
  <2>3. vnet' = None /\ AllLoose'
    BY <1>0, <1>2 DEF CheckVNet, NameState, Quiet, Tied, AllLoose
  <2>4. CreateHand(req[c])'
    BY <1>0, <2>2, <2>3, FreshName DEF CreateHand, NameState
  <2>5. CopyHand(req[c])' /\ SubnetHand(req[c])' /\ MakeHand(req[c])' /\ EndHand(req[c])'
    BY <2>2 DEF CopyHand, SubnetHand, MakeHand, EndHand
  <2> QED
    BY <2>2, <2>4, <2>5, UnsavedIs DEF HandOf
<1>3. ASSUME CheckSubnet(c) PROVE HandOf(c)' /\ Unsaved(req'[c]) = {}
  <2>1. PICK s \in Subnets \ Keys, uid \in Fresh :
           Start(c, [Idle EXCEPT !.pc = "putSubnet", !.kind = "CreateSubnet", !.on = s,
                !.uid = uid, !.v = vnet,
                !.sub = [id |-> s, status |-> "Configuring", name |-> NoName, vpc |-> vnet.name]])
    BY <1>3 DEF CheckSubnet
  <2>2. /\ req'[c].pc = "putSubnet" /\ req'[c].uid = uid /\ req'[c].v = vnet /\ req'[c].on = s
        /\ req'[c].sub.name = NoName /\ req'[c].sub.vpc = vnet.name /\ req'[c].kind = "CreateSubnet"
    <3> DEFINE sub == [id |-> s, status |-> "Configuring", name |-> NoName, vpc |-> vnet.name]
               q == [Idle EXCEPT !.pc = "putSubnet", !.kind = "CreateSubnet", !.on = s, !.uid = uid,
                                 !.v = vnet, !.sub = sub]
    <3>1. /\ q.pc = "putSubnet" /\ q.uid = uid /\ q.v = vnet /\ q.on = s
          /\ q.sub = sub /\ q.kind = "CreateSubnet"
      BY DEF Idle
    <3>2. req'[c] = q
      BY <1>1, <2>1
    <3> HIDE DEF q
    <3> QED
      BY <3>1, <3>2
  <2>3. vnet' = vnet /\ vnet # None /\ subnets'[s] = None /\ parts' = parts
    BY <1>3, <2>1 DEF CheckSubnet, NameState, Keys
  <2>4. \A p \in parts : p.name # <<s, uid>>
    BY <2>1, FreshName DEF Named
  <2>5. CopyHand(req[c])' /\ MakeHand(req[c])'
    BY <2>2, <2>3, <2>4 DEF CopyHand, MakeHand
  <2>6. SubnetHand(req[c])' /\ CreateHand(req[c])' /\ EndHand(req[c])'
    BY <2>2 DEF CreateHand, SubnetHand, EndHand
  <2> QED
    BY <2>2, <2>5, <2>6, UnsavedIs DEF HandOf
<1>4. ASSUME NEW q \in {"nextSubnet", "getVNet", "putVms"}, req'[c].pc = q,
             q = "nextSubnet" /\ req'[c].kind = "DeleteVNet" => req'[c].todo = Keys,
             q \in {"getVNet", "putVms"} => vnet # None /\ req'[c].v.name = vnet.name
      PROVE  HandOf(c)' /\ Unsaved(req'[c]) = {}
  <2>1. CopyHand(req[c])' /\ SubnetHand(req[c])' /\ MakeHand(req[c])' /\ CreateHand(req[c])' /\ EndHand(req[c])'
    BY <1>0, <1>4 DEF CopyHand, SubnetHand, MakeHand, CreateHand, EndHand, NameState
  <2> QED
    BY <1>4, <2>1, UnsavedIs DEF HandOf
<1>5. ASSUME AskDeleteVNet(c) PROVE HandOf(c)' /\ Unsaved(req'[c]) = {}
  <2>1. PICK force \in BOOLEAN :
           Start(c, [Idle EXCEPT !.pc = "nextSubnet", !.kind = "DeleteVNet", !.force = force, !.todo = Keys])
    BY <1>5 DEF AskDeleteVNet
  <2>2. req'[c].pc = "nextSubnet" /\ req'[c].todo = Keys
    BY <1>1, <2>1 DEF Idle
  <2> QED
    BY <1>4, <2>2
<1>6. ASSUME AskSubnet(c) PROVE HandOf(c)' /\ Unsaved(req'[c]) = {}
  <2>1. PICK s \in Subnets, kind \in {"DeleteSubnet", "RefineSubnet"} :
           Start(c, [Idle EXCEPT !.pc = "nextSubnet", !.kind = kind, !.on = s, !.todo = {s}])
    BY <1>6 DEF AskSubnet
  <2>2. req'[c].pc = "nextSubnet" /\ req'[c].kind = kind
    BY <1>1, <2>1 DEF Idle
  <2> QED
    BY <1>4, <2>2
<1>7. ASSUME AskRefineVNet(c) PROVE HandOf(c)' /\ Unsaved(req'[c]) = {}
  <2>1. req'[c].pc = "getVNet" /\ req'[c].v = vnet /\ vnet # None
    BY <1>1, <1>7 DEF Idle, AskRefineVNet
  <2> QED
    BY <1>4, <2>1
<1>8. ASSUME ReadForVm(c) PROVE HandOf(c)' /\ Unsaved(req'[c]) = {}
  <2>1. PICK m \in Vms, v \in VNetRecord :
           /\ v.name = vnet.name
           /\ Start(c, [Idle EXCEPT !.pc = "putVms", !.kind = "Associate", !.on = m, !.v = v])
    BY <1>8, EntersVm DEF Quiet
  <2>2. req'[c].pc = "putVms" /\ req'[c].v = v /\ vnet # None
    BY <1>1, <1>8, <2>1 DEF Idle, ReadForVm
  <2> QED
    BY <1>4, <2>1, <2>2
<1> QED
  BY <1>2, <1>3, <1>5, <1>6, <1>7, <1>8 DEF StartStep

LEMMA OneStarts ==
    ASSUME NEW c \in Clients, Hands, StartStep(c)
    PROVE  (\E q : Start(c, q)) /\ UNCHANGED NameState /\ Stays(c) /\ req[c] = Idle
<1>1. \A q : Start(c, q) => UNCHANGED NameState /\ Stays(c) /\ req[c] = Idle
  BY DEF Start, NameState, Stays, spider, Hands
<1>2. \E q : Start(c, q)
  BY DEF StartStep, CheckVNet, CheckSubnet, AskDeleteVNet, AskSubnet, AskRefineVNet, ReadForVm
<1> QED
  BY <1>1, <1>2

LEMMA NamesStart ==
    ASSUME ~MayClash, NamesInv, RestType', Hands', NEW c \in Clients, StartStep(c)
    PROVE  NamesInv'
<1>1. (\E q : Start(c, q)) /\ UNCHANGED NameState /\ Stays(c) /\ req[c] = Idle
  BY OneStarts DEF NamesInv
<1>2. AsOne'
  BY <1>1, AsOneKept DEF NamesInv
<1>3. HandOf(c)'
  BY <1>1, StartHand DEF NamesInv, Quiet
<1>4. \A d \in Clients \ {c} : HandOf(d)'
  BY <1>1, HandsKept DEF NamesInv, Stays
<1>5. SameNames
  BY <1>1, NothingChanges
<1>6. Unsaved(req[c]) = {}
  BY <1>1, UnsavedIs DEF Idle
<1>7. SpiderSound' /\ Tied' /\ Found'
  BY <1>1, <1>5, <1>6, SameSound, SameFound DEF NamesInv
<1> QED
  BY <1>2, <1>3, <1>4, <1>7 DEF NamesInv

LEMMA NamesCrash ==
    ASSUME NamesInv, RestType', Hands', Crash
    PROVE  NamesInv'
<1>1. \A c \in Clients : req'[c] = Idle /\ Unsaved(req[c]) \subseteq lost'
  BY DEF Crash
<1>2. SameNames
  BY DEF Crash, SameNames, spider, Keys
<1>3. SpiderSound' /\ Tied'
  BY <1>2, SameSound DEF NamesInv
<1>4. Found'
  <2>1. \A x \in vpcs' : x \in lost' \/ (vnet' # None /\ vnet'.name = x)
    BY <1>1, <1>2 DEF NamesInv, Found, SameNames
  <2>2. \A p \in parts' : p.name \in lost' \/ \E s \in Keys' : subnets'[s].name = p.name
    BY <1>1, <1>2 DEF NamesInv, Found, SameNames
  <2> QED
    BY <2>1, <2>2 DEF Found
<1>5. AsOne'
  BY <1>1 DEF AsOne
<1>6. \A c \in Clients : HandOf(c)'
  BY <1>1, IdleHand
<1> QED
  BY <1>3, <1>4, <1>5, <1>6 DEF NamesInv

LEMMA NamesGoOn ==
    ASSUME ~MayClash, NamesInv, RestType', Hands', NEW c \in Clients,
           CreateStep(c) \/ MakeStep(c) \/ SubnetStep(c) \/ EndStep(c)
    PROVE  NamesInv'
<1>1. GoesOn(c)
  BY Proceeds DEF NamesInv
<1>2. Before(c)
  BY DEF NamesInv, Before
<1>3. Sound(c)
  BY <1>1, <1>2, CreateSound, MakeSound, SubnetSound, EndSound
<1>4. AsOne'
  BY <1>1, AsOneKept DEF NamesInv
<1>5. ASSUME NEW d \in Clients \ {c} PROVE HandOf(d)'
  <2>1. req'[d] = req[d] /\ req[c] # Idle
    BY <1>1 DEF GoesOn, Stays
  <2>2. CASE req[d] = Idle
    BY <2>1, <2>2, IdleHand
  <2>3. CASE req[d] # Idle
    <3>1. req[c].kind \notin WholeKinds /\ req[d].kind \notin WholeKinds /\ req[d].on # req[c].on
      BY <2>1, <2>3 DEF NamesInv, AsOne, Clash
    <3>2. StepAt(req[c].on)
      BY <1>3, <3>1 DEF Sound, Narrow
    <3> QED
      BY <2>1, <3>1, <3>2, HandsApart DEF NamesInv
  <2> QED
    BY <2>2, <2>3
<1> QED
  BY <1>3, <1>4, <1>5 DEF NamesInv, Sound

LEMMA NamesNext == ~MayClash /\ NamesInv /\ [Next]_vars => NamesInv'
<1> SUFFICES ASSUME ~MayClash, NamesInv, [Next]_vars PROVE NamesInv'
  OBVIOUS
<1>1. RestType' /\ Hands'
  BY StepTypes DEF NamesInv
<1>2. CASE UNCHANGED vars
  <2>1. UNCHANGED NameState /\ req' = req
    BY <1>2 DEF vars, spider, history, NameState
  <2>2. AsOne'
    BY <2>1 DEF NamesInv, AsOne
  <2>3. \A c \in Clients : HandOf(c)'
    BY <2>1, HandsKept DEF NamesInv
  <2>4. SpiderSound' /\ Tied' /\ Found'
    BY <2>1 DEF NamesInv, NameState, SpiderSound, Tied, Found, Loose, Keys, NamesOf
  <2> QED
    BY <1>1, <2>2, <2>3, <2>4 DEF NamesInv
<1>3. CASE Next
  BY <1>1, <1>3, AnyStep, NamesStart, NamesCrash, NamesGoOn
<1> QED
  BY <1>2, <1>3

LEMMA NamesInit == Init => NamesInv
<1> SUFFICES ASSUME Init PROVE NamesInv
  OBVIOUS
<1>1. RestType /\ Hands
  BY InitTypes
<1>2. Keys = {} /\ vpcs = {} /\ parts = {} /\ \A c \in Clients : req[c] = Idle
  BY DEF Init, Keys
<1>3. SpiderSound /\ Tied /\ Found /\ AsOne
  BY <1>2 DEF SpiderSound, Tied, Found, AsOne
<1>4. \A c \in Clients : HandOf(c)
  <2> TAKE c \in Clients
  <2>1. req[c].pc = "idle" /\ req[c].kind = "none"
    BY <1>2 DEF Idle
  <2>2. CopyHand(req[c]) /\ SubnetHand(req[c]) /\ MakeHand(req[c])
    BY <2>1 DEF CopyHand, SubnetHand, MakeHand, WithCopy, Making, SubnetSteps, WithRecord
  <2>3. CreateHand(req[c]) /\ EndHand(req[c])
    BY <2>1 DEF CreateHand, EndHand, WithRecord
  <2> QED
    BY <2>2, <2>3 DEF HandOf
<1> QED
  BY <1>1, <1>3, <1>4 DEF NamesInv

LEMMA FoundIsKept == Found => NothingLost
BY DEF Found, NothingLost, Recorded

\* What is found by its record, or by a request about to record it, is never
\* forgotten, whatever the requests that do not clash put back into the vNet's
\* record, and however a deletion fails in the middle (vnet.go:676, subnet.go:363).
THEOREM NamesKept == Spec => []NothingLost
<1>1. CASE MayClash
  <2>1. NothingLost
    BY <1>1 DEF NothingLost
  <2> QED
    BY <2>1, PTL
<1>2. CASE ~MayClash
  <2>1. NamesInv /\ [Next]_vars => NamesInv'
    BY <1>2, NamesNext
  <2>2. NamesInv => NothingLost
    BY FoundIsKept DEF NamesInv
  <2> QED
    BY <2>1, <2>2, NamesInit, PTL DEF Spec
<1> QED
  BY <1>1, <1>2

-----------------------------------------------------------------------------
(* What is shown as usable. *)

LEMMA IdleUse ==
    ASSUME NEW c \in Clients, req'[c] = Idle
    PROVE  UseHand(req[c])'
<1>1. req'[c].pc = "idle"
  BY DEF Idle
<1> QED
  BY <1>1 DEF UseHand, WithCopy, Making, SubnetSteps, WithRecord

RecordThere(rec) == rec.status = "Available" => InSpider(rec) # {}
VNetThere(v)     == v # None /\ v.status = "InUse" => v.name \in vpcs

\* Spider removes nothing, and what is written is there.
LEMMA ThereGrows ==
    ASSUME ThereNow, vpcs \subseteq vpcs', parts \subseteq parts',
           \A s \in Keys' : (s \in Keys /\ subnets'[s] = subnets[s]) \/ RecordThere(subnets[s])',
           vnet' \in {None, vnet} \/ VNetThere(vnet)'
    PROVE  ThereNow'
<1>1. \A s \in Keys : subnets[s].status = "Available" => \E p \in parts : p.vpc = subnets[s].vpc /\ p.name = subnets[s].name
  BY DEF ThereNow, InSpider
<1>2. \A s \in Keys' : subnets'[s].status = "Available" => InSpider(subnets[s])' # {}
  <2> TAKE s \in Keys'
  <2>1. CASE RecordThere(subnets[s])'
    BY <2>1 DEF RecordThere
  <2>2. CASE s \in Keys /\ subnets'[s] = subnets[s]
    <3> HAVE subnets'[s].status = "Available"
    <3>1. PICK p \in parts : p.vpc = subnets'[s].vpc /\ p.name = subnets'[s].name
      BY <1>1, <2>2
    <3> QED
      BY <3>1 DEF InSpider
  <2> QED
    BY <2>1, <2>2
<1>3. vnet' # None /\ vnet'.status = "InUse" => vnet'.name \in vpcs'
  BY DEF ThereNow, VNetThere
<1> QED
  BY <1>2, <1>3 DEF ThereNow

\* A request that goes on with the copy it has.
LEMMA SameCopy ==
    ASSUME NEW c \in Clients, UseHand(req[c]), vpcs \subseteq vpcs', req[c].pc \in WithCopy,
           req'[c].v = req[c].v, req'[c].pc # "deletePart", req'[c].pc \in SubnetSteps \cup {"cleanSubnet", "postSubnet"}
    PROVE  UseHand(req[c])'
BY DEF UseHand, WithCopy, Making, SubnetSteps, WithRecord

LEMMA NoUse ==
    ASSUME NEW c \in Clients, req'[c].pc \notin WithCopy \cup {"putVNet", "saveVNet", "saveSubnets"}
    PROVE  UseHand(req[c])'
BY DEF UseHand, WithCopy, Making, SubnetSteps, WithRecord

UseBefore(c) == Before(c) /\ ThereNow /\ UseHand(req[c])

LEMMA UseMake ==
    ASSUME NEW c \in Clients, UseBefore(c), MakeStep(c)
    PROVE  ThereNow' /\ UseHand(req[c])'
<1> DEFINE r == req[c]
<1>0. r \in Requests /\ req \in [Clients -> Requests] /\ RestType /\ ThereNow /\ UseHand(r)
  BY DEF UseBefore, Before, Hands
<1>1. Return(c) => UseHand(req[c])'
  BY <1>0, IdleUse DEF Return
<1>2. \A label : GoTo(c, label) => req'[c].pc = label /\ req'[c].v = r.v /\ req'[c].sub = r.sub
  BY <1>0 DEF GoTo, Requests
<1>3. ASSUME PutSubnet(c) PROVE ThereNow' /\ UseHand(req[c])'
  <2>1. /\ r.pc = "putSubnet" /\ r.pc \in WithCopy /\ r.sub.status = "Configuring"
        /\ UNCHANGED <<vnet, vpcs, parts>>
    BY <1>0, <1>3 DEF PutSubnet, WithCopy, Making, UseHand, spider
  <2>2. UseHand(req[c])'
    BY <1>0, <1>1, <1>2, <1>3, <2>1, SameCopy DEF PutSubnet, SubnetSteps, WithRecord
  <2>3. \A s \in Keys' : (s \in Keys /\ subnets'[s] = subnets[s]) \/ subnets'[s].status # "Available"
    BY <1>0, <1>3, <2>1 DEF PutSubnet, Keys, RestType
  <2> QED
    BY <1>0, <2>1, <2>2, <2>3, ThereGrows DEF RecordThere
<1>4. ASSUME PostSubnet(c) PROVE ThereNow' /\ UseHand(req[c])'
  <2>1. /\ r.pc = "postSubnet" /\ r.pc \in WithCopy /\ r.sub \in SubnetRecord /\ r.sub.vpc = r.v.name
        /\ UNCHANGED <<vnet, subnets, vpcs>> /\ parts \subseteq parts' /\ Keys' = Keys
    BY <1>4 DEF PostSubnet, WithCopy, Making, UseBefore, Before, Hands, Shape, HandOf, MakeHand, Keys
  <2>2. ThereNow'
    BY <1>0, <2>1, ThereGrows
  <2>3. GoTo(c, "cleanSubnet") => UseHand(req[c])'
    BY <1>0, <1>2, <2>1, SameCopy
  <2>4. ASSUME r.sub.vpc \in vpcs, parts' = parts \cup {[vpc |-> r.sub.vpc, name |-> <<r.on, r.uid>>]},
               req' = [req EXCEPT ![c].sub = [@ EXCEPT !.status = "Available", !.name = <<r.on, r.uid>>],
                                  ![c].pc = "saveSubnet"]
        PROVE  UseHand(req[c])'
    <3> DEFINE sub == [r.sub EXCEPT !.status = "Available", !.name = <<r.on, r.uid>>]
               new == [vpc |-> r.sub.vpc, name |-> <<r.on, r.uid>>]
    <3>1. sub.name = <<r.on, r.uid>> /\ sub.vpc = r.sub.vpc
      BY <2>1 DEF SubnetRecord
    <3>2. req'[c] = [r EXCEPT !.sub = sub, !.pc = "saveSubnet"]
      BY <1>0, <2>4
    <3>3. new \in parts' /\ new.vpc = r.sub.vpc /\ new.name = <<r.on, r.uid>>
      BY <2>4
    <3> HIDE DEF sub, new
    <3>4. req'[c].pc = "saveSubnet" /\ req'[c].sub = sub /\ req'[c].v = r.v
      BY <1>0, <3>2 DEF Requests
    <3>5. InSpider(req[c].sub)' # {}
      BY <3>1, <3>3, <3>4 DEF InSpider
    <3> QED
      <4>1. req'[c].v.name \in vpcs'
        BY <2>1, <2>4, <3>4
      <4> QED
        BY <3>4, <3>5, <4>1 DEF UseHand
  <2> QED
    BY <1>4, <2>2, <2>3, <2>4 DEF PostSubnet
<1>5. ASSUME CleanSubnet(c) PROVE ThereNow' /\ UseHand(req[c])'
  <2>1. UNCHANGED <<vnet, vpcs, parts>>
    BY <1>5 DEF CleanSubnet, spider
  <2>2. \A s \in Keys' : s \in Keys /\ subnets'[s] = subnets[s]
    BY <1>0, <1>5 DEF CleanSubnet, Keys, RestType
  <2>3. ThereNow'
    BY <1>0, <2>1, <2>2, ThereGrows
  <2> QED
    BY <1>1, <1>5, <2>3 DEF CleanSubnet
<1>6. ASSUME SaveSubnet(c) PROVE ThereNow' /\ UseHand(req[c])'
  <2>1. /\ r.pc = "saveSubnet" /\ InSpider(r.sub) # {} /\ r.v.name \in vpcs
        /\ UNCHANGED <<vnet, vpcs, parts>>
    BY <1>0, <1>6 DEF SaveSubnet, UseHand, spider
  <2>2. UseHand(req[c])'
    <3>1. ASSUME GoTo(c, "addToVNet") PROVE UseHand(req[c])'
      BY <1>2, <2>1, <3>1 DEF UseHand
    <3> QED
      BY <1>1, <1>6, <3>1 DEF SaveSubnet
  <2>3. \A s \in Keys' : (s \in Keys /\ subnets'[s] = subnets[s]) \/ subnets'[s] = r.sub
    BY <1>0, <1>6 DEF SaveSubnet, Keys, RestType
  <2>4. \A rec : rec = r.sub => InSpider(rec)' = InSpider(rec) /\ InSpider(rec) # {}
    BY <2>1 DEF InSpider
  <2>5. \A s \in Keys' : (s \in Keys /\ subnets'[s] = subnets[s]) \/ RecordThere(subnets[s])'
    BY <2>1, <2>3 DEF RecordThere, InSpider
  <2> QED
    BY <1>0, <2>1, <2>2, <2>5, ThereGrows
<1>7. ASSUME AddToVNet(c) PROVE ThereNow' /\ UseHand(req[c])'
  <2>1. r.pc = "addToVNet" /\ r.v \in VNetRecord /\ r.v.name \in vpcs
    BY <1>0, <1>7 DEF AddToVNet, UseHand, UseBefore, Before, Hands, Shape, Making, WithCopy
  <2>2. [r.v EXCEPT !.list = @ \cup {r.on}, !.status = "InUse"].name = r.v.name
    BY <2>1 DEF VNetRecord
  <2>3. UNCHANGED <<subnets, vpcs, parts>> /\ Keys' = Keys /\ (vnet' = vnet \/ vnet'.name \in vpcs')
    BY <1>7, <2>1, <2>2 DEF AddToVNet, spider, Keys
  <2> QED
    BY <1>0, <1>1, <1>7, <2>3, ThereGrows DEF VNetThere, AddToVNet
<1>8. ASSUME PutVms(c) PROVE ThereNow' /\ UseHand(req[c])'
  <2>1. r.pc \in WithCopy /\ UNCHANGED <<subnets, vpcs, parts>> /\ Keys' = Keys /\ vnet' \in {vnet, r.v}
    BY <1>8 DEF PutVms, spider, Keys, WithCopy
  <2>2. VNetThere(r.v)
    BY <1>0, <2>1 DEF UseHand, VNetThere
  <2>3. vnet' = vnet \/ VNetThere(vnet)'
    BY <2>1, <2>2 DEF VNetThere
  <2> QED
    BY <1>0, <1>1, <1>8, <2>1, <2>3, ThereGrows DEF PutVms
<1> QED
  BY <1>3, <1>4, <1>5, <1>6, <1>7, <1>8 DEF MakeStep

LEMMA UseSubnet ==
    ASSUME NEW c \in Clients, UseBefore(c), SubnetStep(c)
    PROVE  ThereNow' /\ UseHand(req[c])'
<1> DEFINE r == req[c]
<1> USE DEF SubnetSteps, WithRecord, WithCopy
<1>0. r \in Requests /\ req \in [Clients -> Requests] /\ RestType /\ ThereNow /\ UseHand(r)
  BY DEF UseBefore, Before, Hands
<1>1. Return(c) => UseHand(req[c])'
  BY <1>0, IdleUse DEF Return
<1>2. \A label : GoTo(c, label) => req'[c].pc = label /\ req'[c].v = r.v /\ req'[c].sub = r.sub
  BY <1>0 DEF GoTo, Requests
<1>3. SubnetDone(c) \/ SubnetFails(c) => UseHand(req[c])'
  <2>1. ASSUME req' = [req EXCEPT ![c].pc = "nextSubnet", ![c].todo = @ \ {r.sub.id}] PROVE UseHand(req[c])'
    <3>1. req'[c].pc = "nextSubnet"
      BY <1>0, <2>1 DEF Requests
    <3> QED
      BY <3>1, NoUse DEF Making
  <2> QED
    BY <1>1, <2>1 DEF SubnetDone, SubnetFails
<1>4. ASSUME ReadSubnet(c) \/ NoMoreSubnets(c) PROVE ThereNow' /\ UseHand(req[c])'
  <2>1. UNCHANGED <<vnet, subnets, vpcs, parts>> /\ Keys' = Keys /\ r.pc = "nextSubnet"
    BY <1>4 DEF ReadSubnet, NoMoreSubnets, spider, history, Keys
  <2>2. ThereNow'
    BY <1>0, <2>1, ThereGrows
  <2>3. ASSUME NEW label \in {"getSubnet", "markSubnet"}, NEW sub,
               req' = [req EXCEPT ![c].v = vnet, ![c].sub = sub, ![c].pc = label], vnet # None
        PROVE  UseHand(req[c])'
    <3>1. req'[c].pc = label /\ req'[c].v = vnet
      BY <1>0, <2>3 DEF Requests
    <3>2. req'[c].v.status = "InUse" => req'[c].v.name \in vpcs'
      BY <1>0, <2>1, <2>3, <3>1 DEF ThereNow
    <3> QED
      BY <3>1, <3>2 DEF UseHand
  <2>4. ASSUME NEW s, req' = [req EXCEPT ![c].todo = @ \ {s}] PROVE UseHand(req[c])'
    <3>1. req'[c].pc = "nextSubnet"
      BY <1>0, <2>1, <2>4 DEF Requests
    <3> QED
      BY <3>1, NoUse DEF Making
  <2>5. GoTo(c, "readVNet") => UseHand(req[c])'
    BY <1>2, NoUse DEF Making
  <2> QED
    BY <1>1, <1>4, <2>2, <2>3, <2>4, <2>5 DEF ReadSubnet, NoMoreSubnets
<1>5. ASSUME MarkSubnet(c) PROVE ThereNow' /\ UseHand(req[c])'
  <2>1. r.pc = "markSubnet" /\ r.sub \in SubnetRecord /\ r.sub.id \in Subnets /\ UNCHANGED <<vnet, vpcs, parts>>
    BY <1>5, AtSubnet DEF MarkSubnet, UseBefore, spider
  <2>2. Marked(r.sub).status = "Deleting" /\ Marked(r.sub).id = r.sub.id
    BY <2>1 DEF Marked, SubnetRecord
  <2>3. subnets' = subnets \/ (subnets' = [subnets EXCEPT ![r.sub.id] = Marked(r.sub)])
    BY <1>5, <2>2 DEF MarkSubnet
  <2>4. \A s \in Keys' : (s \in Keys /\ subnets'[s] = subnets[s]) \/ subnets'[s].status # "Available"
    BY <1>0, <2>1, <2>2, <2>3 DEF Keys, RestType
  <2>5. ThereNow'
    BY <1>0, <2>1, <2>4, ThereGrows DEF RecordThere
  <2>6. ASSUME GoTo(c, "deletePart"), subnets' = [subnets EXCEPT ![r.sub.id] = Marked(r.sub)]
        PROVE  UseHand(req[c])'
    <3>1. subnets'[r.sub.id].status = "Deleting"
      BY <1>0, <2>1, <2>2, <2>6 DEF RestType
    <3>2. r.v.status = "InUse" => r.v.name \in vpcs'
      BY <1>0, <2>1 DEF UseHand
    <3> QED
      BY <1>2, <2>6, <3>1, <3>2 DEF UseHand
  <2> QED
    BY <1>1, <1>5, <2>2, <2>5, <2>6 DEF MarkSubnet
<1>6. ASSUME DeletePart(c) PROVE ThereNow' /\ UseHand(req[c])'
  <2> DEFINE id == r.sub.id
             found == InSpider(r.sub)
  <2>1. /\ r.pc = "deletePart" /\ id \in Keys /\ UNCHANGED <<vnet, subnets, vpcs>> /\ Keys' = Keys
        /\ parts' \in {parts, parts \ found} /\ r.sub.name \in NamesOf(id)
        /\ subnets[id].status = "Deleting"
    BY <1>0, <1>6, AtSubnet DEF DeletePart, Keys, UseBefore, UseHand
  <2>2. \A t \in Keys : subnets[t].status = "Available" => InSpider(subnets[t])' # {}
    <3> TAKE t \in Keys
    <3> HAVE subnets[t].status = "Available"
    <3>1. PICK p \in parts : p.vpc = subnets[t].vpc /\ p.name = subnets[t].name
      BY <1>0 DEF ThereNow, InSpider
    <3>2. t # id /\ p.name \in NamesOf(t) /\ p.name # NoName
      BY <2>1, <3>1, PartsHaveNames DEF UseBefore, Before, SpiderSound
    <3>3. p.name # r.sub.name
      BY <2>1, <3>2 DEF NamesOf
    <3>4. p \in parts'
      BY <2>1, <3>3 DEF InSpider
    <3> QED
      BY <2>1, <3>1, <3>4 DEF InSpider
  <2>3. ThereNow'
    BY <1>0, <2>1, <2>2 DEF ThereNow
  <2>4. UseHand(req[c])'
    BY <1>0, <1>1, <1>2, <1>6, <2>1, SameCopy DEF DeletePart, NotDeleted
  <2> QED
    BY <2>3, <2>4
<1>7. ASSUME GetSubnet(c) PROVE ThereNow' /\ UseHand(req[c])'
  <2>1. UNCHANGED <<vnet, subnets, vpcs, parts>> /\ Keys' = Keys /\ r.pc = "getSubnet"
    BY <1>7 DEF GetSubnet, spider, Keys
  <2>2. GoTo(c, "dropSubnet") => UseHand(req[c])'
    BY <1>0, <1>2, <2>1, SameCopy
  <2> QED
    BY <1>0, <1>3, <1>7, <2>1, <2>2, ThereGrows DEF GetSubnet
<1>8. ASSUME DropSubnet(c) PROVE ThereNow' /\ UseHand(req[c])'
  <2>1. UNCHANGED <<vnet, vpcs, parts>> /\ r.pc = "dropSubnet"
    BY <1>8 DEF DropSubnet, spider
  <2>2. \A s \in Keys' : s \in Keys /\ subnets'[s] = subnets[s]
    BY <1>0, <1>8 DEF DropSubnet, Keys, RestType
  <2>3. GoTo(c, "removeFromVNet") => UseHand(req[c])'
    BY <1>0, <1>2, <2>1, SameCopy
  <2> QED
    BY <1>0, <1>1, <1>8, <2>1, <2>2, <2>3, ThereGrows DEF DropSubnet
<1>9. ASSUME RemoveFromVNet(c) PROVE ThereNow' /\ UseHand(req[c])'
  <2>1. /\ UNCHANGED <<subnets, vpcs, parts>> /\ Keys' = Keys /\ r.pc = "removeFromVNet"
        /\ r.v \in VNetRecord /\ (r.v.status = "InUse" => r.v.name \in vpcs)
    BY <1>0, <1>9, AtSubnet DEF RemoveFromVNet, spider, Keys, UseHand, UseBefore
  <2>2. \A list : LET v == [r.v EXCEPT !.list = list, !.status = IF list = {} THEN "Available" ELSE @]
                  IN  v.name = r.v.name /\ v.status \in {"Available", r.v.status}
    BY <2>1 DEF VNetRecord
  <2>3. vnet' = vnet \/ (vnet'.name = r.v.name /\ vnet'.status \in {"Available", r.v.status})
    BY <1>9, <2>2 DEF RemoveFromVNet
  <2>4. ThereNow'
    BY <1>0, <2>1, <2>3, ThereGrows DEF VNetThere
  <2> QED
    BY <1>1, <1>3, <1>9, <2>4 DEF RemoveFromVNet
<1> QED
  BY <1>4, <1>5, <1>6, <1>7, <1>8, <1>9 DEF SubnetStep

LEMMA UseEnd ==
    ASSUME NEW c \in Clients, UseBefore(c), EndStep(c)
    PROVE  ThereNow' /\ UseHand(req[c])'
<1> DEFINE r == req[c]
<1> USE DEF SubnetSteps, WithRecord, WithCopy
<1>0. r \in Requests /\ req \in [Clients -> Requests] /\ RestType /\ ThereNow /\ UseHand(r)
  BY DEF UseBefore, Before, Hands
<1>1. Return(c) => UseHand(req[c])'
  BY <1>0, IdleUse DEF Return
<1>2. \A label : GoTo(c, label) => req'[c].pc = label /\ req'[c].v = r.v /\ req'[c].sub = r.sub
  BY <1>0 DEF GoTo, Requests
<1>3. ASSUME ReadVNet(c) PROVE ThereNow' /\ UseHand(req[c])'
  <2>1. UNCHANGED <<vnet, subnets, vpcs, parts>> /\ Keys' = Keys
    BY <1>3 DEF ReadVNet, spider, Keys
  <2>2. ASSUME vnet # None, req' = [req EXCEPT ![c].v = vnet, ![c].sub = None, ![c].pc = "markVNet"]
        PROVE  UseHand(req[c])'
    <3>1. req'[c].pc = "markVNet" /\ req'[c].v = vnet
      BY <1>0, <2>2 DEF Requests
    <3>2. req'[c].v.status = "InUse" => req'[c].v.name \in vpcs'
      BY <1>0, <2>1, <2>2, <3>1 DEF ThereNow
    <3> QED
      BY <3>1, <3>2 DEF UseHand
  <2> QED
    BY <1>0, <1>1, <1>3, <2>1, <2>2, ThereGrows DEF ReadVNet
<1>4. ASSUME MarkVNet(c) PROVE ThereNow' /\ UseHand(req[c])'
  <2>1. UNCHANGED <<subnets, vpcs, parts>> /\ Keys' = Keys /\ r.pc = "markVNet" /\ r.v \in VNetRecord
    BY <1>4 DEF MarkVNet, spider, Keys, UseBefore, Before, Hands, Shape
  <2>2. [r.v EXCEPT !.status = "Deleting"].status = "Deleting"
    BY <2>1 DEF VNetRecord
  <2>3. vnet' = vnet \/ vnet'.status = "Deleting"
    BY <1>4, <2>2 DEF MarkVNet
  <2>4. ThereNow'
    BY <1>0, <2>1, <2>3, ThereGrows DEF VNetThere
  <2>5. ASSUME GoTo(c, "deleteVpc"), vnet' = [r.v EXCEPT !.status = "Deleting"] PROVE UseHand(req[c])'
    <3>1. vnet'.status = "Deleting" /\ (r.v.status = "InUse" => r.v.name \in vpcs')
      BY <1>0, <2>1, <2>2, <2>5 DEF UseHand
    <3> QED
      BY <1>2, <2>5, <3>1 DEF UseHand
  <2> QED
    BY <1>1, <1>4, <2>4, <2>5 DEF MarkVNet
<1>5. ASSUME DeleteVpc(c) PROVE ThereNow' /\ UseHand(req[c])'
  <2>1. r.pc = "deleteVpc" /\ vnet.status = "Deleting" /\ Keys' = {} /\ vnet' = vnet
    BY <1>0, <1>5 DEF DeleteVpc, UseHand, UseBefore, Before, Hands, Shape, HandOf, EndHand, Keys
  <2>2. ThereNow'
    BY <2>1 DEF ThereNow
  <2>3. GoTo(c, "dropVNet") => UseHand(req[c])'
    BY <1>2, NoUse DEF Making
  <2> QED
    BY <1>1, <1>5, <2>2, <2>3 DEF DeleteVpc
<1>6. ASSUME GetVNet(c) PROVE ThereNow' /\ UseHand(req[c])'
  <2>1. UNCHANGED <<vnet, subnets, vpcs, parts>> /\ Keys' = Keys
    BY <1>6 DEF GetVNet, spider, Keys
  <2>2. GoTo(c, "dropSubnets") => UseHand(req[c])'
    BY <1>2, NoUse DEF Making
  <2>3. ASSUME req' = [req EXCEPT ![c].pc = "nextSubnet", ![c].todo = Keys] PROVE UseHand(req[c])'
    <3>1. req'[c].pc = "nextSubnet"
      BY <1>0, <2>3 DEF Requests
    <3> QED
      BY <3>1, NoUse DEF Making
  <2> QED
    BY <1>0, <1>6, <2>1, <2>2, <2>3, ThereGrows DEF GetVNet
<1>7. ASSUME DropSubnets(c) \/ DropVNet(c) PROVE ThereNow' /\ UseHand(req[c])'
  <2>1. UNCHANGED <<vpcs, parts>> /\ vnet' \in {None, vnet}
    BY <1>7 DEF DropSubnets, DropVNet, spider
  <2>2. \A s \in Keys' : s \in Keys /\ subnets'[s] = subnets[s]
    <3>1. \A s \in Subnets : subnets'[s] \in {None, subnets[s]}
      BY <1>0, <1>7, DropsAll DEF DropVNet
    <3> QED
      BY <3>1 DEF Keys
  <2>3. GoTo(c, "dropVNet") => UseHand(req[c])'
    BY <1>2, NoUse DEF Making
  <2> QED
    BY <1>0, <1>1, <1>7, <2>1, <2>2, <2>3, ThereGrows DEF DropSubnets, DropVNet
<1> QED
  BY <1>3, <1>4, <1>5, <1>6, <1>7 DEF EndStep

LEMMA UseCreate ==
    ASSUME NEW c \in Clients, UseBefore(c), CreateStep(c)
    PROVE  ThereNow' /\ UseHand(req[c])'
<1> DEFINE r == req[c]
<1> USE DEF SubnetSteps, WithRecord, WithCopy
<1>0. /\ r \in Requests /\ req \in [Clients -> Requests] /\ RestType /\ ThereNow /\ UseHand(r) /\ Shape(r)
      /\ CreateHand(r)
  BY DEF UseBefore, Before, Hands, HandOf
<1>1. Return(c) => UseHand(req[c])'
  BY <1>0, IdleUse DEF Return
<1>2. \A label : GoTo(c, label) =>
         req'[c].pc = label /\ req'[c].v = r.v /\ req'[c].uid = r.uid /\ req'[c].todo = r.todo
  BY <1>0 DEF GoTo, Requests
<1>3. ASSUME PutVNet(c) PROVE ThereNow' /\ UseHand(req[c])'
  <2>1. r.pc = "putVNet" /\ r.v.status = "Configuring" /\ UNCHANGED <<subnets, vpcs, parts>> /\ Keys' = Keys
    BY <1>0, <1>3 DEF PutVNet, UseHand, spider, Keys
  <2>2. vnet' = vnet \/ vnet'.status = "Configuring"
    BY <1>3, <2>1 DEF PutVNet
  <2>3. ThereNow'
    BY <1>0, <2>1, <2>2, ThereGrows DEF VNetThere
  <2>4. GoTo(c, "postVNet") => UseHand(req[c])'
    BY <1>2, NoUse DEF Making
  <2> QED
    BY <1>1, <1>3, <2>3, <2>4 DEF PutVNet
<1>4. ASSUME PostVNet(c) PROVE ThereNow' /\ UseHand(req[c])'
  <2>1. r.pc = "postVNet" /\ UNCHANGED <<vnet, subnets>> /\ Keys' = Keys
    BY <1>4 DEF PostVNet, Keys
  <2>2. vpcs \subseteq vpcs' /\ parts \subseteq parts'
    BY <1>4 DEF PostVNet, spider
  <2>3. ThereNow'
    BY <1>0, <2>1, <2>2, ThereGrows
  <2>4. GoTo(c, "cleanVNet") => UseHand(req[c])'
    BY <1>2, NoUse DEF Making
  <2>5. ASSUME NEW list,
               vpcs' = vpcs \cup {r.uid}, parts' = parts \cup [vpc : {r.uid}, name : Named(r.uid, list)],
               req' = [req EXCEPT ![c].v = [@ EXCEPT !.status = StatusOf(list), !.name = r.uid, !.list = list],
                                  ![c].todo = list,
                                  ![c].pc = IF r.kind = "CreateVNet" THEN "saveVNet" ELSE "saveSubnets"]
        PROVE  UseHand(req[c])'
    <3> DEFINE label == IF r.kind = "CreateVNet" THEN "saveVNet" ELSE "saveSubnets"
               v == [r.v EXCEPT !.status = StatusOf(list), !.name = r.uid, !.list = list]
    <3>1. label \in {"saveVNet", "saveSubnets"}
      OBVIOUS
    <3>2. req'[c] = [r EXCEPT !.v = v, !.todo = list, !.pc = label]
      BY <1>0, <2>5
    <3> HIDE DEF label, v
    <3>3. req'[c].pc = label /\ req'[c].uid = r.uid /\ req'[c].todo = list
      BY <1>0, <3>2 DEF Requests
    <3>4. \A s \in list : [vpc |-> r.uid, name |-> <<s, r.uid>>] \in parts'
      BY <2>5 DEF Named
    <3>5. req'[c].uid \in vpcs'
      BY <2>5, <3>3
    <3>6. \A s \in req'[c].todo : [vpc |-> req'[c].uid, name |-> <<s, req'[c].uid>>] \in parts'
      BY <3>3, <3>4
    <3>7. req'[c].pc \in {"saveVNet", "saveSubnets"}
      BY <3>1, <3>3
    <3> QED
      BY <3>5, <3>6, <3>7 DEF UseHand, Making
  <2> QED
    BY <1>4, <2>3, <2>4, <2>5 DEF PostVNet
<1>5. ASSUME CleanVNet(c) PROVE ThereNow' /\ UseHand(req[c])'
  <2>1. UNCHANGED <<vpcs, parts>> /\ vnet' \in {None, vnet}
    BY <1>5 DEF CleanVNet, spider
  <2>2. \A s \in Keys' : s \in Keys /\ subnets'[s] = subnets[s]
    BY <1>5 DEF CleanVNet, Keys
  <2> QED
    BY <1>0, <1>1, <1>5, <2>1, <2>2, ThereGrows DEF CleanVNet
<1>6. ASSUME SaveVNet(c) PROVE ThereNow' /\ UseHand(req[c])'
  <2>1. /\ r.pc = "saveVNet" /\ UNCHANGED <<subnets, vpcs, parts>> /\ Keys' = Keys
        /\ r.v.name = r.uid /\ r.uid \in vpcs /\ vnet' \in {vnet, r.v}
    BY <1>0, <1>6 DEF SaveVNet, UseHand, spider, Keys, CreateHand
  <2>2. vnet' = vnet \/ VNetThere(vnet)'
    BY <2>1 DEF VNetThere
  <2>3. ThereNow'
    BY <1>0, <2>1, <2>2, ThereGrows
  <2>4. GoTo(c, "saveSubnets") => UseHand(req[c])'
    BY <1>0, <1>2, <2>1 DEF UseHand, Making
  <2> QED
    BY <1>1, <1>6, <2>3, <2>4 DEF SaveVNet
<1>7. ASSUME SaveSubnets(c) PROVE ThereNow' /\ UseHand(req[c])'
  <2>1. /\ r.pc = "saveSubnets" /\ UNCHANGED <<vnet, vpcs, parts>> /\ r.uid \in vpcs
        /\ \A s \in r.todo : [vpc |-> r.uid, name |-> <<s, r.uid>>] \in parts
    BY <1>0, <1>7 DEF SaveSubnets, UseHand, spider
  <2>2. GoTo(c, "saveVNet") => UseHand(req[c])'
    BY <1>0, <1>2, <2>1 DEF UseHand, Making
  <2>3. ASSUME NEW s \in r.todo, req' = [req EXCEPT ![c].todo = @ \ {s}] PROVE UseHand(req[c])'
    <3>1. req'[c].pc = r.pc /\ req'[c].uid = r.uid /\ req'[c].todo \subseteq r.todo
      BY <1>0, <2>3 DEF Requests
    <3>2. \A t \in req'[c].todo : [vpc |-> req'[c].uid, name |-> <<t, req'[c].uid>>] \in parts'
      BY <2>1, <3>1
    <3>3. req'[c].pc = "saveSubnets" /\ req'[c].uid \in vpcs'
      BY <2>1, <3>1
    <3> QED
      BY <3>2, <3>3 DEF UseHand, Making
  <2>4. ASSUME NEW s \in r.todo,
               subnets' = [subnets EXCEPT ![s] = [id |-> s, status |-> "Available",
                                                  name |-> <<s, r.uid>>, vpc |-> r.uid]]
        PROVE  ThereNow'
    <3> DEFINE rec == [id |-> s, status |-> "Available", name |-> <<s, r.uid>>, vpc |-> r.uid]
               part == [vpc |-> r.uid, name |-> <<s, r.uid>>]
    <3>1. /\ rec.name = <<s, r.uid>> /\ rec.vpc = r.uid /\ part.name = <<s, r.uid>> /\ part.vpc = r.uid
          /\ part \in parts'
      BY <2>1
    <3>2. subnets' = [subnets EXCEPT ![s] = rec]
      BY <2>4
    <3> HIDE DEF rec, part
    <3>3. \A t \in Keys' : (t \in Keys /\ subnets'[t] = subnets[t]) \/ subnets'[t] = rec
      BY <1>0, <3>2 DEF Keys, RestType
    <3>4. \A t \in Keys' : (t \in Keys /\ subnets'[t] = subnets[t]) \/ RecordThere(subnets[t])'
      BY <3>1, <3>3 DEF RecordThere, InSpider
    <3> QED
      BY <1>0, <2>1, <3>4, ThereGrows
  <2>5. UNCHANGED subnets => ThereNow'
    BY <1>0, <2>1, ThereGrows DEF Keys
  <2> QED
    BY <1>1, <1>7, <2>2, <2>3, <2>4, <2>5 DEF SaveSubnets
<1> QED
  BY <1>3, <1>4, <1>5, <1>6, <1>7 DEF CreateStep

LEMMA UseStart ==
    ASSUME NEW c \in Clients, RestType, Hands, ThereNow, StartStep(c)
    PROVE  UseHand(req[c])'
<1> USE DEF WithCopy, Making, SubnetSteps, WithRecord
<1>0. \A q : Start(c, q) => req'[c] = q
  BY DEF Start, Hands
<1>1. UNCHANGED <<vnet, vpcs>>
  BY OneStarts DEF NameState
<1>2. ASSUME req'[c].pc = "nextSubnet" PROVE UseHand(req[c])'
  BY <1>2, NoUse
<1>3. ASSUME NEW label \in {"getVNet", "putVms"}, req'[c].pc = label, vnet # None,
             req'[c].v.name = vnet.name, req'[c].v.status = vnet.status
      PROVE  UseHand(req[c])'
  <2>1. req'[c].v.status = "InUse" => req'[c].v.name \in vpcs'
    BY <1>1, <1>3 DEF ThereNow
  <2> QED
    BY <1>3, <2>1 DEF UseHand
<1>4. ASSUME CheckVNet(c) PROVE UseHand(req[c])'
  <2>1. PICK uid \in Fresh, list \in SUBSET Subnets, kind \in {"CreateVNet", "RegisterVNet"} :
           Start(c, [Idle EXCEPT !.pc = "putVNet", !.kind = kind, !.uid = uid,
                !.v = [status |-> "Configuring", name |-> NoName, list |-> list, vms |-> {}]])
    BY <1>4 DEF CheckVNet
  <2> DEFINE v == [status |-> "Configuring", name |-> NoName, list |-> list, vms |-> {}]
             q == [Idle EXCEPT !.pc = "putVNet", !.kind = kind, !.uid = uid, !.v = v]
  <2>2. q.pc = "putVNet" /\ q.v.status = "Configuring"
    BY DEF Idle
  <2>3. req'[c] = q
    BY <1>0, <2>1
  <2> HIDE DEF q
  <2> QED
    BY <2>2, <2>3 DEF UseHand
<1>5. ASSUME CheckSubnet(c) PROVE UseHand(req[c])'
  <2>1. PICK s \in Subnets \ Keys, uid \in Fresh :
           Start(c, [Idle EXCEPT !.pc = "putSubnet", !.kind = "CreateSubnet", !.on = s,
                !.uid = uid, !.v = vnet,
                !.sub = [id |-> s, status |-> "Configuring", name |-> NoName, vpc |-> vnet.name]])
    BY <1>5 DEF CheckSubnet
  <2> DEFINE sub == [id |-> s, status |-> "Configuring", name |-> NoName, vpc |-> vnet.name]
             q == [Idle EXCEPT !.pc = "putSubnet", !.kind = "CreateSubnet", !.on = s, !.uid = uid,
                               !.v = vnet, !.sub = sub]
  <2>2. q.pc = "putSubnet" /\ q.v = vnet /\ q.sub.status = "Configuring"
    BY DEF Idle
  <2>3. req'[c] = q
    BY <1>0, <2>1
  <2> HIDE DEF q
  <2>4. req'[c].v.status = "InUse" => req'[c].v.name \in vpcs'
    BY <1>1, <1>5, <2>2, <2>3 DEF ThereNow, CheckSubnet
  <2> QED
    BY <2>2, <2>3, <2>4 DEF UseHand
<1>6. ASSUME AskDeleteVNet(c) PROVE UseHand(req[c])'
  BY <1>0, <1>2, <1>6 DEF AskDeleteVNet, Idle
<1>7. ASSUME AskSubnet(c) PROVE UseHand(req[c])'
  BY <1>0, <1>2, <1>7 DEF AskSubnet, Idle
<1>8. ASSUME AskRefineVNet(c) PROVE UseHand(req[c])'
  <2>1. req'[c].pc = "getVNet" /\ req'[c].v = vnet /\ vnet # None
    BY <1>0, <1>8 DEF Idle, AskRefineVNet
  <2> QED
    BY <1>3, <2>1
<1>9. ASSUME ReadForVm(c) PROVE UseHand(req[c])'
  <2>1. PICK m \in Vms, v \in VNetRecord :
           /\ v.name = vnet.name /\ v.status = vnet.status
           /\ Start(c, [Idle EXCEPT !.pc = "putVms", !.kind = "Associate", !.on = m, !.v = v])
    BY <1>9, EntersVm
  <2>2. req'[c].pc = "putVms" /\ req'[c].v = v /\ vnet # None
    BY <1>0, <1>9, <2>1 DEF Idle, ReadForVm
  <2> QED
    BY <1>3, <2>1, <2>2
<1> QED
  BY <1>4, <1>5, <1>6, <1>7, <1>8, <1>9 DEF StartStep

\* The other requests.
LEMMA UseSame ==
    ASSUME NEW d \in Clients, UseHand(req[d]), req'[d] = req[d], UNCHANGED NameState
    PROVE  UseHand(req[d])'
BY DEF UseHand, NameState, InSpider

LEMMA UseApart ==
    ASSUME Hands, NEW d \in Clients, UseHand(req[d]), HandOf(d), req'[d] = req[d],
           req[d].kind \notin WholeKinds, NEW o, req[d].on # o, StepAt(o)
    PROVE  UseHand(req[d])'
<1> DEFINE r == req[d]
<1>1. r \in Requests /\ Shape(r)
  BY DEF Hands
<1>2. r.pc \notin {"putVNet", "saveVNet", "saveSubnets", "deleteVpc"}
  BY <1>1 DEF Shape, Creating, WholeKinds
<1>3. r.pc = "deletePart" => subnets'[r.sub.id] = subnets[r.sub.id]
  BY <1>1 DEF Shape, SubnetSteps, WithRecord, SubnetRecord, StepAt
<1>4. r.pc = "saveSubnet" => InSpider(r.sub)' # {}
  <2> HAVE r.pc = "saveSubnet"
  <2>1. PICK p \in parts : p.vpc = r.sub.vpc /\ p.name = r.sub.name
    BY DEF UseHand, InSpider
  <2>2. r.sub.name = <<r.on, r.uid>>
    BY DEF HandOf, MakeHand
  <2>3. p.name \notin OwnNames(o)
    BY <2>1, <2>2 DEF OwnNames
  <2>4. p \in parts'
    BY <2>3 DEF StepAt
  <2> QED
    BY <2>1, <2>4 DEF InSpider
<1>5. vpcs' = vpcs
  BY DEF StepAt
<1> QED
  BY <1>2, <1>3, <1>4, <1>5 DEF UseHand

LEMMA UseNext == ~MayClash /\ NamesInv /\ NamesInv' /\ UseInv /\ [Next]_vars => UseInv'
<1> SUFFICES ASSUME ~MayClash, NamesInv, NamesInv', UseInv, [Next]_vars PROVE UseInv'
  OBVIOUS
<1>1. ASSUME UNCHANGED NameState PROVE ThereNow'
  <2>1. Keys' = Keys /\ UNCHANGED <<vnet, subnets, vpcs, parts>>
    BY <1>1 DEF NameState, Keys
  <2> QED
    BY <2>1, ThereGrows DEF UseInv
<1>2. CASE UNCHANGED vars
  <2>1. UNCHANGED NameState /\ req' = req
    BY <1>2 DEF vars, spider, history, NameState
  <2> QED
    BY <1>1, <2>1, UseSame DEF UseInv
<1>3. CASE Crash
  <2>1. Keys' = Keys /\ UNCHANGED <<vnet, subnets, vpcs, parts>>
    BY <1>3 DEF Crash, spider, Keys
  <2>2. ThereNow'
    BY <2>1, ThereGrows DEF UseInv
  <2>3. \A c \in Clients : UseHand(req[c])'
    BY <1>3, IdleUse DEF Crash
  <2> QED
    BY <2>2, <2>3 DEF UseInv
<1>4. ASSUME NEW c \in Clients, StartStep(c) PROVE UseInv'
  <2>1. UNCHANGED NameState /\ Stays(c)
    BY <1>4, OneStarts DEF NamesInv
  <2>2. UseHand(req[c])'
    BY <1>4, UseStart DEF NamesInv, UseInv
  <2>3. \A d \in Clients \ {c} : UseHand(req[d])'
    BY <2>1, UseSame DEF UseInv, Stays
  <2> QED
    BY <1>1, <2>1, <2>2, <2>3 DEF UseInv
<1>5. ASSUME NEW c \in Clients, CreateStep(c) \/ MakeStep(c) \/ SubnetStep(c) \/ EndStep(c) PROVE UseInv'
  <2>1. GoesOn(c) /\ UseBefore(c)
    BY <1>5, Proceeds DEF NamesInv, UseInv, UseBefore, Before
  <2>2. Sound(c)
    BY <1>5, <2>1, CreateSound, MakeSound, SubnetSound, EndSound DEF UseBefore
  <2>3. ThereNow' /\ UseHand(req[c])'
    BY <1>5, <2>1, UseCreate, UseMake, UseSubnet, UseEnd
  <2>4. ASSUME NEW d \in Clients \ {c} PROVE UseHand(req[d])'
    <3>1. req'[d] = req[d] /\ req[c] # Idle
      BY <2>1 DEF GoesOn, Stays
    <3>2. CASE req[d] = Idle
      BY <3>1, <3>2, IdleUse
    <3>3. CASE req[d] # Idle
      <4>1. req[c].kind \notin WholeKinds /\ req[d].kind \notin WholeKinds /\ req[d].on # req[c].on
        BY <3>1, <3>3 DEF NamesInv, AsOne, Clash
      <4>2. StepAt(req[c].on)
        BY <2>2, <4>1 DEF Sound, Narrow
      <4> QED
        BY <3>1, <4>1, <4>2, UseApart DEF NamesInv, UseInv
    <3> QED
      BY <3>2, <3>3
  <2> QED
    BY <2>3, <2>4 DEF UseInv
<1> QED
  BY <1>2, <1>3, <1>4, <1>5, AnyStep

LEMMA UseInit == Init => UseInv
<1> SUFFICES ASSUME Init PROVE UseInv
  OBVIOUS
<1>1. ThereNow
  BY DEF Init, ThereNow, Keys
<1>2. \A c \in Clients : UseHand(req[c])
  <2> TAKE c \in Clients
  <2>1. req[c].pc = "idle"
    BY DEF Init, Idle
  <2> QED
    BY <2>1 DEF UseHand, WithCopy, Making, SubnetSteps, WithRecord
<1> QED
  BY <1>1, <1>2 DEF UseInv

\* A subnet shown as Available is with Spider, and so is the vNet shown as InUse,
\* whatever the requests that do not clash put back into the vNet's record, and
\* however a creation or a deletion fails in the middle (vnet.go:1035, subnet.go:722).
THEOREM UsableStays == Spec => []UsableIsThere
<1>1. CASE MayClash
  <2>1. UsableIsThere
    BY <1>1 DEF UsableIsThere
  <2> QED
    BY <2>1, PTL
<1>2. CASE ~MayClash
  <2>1. NamesInv /\ [Next]_vars => NamesInv'
    BY <1>2, NamesNext
  <2>2. NamesInv /\ NamesInv' /\ UseInv /\ [Next]_vars => UseInv'
    BY <1>2, UseNext
  <2>3. UseInv => UsableIsThere
    BY DEF UseInv, ThereNow, UsableIsThere
  <2> QED
    BY <2>1, <2>2, <2>3, NamesInit, UseInit, PTL DEF Spec
<1> QED
  BY <1>1, <1>2

-----------------------------------------------------------------------------
(* The list of the subnets, when requests come one after the other. *)

\* No fault so far, and no two requests at once.
Lone == ~overlapped /\ faults = 0

\* What holds between the requests.
Resting == IF vnet = None THEN Keys = {} ELSE vnet.list = Keys /\ vnet.vms = attached

\* The copy is the record, and lists these subnets.
Listed(v, list) == vnet # None /\ v = vnet /\ v.vms = attached /\ v.list = list

Entered(m, vms) == IF m \in vms THEN vms \ {m} ELSE vms \cup {m}

CreateList(r) ==
    /\ r.pc = "putVNet" => vnet = None
    /\ r.pc \in {"putVNet", "postVNet", "cleanVNet"} => Keys = {}
    /\ r.pc \in Creating => r.v.vms = {} /\ (r.pc # "putVNet" => attached = {})
    /\ r.pc = "saveVNet" /\ r.kind = "CreateVNet" => Keys = {} /\ r.todo = r.v.list
    /\ r.pc = "saveVNet" /\ r.kind = "RegisterVNet" => Keys = r.v.list
    /\ r.pc = "saveSubnets" =>
          /\ r.todo \subseteq r.v.list /\ Keys = r.v.list \ r.todo
          /\ r.kind = "CreateVNet" => vnet = r.v

MakeList(r) ==
    /\ r.pc = "putSubnet" => Listed(r.v, Keys) /\ r.on \notin Keys
    /\ r.pc \in {"postSubnet", "cleanSubnet", "saveSubnet", "addToVNet"} =>
          r.on \in Keys /\ Listed(r.v, Keys \ {r.on})
    /\ r.pc = "putVms" =>
          vnet # None /\ r.v.list = Keys /\ r.on \in Vms /\ r.v.vms = Entered(r.on, attached)

\* A deletion of the vNet has its subnets before it.
SubnetList(r) ==
    /\ r.pc = "nextSubnet" => Resting
    /\ r.pc \in WithRecord => Listed(r.v, Keys) /\ r.sub.id \in Keys
    /\ r.pc = "removeFromVNet" =>
          r.sub.id \notin Keys /\ vnet # None /\ r.v.vms = attached /\ Keys = r.v.list \ {r.sub.id}
    /\ r.pc \in WithRecord \cup {"nextSubnet"} /\ r.kind = "DeleteVNet" => Keys \subseteq r.todo
    /\ r.pc = "removeFromVNet" /\ r.kind = "DeleteVNet" => Keys \subseteq r.todo \ {r.sub.id}

EndList(r) ==
    /\ r.pc \in {"idle", "readVNet", "markVNet", "deleteVpc", "getVNet"} => Resting
    /\ r.pc \in {"readVNet", "markVNet", "deleteVpc", "dropVNet"} => Keys = {}
    /\ r.pc = "markVNet" => Listed(r.v, Keys)

ListHand(r) == CreateList(r) /\ MakeList(r) /\ SubnetList(r) /\ EndList(r)

OneByOne == \A c \in Clients : req[c] # Idle => Alone(c)

ListInv ==
    Lone => /\ OneByOne /\ \A c \in Clients : req[c] # Idle => ListHand(req[c])
            /\ (\A c \in Clients : req[c] = Idle) => Resting

ListBefore(c) == RestType /\ Hands /\ ListHand(req[c]) /\ RestType' /\ Hands' /\ faults' = faults

\* Only what a place says is left to show.
LEMMA AtPlace ==
    ASSUME NEW r
    PROVE  /\ r.pc = "idle" => (ListHand(r) <=> Resting)
           /\ r.pc \in Creating => (ListHand(r) <=> CreateList(r))
           /\ r.pc \in Making \cup {"addToVNet", "putVms"} => (ListHand(r) <=> MakeList(r))
           /\ r.pc \in SubnetSteps \cup {"nextSubnet"} => (ListHand(r) <=> SubnetList(r))
           /\ r.pc \in {"readVNet", "markVNet", "deleteVpc", "getVNet", "dropVNet"} => (ListHand(r) <=> EndList(r))
           /\ r.pc = "dropSubnets" => ListHand(r)
<1> USE DEF ListHand, Creating, Making, SubnetSteps, WithRecord
<1>1. r.pc \notin Creating => CreateList(r)
  BY DEF CreateList
<1>2. r.pc \notin Making \cup {"addToVNet", "putVms"} => MakeList(r)
  BY DEF MakeList
<1>3. r.pc \notin SubnetSteps \cup {"nextSubnet"} => SubnetList(r)
  BY DEF SubnetList
<1>4. r.pc \notin {"idle", "readVNet", "markVNet", "deleteVpc", "getVNet", "dropVNet"} => EndList(r)
  BY DEF EndList
<1>5. r.pc = "idle" => (EndList(r) <=> Resting)
  BY DEF EndList
<1> QED
  BY <1>1, <1>2, <1>3, <1>4, <1>5

LEMMA Ends ==
    ASSUME NEW c \in Clients, Hands, Return(c), Resting'
    PROVE  ListHand(req[c])'
<1>1. req'[c].pc = "idle"
  BY DEF Hands, Return, Idle
<1> QED
  BY <1>1 DEF ListHand, CreateList, MakeList, SubnetList, EndList, Creating, WithRecord

LEMMA Stands ==
    ASSUME UNCHANGED <<vnet, subnets, attached>>
    PROVE  Keys' = Keys /\ (Resting' <=> Resting) /\ \A v, list : Listed(v, list)' <=> Listed(v, list)
BY DEF Keys, Resting, Listed

LEMMA AtLabel ==
    ASSUME Hands, NEW c \in Clients, NEW label, GoTo(c, label)
    PROVE  req'[c] = [req[c] EXCEPT !.pc = label] /\ req'[c].pc = label
           /\ req'[c].kind = req[c].kind /\ req'[c].on = req[c].on /\ req'[c].todo = req[c].todo
           /\ req'[c].v = req[c].v /\ req'[c].sub = req[c].sub
BY DEF Hands, GoTo, Requests

LEMMA NotFault ==
    ASSUME RestType, faults' = faults
    PROVE  ~Fault
BY FaultAssumption DEF RestType, Fault

LEMMA ListCreate ==
    ASSUME NEW c \in Clients, ListBefore(c), CreateStep(c)
    PROVE  ListHand(req[c])'
<1> DEFINE r == req[c]
<1> USE DEF Creating
<1>0. /\ r \in Requests /\ req \in [Clients -> Requests] /\ Shape(r) /\ RestType /\ Hands /\ ~Fault
      /\ (r.pc \in Creating => r.v \in VNetRecord /\ r.kind \in {"CreateVNet", "RegisterVNet"} /\ r.v # None)
  BY NotFault, NameAssumption DEF ListBefore, Hands, Shape
<1>1. r.pc \in Creating => CreateList(r)
  BY AtPlace DEF ListBefore
<1>2. (req'[c].pc \in Creating /\ CreateList(req[c])') => ListHand(req[c])'
  BY DEF ListHand, MakeList, SubnetList, EndList, WithRecord
<1>3. ASSUME PutVNet(c) PROVE ListHand(req[c])'
  <2>1. /\ Keys = {} /\ r.v.vms = {} /\ vnet' = r.v /\ attached' = {} /\ GoTo(c, "postVNet")
        /\ subnets' = subnets
    BY <1>0, <1>1, <1>3 DEF PutVNet, CreateList
  <2>2. req'[c].pc = "postVNet" /\ req'[c].v = r.v /\ Keys' = {}
    BY <1>0, <2>1, AtLabel DEF Keys
  <2> QED
    BY <1>2, <2>1, <2>2 DEF CreateList
<1>4. ASSUME PostVNet(c) PROVE ListHand(req[c])'
  <2>1. r.pc = "postVNet" /\ Keys = {} /\ r.v.vms = {} /\ attached = {} /\ Keys' = {} /\ attached' = {}
    BY <1>1, <1>4 DEF PostVNet, CreateList, Keys
  <2>2. ASSUME GoTo(c, "cleanVNet") PROVE ListHand(req[c])'
    <3>1. req'[c].pc = "cleanVNet" /\ req'[c].v = r.v
      BY <1>0, <2>2, AtLabel
    <3> QED
      BY <1>2, <2>1, <3>1 DEF CreateList
  <2>3. ASSUME NEW list,
               req' = [req EXCEPT ![c].v = [@ EXCEPT !.status = StatusOf(list), !.name = r.uid, !.list = list],
                                  ![c].todo = list,
                                  ![c].pc = IF r.kind = "CreateVNet" THEN "saveVNet" ELSE "saveSubnets"]
        PROVE  ListHand(req[c])'
    <3> DEFINE w == [r.v EXCEPT !.status = StatusOf(list), !.name = r.uid, !.list = list]
               label == IF r.kind = "CreateVNet" THEN "saveVNet" ELSE "saveSubnets"
    <3>1. w.list = list /\ w.vms = {}
      BY <1>0, <2>1 DEF VNetRecord
    <3>2. req' = [req EXCEPT ![c].v = w, ![c].todo = list, ![c].pc = label]
      BY <2>3
    <3>3. /\ label \in {"saveVNet", "saveSubnets"} /\ (label = "saveVNet" <=> r.kind = "CreateVNet")
          /\ r.kind \in {"CreateVNet", "RegisterVNet"}
      BY <1>0, <2>1
    <3> HIDE DEF w, label
    <3>4. req'[c].v = w /\ req'[c].todo = list /\ req'[c].pc = label /\ req'[c].kind = r.kind
      BY <1>0, <3>2 DEF Requests
    <3> QED
      BY <1>2, <2>1, <3>1, <3>3, <3>4 DEF CreateList
  <2> QED
    BY <1>0, <1>4, <2>2, <2>3 DEF PostVNet
<1>5. ASSUME CleanVNet(c) PROVE ListHand(req[c])'
  <2>1. Keys = {} /\ vnet' = None /\ Return(c) /\ subnets' = [s \in Subnets |-> IF s \in r.v.list THEN None ELSE subnets[s]]
    BY <1>0, <1>1, <1>5 DEF CleanVNet, CreateList
  <2>2. Keys' = {}
    BY <2>1 DEF Keys
  <2> QED
    BY <1>0, <2>1, <2>2, Ends DEF Resting
<1>6. ASSUME SaveVNet(c) PROVE ListHand(req[c])'
  <2>1. /\ r.pc = "saveVNet" /\ vnet' = r.v /\ subnets' = subnets /\ attached' = attached
        /\ IF r.kind = "CreateVNet" THEN GoTo(c, "saveSubnets") ELSE Return(c)
    BY <1>0, <1>6 DEF SaveVNet
  <2>2. r.v.vms = {} /\ attached = {} /\ Keys' = Keys
    BY <1>1, <2>1 DEF CreateList, Keys
  <2>3. CASE r.kind = "CreateVNet"
    <3>1. req'[c].pc = "saveSubnets" /\ req'[c].v = r.v /\ req'[c].todo = r.todo /\ req'[c].kind = r.kind
      BY <1>0, <2>1, <2>3, AtLabel
    <3>2. Keys = {} /\ r.todo = r.v.list
      BY <1>1, <2>1, <2>3 DEF CreateList
    <3> QED
      BY <1>2, <2>1, <2>2, <3>1, <3>2 DEF CreateList
  <2>4. CASE r.kind # "CreateVNet"
    <3>1. Keys = r.v.list
      BY <1>0, <1>1, <2>1, <2>4 DEF CreateList
    <3>2. Resting'
      BY <1>0, <2>1, <2>2, <3>1 DEF Resting
    <3> QED
      BY <1>0, <2>1, <2>4, <3>2, Ends
  <2> QED
    BY <2>3, <2>4
<1>7. ASSUME SaveSubnets(c) PROVE ListHand(req[c])'
  <2>1. /\ r.pc = "saveSubnets" /\ r.v.vms = {} /\ attached = {} /\ vnet' = vnet /\ attached' = {}
        /\ r.todo \subseteq r.v.list /\ Keys = r.v.list \ r.todo /\ (r.kind = "CreateVNet" => vnet = r.v)
    BY <1>1, <1>7 DEF SaveSubnets, CreateList
  <2>2. ASSUME NEW s \in r.todo,
               subnets' = [subnets EXCEPT ![s] = [id |-> s, status |-> "Available", name |-> <<s, r.uid>>, vpc |-> r.uid]],
               req' = [req EXCEPT ![c].todo = @ \ {s}]
        PROVE  ListHand(req[c])'
    <3> DEFINE rec == [id |-> s, status |-> "Available", name |-> <<s, r.uid>>, vpc |-> r.uid]
    <3>1. s \in Subnets /\ r.uid \in Uids
      BY <1>0, <2>1 DEF Requests, Shape
    <3>2. rec \in SubnetRecord
      BY <3>1 DEF SubnetRecord, PartNames
    <3>3. subnets' = [subnets EXCEPT ![s] = rec]
      BY <2>2
    <3> HIDE DEF rec
    <3>4. Keys' = Keys \cup {s}
      BY <1>0, <3>1, <3>2, <3>3, OneRecord
    <3>5. /\ req'[c].pc = "saveSubnets" /\ req'[c].v = r.v /\ req'[c].todo = r.todo \ {s}
          /\ req'[c].kind = r.kind
      BY <1>0, <2>1, <2>2 DEF Requests
    <3> QED
      BY <1>2, <2>1, <3>4, <3>5 DEF CreateList
  <2>3. ASSUME r.todo = {}, subnets' = subnets,
               IF r.kind = "CreateVNet" THEN Return(c) ELSE GoTo(c, "saveVNet")
        PROVE  ListHand(req[c])'
    <3>1. Keys' = Keys /\ Keys = r.v.list
      BY <2>1, <2>3 DEF Keys
    <3>2. CASE r.kind = "CreateVNet"
      <4>1. Resting'
        BY <1>0, <2>1, <3>1, <3>2 DEF Resting
      <4> QED
        BY <1>0, <2>3, <3>2, <4>1, Ends
    <3>3. CASE r.kind # "CreateVNet"
      <4>1. req'[c].pc = "saveVNet" /\ req'[c].v = r.v /\ req'[c].kind = r.kind
        BY <1>0, <2>3, <3>3, AtLabel
      <4> QED
        BY <1>2, <2>1, <3>1, <3>3, <4>1 DEF CreateList
    <3> QED
      BY <3>2, <3>3
  <2> QED
    BY <1>0, <1>7, <2>2, <2>3 DEF SaveSubnets
<1> QED
  BY <1>3, <1>4, <1>5, <1>6, <1>7 DEF CreateStep

LEMMA ListMake ==
    ASSUME NEW c \in Clients, ListBefore(c), MakeStep(c)
    PROVE  ListHand(req[c])'
<1> DEFINE r == req[c]
<1> USE DEF Making
<1>0. /\ r \in Requests /\ req \in [Clients -> Requests] /\ Shape(r) /\ RestType /\ Hands /\ ~Fault
      /\ (r.pc \in Making \cup {"addToVNet"} =>
            r.on \in Subnets /\ r.sub \in SubnetRecord /\ r.v \in VNetRecord /\ r.v # None)
  BY NotFault, NameAssumption DEF ListBefore, Hands, Shape, WithCopy
<1>1. r.pc \in Making \cup {"addToVNet", "putVms"} => MakeList(r)
  BY AtPlace DEF ListBefore
<1>2. (req'[c].pc \in {"postSubnet", "cleanSubnet", "saveSubnet", "addToVNet"}
         /\ r.on \in Keys' /\ req'[c].on = r.on /\ Listed(req[c].v, Keys \ {req[c].on})') => ListHand(req[c])'
  BY DEF ListHand, CreateList, MakeList, SubnetList, EndList, WithRecord, Creating
<1>3. ASSUME PutSubnet(c) PROVE ListHand(req[c])'
  <2>1. /\ Listed(r.v, Keys) /\ r.on \notin Keys /\ UNCHANGED <<vnet, attached>> /\ GoTo(c, "postSubnet")
        /\ subnets' = [subnets EXCEPT ![r.on] = r.sub] /\ r.on \in Subnets /\ r.sub \in SubnetRecord
    BY <1>0, <1>1, <1>3 DEF PutSubnet, MakeList
  <2>2. Keys' = Keys \cup {r.on}
    BY <1>0, <2>1, OneRecord
  <2>3. req'[c].pc = "postSubnet" /\ req'[c].v = r.v /\ req'[c].on = r.on
    BY <1>0, <2>1, AtLabel
  <2>4. Listed(req[c].v, Keys \ {req[c].on})'
    BY <2>1, <2>2, <2>3 DEF Listed
  <2> QED
    BY <1>2, <2>2, <2>3, <2>4
<1>4. ASSUME PostSubnet(c) PROVE ListHand(req[c])'
  <2>1. r.pc = "postSubnet" /\ r.on \in Keys /\ Listed(r.v, Keys \ {r.on}) /\ UNCHANGED <<vnet, subnets, attached>>
    BY <1>1, <1>4 DEF PostSubnet, MakeList
  <2>2. /\ req'[c].pc \in {"saveSubnet", "cleanSubnet"} /\ req'[c].v = r.v /\ req'[c].on = r.on
    <3>1. CASE GoTo(c, "cleanSubnet")
      BY <1>0, <3>1, AtLabel
    <3>2. ASSUME NEW sub, req' = [req EXCEPT ![c].sub = sub, ![c].pc = "saveSubnet"]
          PROVE  req'[c].pc = "saveSubnet" /\ req'[c].v = r.v /\ req'[c].on = r.on
      BY <1>0, <3>2 DEF Requests
    <3>3. CASE req' = [req EXCEPT ![c].sub = [@ EXCEPT !.status = "Available", !.name = <<r.on, r.uid>>],
                                  ![c].pc = "saveSubnet"]
      <4> DEFINE sub == [r.sub EXCEPT !.status = "Available", !.name = <<r.on, r.uid>>]
      <4>1. req' = [req EXCEPT ![c].sub = sub, ![c].pc = "saveSubnet"]
        BY <3>3
      <4> HIDE DEF sub
      <4> QED
        BY <3>2, <4>1
    <3> QED
      BY <1>0, <1>4, <3>1, <3>3 DEF PostSubnet
  <2>3. Keys' = Keys
    BY <2>1, Stands
  <2>4. Listed(req[c].v, Keys \ {req[c].on})'
    BY <2>1, <2>2, <2>3 DEF Listed
  <2> QED
    BY <1>2, <2>1, <2>2, <2>3, <2>4
<1>5. ASSUME CleanSubnet(c) PROVE ListHand(req[c])'
  <2>1. /\ r.on \in Keys /\ Listed(r.v, Keys \ {r.on}) /\ UNCHANGED <<vnet, attached>> /\ Return(c)
        /\ subnets' = [subnets EXCEPT ![r.on] = None] /\ r.on \in Subnets
    BY <1>0, <1>1, <1>5 DEF CleanSubnet, MakeList
  <2>2. Keys' = Keys \ {r.on}
    BY <1>0, <2>1, RecordGone
  <2>3. Resting'
    BY <2>1, <2>2 DEF Resting, Listed
  <2> QED
    BY <1>0, <2>1, <2>3, Ends
<1>6. ASSUME SaveSubnet(c) PROVE ListHand(req[c])'
  <2>1. /\ r.on \in Keys /\ Listed(r.v, Keys \ {r.on}) /\ UNCHANGED <<vnet, attached>> /\ GoTo(c, "addToVNet")
        /\ subnets' = [subnets EXCEPT ![r.on] = r.sub] /\ r.on \in Subnets /\ r.sub \in SubnetRecord
    BY <1>0, <1>1, <1>6 DEF SaveSubnet, MakeList
  <2>2. Keys' = Keys
    <3>1. Keys' = Keys \cup {r.on}
      BY <1>0, <2>1, OneRecord
    <3> QED
      BY <2>1, <3>1
  <2>3. req'[c].pc = "addToVNet" /\ req'[c].v = r.v /\ req'[c].on = r.on
    BY <1>0, <2>1, AtLabel
  <2>4. Listed(req[c].v, Keys \ {req[c].on})'
    BY <2>1, <2>2, <2>3 DEF Listed
  <2> QED
    BY <1>2, <2>1, <2>2, <2>3, <2>4
<1>7. ASSUME AddToVNet(c) PROVE ListHand(req[c])'
  <2>1. /\ r.pc = "addToVNet" /\ r.on \in Keys /\ Listed(r.v, Keys \ {r.on}) /\ UNCHANGED <<subnets, attached>> /\ Return(c)
        /\ vnet' = [r.v EXCEPT !.list = @ \cup {r.on}, !.status = "InUse"] /\ r.v \in VNetRecord
    BY <1>0, <1>1, <1>7 DEF AddToVNet, MakeList
  <2>2. vnet'.list = r.v.list \cup {r.on} /\ vnet'.vms = r.v.vms /\ Keys' = Keys
    BY <2>1 DEF VNetRecord, Keys
  <2>3. vnet' \in VNetRecord \cup {None}
    BY DEF ListBefore, RestType
  <2>4. vnet'.list = Keys' /\ vnet'.vms = attached'
    BY <2>1, <2>2 DEF Listed
  <2>5. [r.v EXCEPT !.list = @ \cup {r.on}, !.status = "InUse"] \in VNetRecord
    BY <1>0, <2>1 DEF VNetRecord
  <2>6. vnet' # None
    BY <2>1, <2>5, NameAssumption
  <2> QED
    BY <1>0, <2>1, <2>4, <2>6, Ends DEF Resting
<1>8. ASSUME PutVms(c) PROVE ListHand(req[c])'
  <2>1. /\ r.pc = "putVms" /\ Return(c) /\ vnet' = r.v /\ subnets' = subnets
        /\ attached' = IF r.on \in r.v.vms THEN attached \cup {r.on} ELSE attached \ {r.on}
    BY <1>0, <1>8 DEF PutVms
  <2>2. r.v.list = Keys /\ r.v.vms = Entered(r.on, attached) /\ r.v \in VNetRecord
    BY <1>0, <1>1, <2>1 DEF MakeList, Shape, WithCopy
  <2>3. attached' = r.v.vms /\ Keys' = Keys
    BY <2>1, <2>2 DEF Entered, Keys
  <2> QED
    BY <1>0, <2>1, <2>2, <2>3, Ends, NameAssumption DEF Resting
<1> QED
  BY <1>3, <1>4, <1>5, <1>6, <1>7, <1>8 DEF MakeStep


LEMMA ListSubnet ==
    ASSUME NEW c \in Clients, ListBefore(c), SubnetStep(c)
    PROVE  ListHand(req[c])'
<1> DEFINE r == req[c]
<1> USE DEF SubnetSteps, WithRecord
<1>0. /\ r \in Requests /\ req \in [Clients -> Requests] /\ Shape(r) /\ RestType /\ Hands /\ ~Fault
      /\ (r.pc \in SubnetSteps =>
            r.sub \in SubnetRecord /\ r.sub.id \in Subnets /\ r.v \in VNetRecord /\ r.v # None)
  BY NotFault, NameAssumption DEF ListBefore, Hands, Shape, WithCopy, SubnetRecord
<1>1. r.pc \in SubnetSteps \cup {"nextSubnet"} => SubnetList(r)
  BY AtPlace DEF ListBefore
<1>2. req'[c].pc \in SubnetSteps \cup {"nextSubnet"} /\ SubnetList(req[c])' => ListHand(req[c])'
  BY DEF ListHand, CreateList, MakeList, EndList, Creating
<1>3. ASSUME ReadSubnet(c) PROVE ListHand(req[c])'
  <2>1. /\ r.pc = "nextSubnet" /\ UNCHANGED <<vnet, subnets, attached>>
        /\ Resting /\ (r.kind = "DeleteVNet" => Keys \subseteq r.todo)
    BY <1>1, <1>3 DEF ReadSubnet, SubnetList, history
  <2>2. Keys' = Keys /\ Resting' /\ \A v, list : Listed(v, list)' <=> Listed(v, list)
    BY <2>1, Stands
  <2>3. PICK s \in r.todo :
           IF vnet # None /\ subnets[s] # None
           THEN req' = [req EXCEPT ![c].v = vnet, ![c].sub = subnets[s],
                                   ![c].pc = IF Refines(c) THEN "getSubnet" ELSE "markSubnet"]
           ELSE IF r.kind = "RefineVNet" THEN req' = [req EXCEPT ![c].todo = @ \ {s}] ELSE Return(c)
    BY <1>3 DEF ReadSubnet
  <2>4. s \in Subnets
    BY <1>0, <2>3 DEF Requests
  <2>5. CASE vnet # None /\ subnets[s] # None
    <3>1. /\ req'[c].pc \in WithRecord /\ req'[c].v = vnet /\ req'[c].sub = subnets[s]
          /\ req'[c].kind = r.kind /\ req'[c].todo = r.todo
      BY <1>0, <2>3, <2>5 DEF Requests
    <3>2. s \in Keys /\ subnets[s].id = s
      BY <1>0, <2>4, <2>5 DEF Keys, RestType
    <3>3. vnet' = vnet /\ vnet.list = Keys /\ vnet.vms = attached /\ attached' = attached
      BY <2>1, <2>5 DEF Resting
    <3>4. Listed(req[c].v, Keys)'
      BY <2>2, <2>5, <3>1, <3>3 DEF Listed
    <3>5. (req'[c].sub.id \in Keys') /\ req'[c].pc # "removeFromVNet" /\ req'[c].pc # "nextSubnet"
      BY <2>2, <3>1, <3>2
    <3>6. SubnetList(req[c])'
      BY <2>1, <2>2, <3>1, <3>4, <3>5 DEF SubnetList
    <3> QED
      BY <1>2, <3>1, <3>6
  <2>6. CASE ~(vnet # None /\ subnets[s] # None)
    <3>1. CASE r.kind = "RefineVNet"
      <4>1. req'[c].pc = "nextSubnet" /\ req'[c].kind = "RefineVNet"
        BY <1>0, <2>1, <2>3, <2>6, <3>1 DEF Requests
      <4>2. SubnetList(req[c])'
        BY <2>2, <4>1 DEF SubnetList
      <4> QED
        BY <1>2, <4>1, <4>2
    <3>2. CASE r.kind # "RefineVNet"
      BY <1>0, <2>2, <2>3, <2>6, <3>2, Ends
    <3> QED
      BY <3>1, <3>2
  <2> QED
    BY <2>5, <2>6
<1>4. ASSUME NoMoreSubnets(c) PROVE ListHand(req[c])'
  <2>1. /\ r.pc = "nextSubnet" /\ r.todo = {} /\ UNCHANGED <<vnet, subnets, attached>>
        /\ Resting /\ (r.kind = "DeleteVNet" => Keys \subseteq r.todo)
        /\ IF r.kind = "DeleteVNet" THEN GoTo(c, "readVNet") ELSE Return(c)
    BY <1>1, <1>4 DEF NoMoreSubnets, SubnetList, history
  <2>2. Keys' = Keys /\ Resting'
    BY <2>1, Stands
  <2>3. CASE r.kind = "DeleteVNet"
    <3>1. req'[c].pc = "readVNet" /\ Keys' = {}
      BY <1>0, <2>1, <2>2, <2>3, AtLabel
    <3> QED
      BY <2>2, <3>1 DEF ListHand, CreateList, MakeList, SubnetList, EndList, Creating
  <2> QED
    BY <1>0, <2>1, <2>2, <2>3, Ends
\* Up to the removal the record and the copy stay as they are.
<1>5. r.pc \in WithRecord =>
         /\ Listed(r.v, Keys) /\ r.sub.id \in Keys /\ (r.kind = "DeleteVNet" => Keys \subseteq r.todo)
         /\ (UNCHANGED <<vnet, attached>> /\ Keys' = Keys =>
               /\ Resting'
               /\ \A label \in WithRecord : GoTo(c, label) => ListHand(req[c])')
  <2> SUFFICES ASSUME r.pc \in WithRecord
               PROVE  /\ Listed(r.v, Keys) /\ r.sub.id \in Keys /\ (r.kind = "DeleteVNet" => Keys \subseteq r.todo)
                      /\ (UNCHANGED <<vnet, attached>> /\ Keys' = Keys =>
                            /\ Resting'
                            /\ \A label \in WithRecord : GoTo(c, label) => ListHand(req[c])')
    OBVIOUS
  <2>1. Listed(r.v, Keys) /\ r.sub.id \in Keys /\ (r.kind = "DeleteVNet" => Keys \subseteq r.todo)
    BY <1>1 DEF SubnetList
  <2>2. ASSUME UNCHANGED <<vnet, attached>>, Keys' = Keys PROVE Resting'
    BY <2>1, <2>2 DEF Listed, Resting
  <2>3. ASSUME UNCHANGED <<vnet, attached>>, Keys' = Keys, NEW label \in WithRecord, GoTo(c, label)
        PROVE  ListHand(req[c])'
    <3>1. /\ req'[c].pc = label /\ req'[c].v = r.v /\ req'[c].sub = r.sub
          /\ req'[c].kind = r.kind /\ req'[c].todo = r.todo
      BY <1>0, <2>3, AtLabel
    <3>2. Listed(req[c].v, Keys)'
      BY <2>1, <2>3, <3>1 DEF Listed
    <3>3. SubnetList(req[c])'
      BY <2>1, <2>3, <3>1, <3>2 DEF SubnetList
    <3> QED
      BY <1>2, <3>1, <3>3
  <2> QED
    BY <2>1, <2>2, <2>3
<1>6. ASSUME MarkSubnet(c) PROVE ListHand(req[c])'
  <2>1. /\ r.pc = "markSubnet" /\ UNCHANGED <<vnet, attached>>
        /\ \/ subnets' = [subnets EXCEPT ![Marked(r.sub).id] = Marked(r.sub)] /\ GoTo(c, "deletePart")
           \/ Return(c) /\ UNCHANGED subnets
    BY <1>0, <1>6 DEF MarkSubnet
  <2>2. Marked(r.sub) \in SubnetRecord /\ Marked(r.sub).id = r.sub.id
    BY <1>0, <2>1 DEF Marked, SubnetRecord
  <2>3. Keys' = Keys
    <3>1. CASE subnets' = [subnets EXCEPT ![Marked(r.sub).id] = Marked(r.sub)]
      <4>1. Keys' = Keys \cup {r.sub.id}
        BY <1>0, <2>1, <2>2, <3>1, OneRecord
      <4> QED
        BY <1>5, <2>1, <4>1
    <3>2. CASE UNCHANGED subnets
      BY <3>2 DEF Keys
    <3> QED
      BY <2>1, <3>1, <3>2
  <2> QED
    BY <1>0, <1>5, <2>1, <2>3, Ends
<1>7. ASSUME DeletePart(c) PROVE ListHand(req[c])'
  <2>1. /\ r.pc = "deletePart" /\ UNCHANGED <<vnet, subnets, attached>>
        /\ GoTo(c, "dropSubnet") \/ Return(c)
    BY <1>0, <1>7 DEF DeletePart, NotDeleted
  <2>2. Keys' = Keys
    BY <2>1, Stands
  <2> QED
    BY <1>0, <1>5, <2>1, <2>2, Ends
<1>8. ASSUME GetSubnet(c) PROVE ListHand(req[c])'
  <2>1. /\ r.pc = "getSubnet" /\ UNCHANGED <<vnet, subnets, attached>>
        /\ GoTo(c, "dropSubnet") \/ SubnetFails(c)
    BY <1>0, <1>8 DEF GetSubnet
  <2>2. Keys' = Keys /\ Resting'
    BY <1>5, <2>1, Stands
  <2>3. ASSUME SubnetFails(c), r.kind = "RefineVNet" PROVE ListHand(req[c])'
    <3>1. req'[c].pc = "nextSubnet" /\ req'[c].kind = "RefineVNet"
      BY <1>0, <2>3 DEF SubnetFails, Requests
    <3>2. SubnetList(req[c])'
      BY <2>2, <3>1 DEF SubnetList
    <3> QED
      BY <1>2, <3>1, <3>2
  <2>4. ASSUME SubnetFails(c), r.kind # "RefineVNet" PROVE ListHand(req[c])'
    BY <1>0, <2>2, <2>4, Ends DEF SubnetFails
  <2> QED
    BY <1>5, <2>1, <2>2, <2>3, <2>4
<1>9. ASSUME DropSubnet(c) PROVE ListHand(req[c])'
  <2>1. /\ r.pc = "dropSubnet" /\ UNCHANGED <<vnet, attached>> /\ GoTo(c, "removeFromVNet")
        /\ subnets' = [subnets EXCEPT ![r.sub.id] = None] /\ r.sub.id \in Subnets
    BY <1>0, <1>9 DEF DropSubnet
  <2>2. Keys' = Keys \ {r.sub.id}
    BY <1>0, <2>1, RecordGone
  <2>3. /\ req'[c].pc = "removeFromVNet" /\ req'[c].v = r.v /\ req'[c].sub = r.sub
        /\ req'[c].kind = r.kind /\ req'[c].todo = r.todo
    BY <1>0, <2>1, AtLabel
  <2>4. vnet # None /\ r.v.vms = attached /\ r.v.list = Keys /\ (r.kind = "DeleteVNet" => Keys \subseteq r.todo)
    BY <1>5, <2>1 DEF Listed
  <2>5. SubnetList(req[c])'
    BY <2>1, <2>2, <2>3, <2>4 DEF SubnetList
  <2> QED
    BY <1>2, <2>3, <2>5
<1>10. ASSUME RemoveFromVNet(c) PROVE ListHand(req[c])'
  <2> DEFINE list == Without(r.v.list, r.sub.id)
             w == [r.v EXCEPT !.list = list, !.status = IF list = {} THEN "Available" ELSE @]
  <2>1. /\ r.pc = "removeFromVNet" /\ UNCHANGED <<subnets, attached>> /\ vnet' = w /\ SubnetDone(c)
        /\ r.v \in VNetRecord
    BY <1>0, <1>10 DEF RemoveFromVNet
  <2>2. /\ r.v.vms = attached /\ Keys = r.v.list \ {r.sub.id}
        /\ (r.kind = "DeleteVNet" => Keys \subseteq r.todo \ {r.sub.id})
    BY <1>1, <2>1 DEF SubnetList
  <2>3. w \in VNetRecord /\ w.list = Keys /\ w.vms = attached
    BY <2>1, <2>2 DEF VNetRecord, Without
  <2> HIDE DEF w, list
  <2>4. Keys' = Keys
    BY <2>1 DEF Keys
  <2>5. Resting'
    BY <2>1, <2>3, <2>4, NameAssumption DEF Resting
  <2>6. req'[c].pc = "nextSubnet" /\ req'[c].kind = r.kind /\ req'[c].todo = r.todo \ {r.sub.id}
    BY <1>0, <2>1 DEF SubnetDone, Requests
  <2>7. SubnetList(req[c])'
    BY <2>2, <2>4, <2>5, <2>6 DEF SubnetList
  <2> QED
    BY <1>2, <2>6, <2>7
<1> QED
  BY <1>3, <1>4, <1>6, <1>7, <1>8, <1>9, <1>10 DEF SubnetStep

LEMMA ListEnd ==
    ASSUME NEW c \in Clients, ListBefore(c), EndStep(c)
    PROVE  ListHand(req[c])'
<1> DEFINE r == req[c]
           Ending == {"readVNet", "markVNet", "deleteVpc", "getVNet", "dropVNet"}
<1>0. /\ r \in Requests /\ req \in [Clients -> Requests] /\ Shape(r) /\ RestType /\ Hands /\ ~Fault
      /\ (r.pc \in {"markVNet", "deleteVpc", "getVNet"} => r.v \in VNetRecord /\ r.v # None)
  BY NotFault, NameAssumption DEF ListBefore, Hands, Shape, WithCopy
<1>1. r.pc \in Ending => EndList(r)
  BY AtPlace DEF ListBefore
<1>2. req'[c].pc \in Ending /\ EndList(req[c])' => ListHand(req[c])'
  BY DEF ListHand, CreateList, MakeList, SubnetList, Creating, WithRecord
<1>3. ASSUME ReadVNet(c) PROVE ListHand(req[c])'
  <2>1. r.pc = "readVNet" /\ Resting /\ Keys = {} /\ UNCHANGED <<vnet, subnets, attached>>
    BY <1>1, <1>3 DEF ReadVNet, EndList, history
  <2>2. Keys' = {} /\ Resting'
    BY <2>1, Stands
  <2>3. CASE vnet = None
    BY <1>0, <1>3, <2>2, <2>3, Ends DEF ReadVNet
  <2>4. CASE vnet # None
    <3>1. req'[c].pc = "markVNet" /\ req'[c].v = vnet
      BY <1>0, <1>3, <2>4 DEF ReadVNet, Requests
    <3>2. Listed(req[c].v, Keys)'
      BY <2>1, <2>2, <2>4, <3>1 DEF Listed, Resting
    <3>3. EndList(req[c])'
      BY <2>2, <3>1, <3>2 DEF EndList
    <3> QED
      BY <1>2, <3>1, <3>3
  <2> QED
    BY <2>3, <2>4
<1>4. ASSUME MarkVNet(c) PROVE ListHand(req[c])'
  <2>1. r.pc = "markVNet" /\ Listed(r.v, Keys) /\ Resting /\ Keys = {} /\ UNCHANGED <<subnets, attached>>
    BY <1>1, <1>4 DEF MarkVNet, EndList
  <2>2. Keys' = {}
    BY <2>1 DEF Keys
  <2>3. ASSUME vnet' = [r.v EXCEPT !.status = "Deleting"], GoTo(c, "deleteVpc") PROVE ListHand(req[c])'
    <3>1. vnet'.list = r.v.list /\ vnet'.vms = r.v.vms
      BY <1>0, <2>1, <2>3 DEF VNetRecord
    <3>2. Resting'
      BY <2>1, <2>2, <3>1 DEF Resting, Listed
    <3>3. req'[c].pc = "deleteVpc"
      BY <1>0, <2>3, AtLabel
    <3>4. EndList(req[c])'
      BY <2>2, <3>2, <3>3 DEF EndList
    <3> QED
      BY <1>2, <3>3, <3>4
  <2> QED
    BY <1>0, <1>4, <2>3 DEF MarkVNet
<1>5. ASSUME DeleteVpc(c) PROVE ListHand(req[c])'
  <2>1. /\ r.pc = "deleteVpc" /\ Resting /\ Keys = {} /\ UNCHANGED <<vnet, subnets, attached>>
        /\ GoTo(c, "dropVNet") \/ Return(c)
    BY <1>0, <1>1, <1>5 DEF DeleteVpc, EndList
  <2>2. Keys' = {} /\ Resting'
    BY <2>1, Stands
  <2>3. ASSUME GoTo(c, "dropVNet") PROVE ListHand(req[c])'
    <3>1. req'[c].pc = "dropVNet"
      BY <1>0, <2>3, AtLabel
    <3> QED
      BY <1>2, <2>2, <3>1 DEF EndList
  <2> QED
    BY <1>0, <2>1, <2>2, <2>3, Ends
<1>6. ASSUME GetVNet(c) PROVE ListHand(req[c])'
  <2>1. /\ r.pc = "getVNet" /\ Resting /\ UNCHANGED <<vnet, subnets, attached>>
        /\ \/ req' = [req EXCEPT ![c].pc = "nextSubnet", ![c].todo = Keys]
           \/ GoTo(c, "dropSubnets")
    BY <1>0, <1>1, <1>6 DEF GetVNet, EndList
  <2>2. Keys' = Keys /\ Resting'
    BY <2>1, Stands
  <2>3. ASSUME GoTo(c, "dropSubnets") PROVE ListHand(req[c])'
    <3>1. req'[c].pc = "dropSubnets"
      BY <1>0, <2>3, AtLabel
    <3> QED
      BY <3>1 DEF ListHand, CreateList, MakeList, SubnetList, EndList, Creating, WithRecord
  <2>4. ASSUME req' = [req EXCEPT ![c].pc = "nextSubnet", ![c].todo = Keys] PROVE ListHand(req[c])'
    <3>1. req'[c].pc = "nextSubnet" /\ req'[c].todo = Keys
      BY <1>0, <2>4 DEF Requests
    <3> QED
      BY <2>2, <3>1 DEF ListHand, CreateList, MakeList, SubnetList, EndList, Creating, WithRecord
  <2> QED
    BY <2>1, <2>3, <2>4
<1>7. ASSUME DropSubnets(c) PROVE ListHand(req[c])'
  <2>1. subnets' = [s \in Subnets |-> None] /\ GoTo(c, "dropVNet")
    BY <1>0, <1>7 DEF DropSubnets
  <2>2. Keys' = {}
    BY <2>1 DEF Keys
  <2>3. req'[c].pc = "dropVNet"
    BY <1>0, <2>1, AtLabel
  <2> QED
    BY <1>2, <2>2, <2>3 DEF EndList
<1>8. ASSUME DropVNet(c) PROVE ListHand(req[c])'
  <2>1. Keys = {} /\ vnet' = None /\ Return(c) /\ subnets' = subnets
    BY <1>0, <1>1, <1>8 DEF DropVNet, EndList
  <2>2. Resting'
    BY <2>1 DEF Resting, Keys
  <2> QED
    BY <1>0, <2>1, <2>2, Ends
<1> QED
  BY <1>3, <1>4, <1>5, <1>6, <1>7, <1>8 DEF EndStep


LEMMA ListStart ==
    ASSUME NEW c \in Clients, RestType, Hands, Resting, StartStep(c)
    PROVE  ListHand(req[c])'
<1>0. \A q : Start(c, q) => req'[c] = q
  BY DEF Start, Hands
<1>1. UNCHANGED <<vnet, subnets, attached>>
  BY DEF StartStep, CheckVNet, CheckSubnet, AskDeleteVNet, AskSubnet, AskRefineVNet, ReadForVm, Start
<1>2. Keys' = Keys /\ Resting' /\ \A v, list : Listed(v, list)' <=> Listed(v, list)
  BY <1>1, Stands
<1>3. ASSUME req'[c].pc \in {"nextSubnet", "getVNet"},
             req'[c].pc = "nextSubnet" /\ req'[c].kind = "DeleteVNet" => req'[c].todo = Keys
      PROVE  ListHand(req[c])'
  BY <1>2, <1>3 DEF ListHand, CreateList, MakeList, SubnetList, EndList, Creating, WithRecord
<1>4. ASSUME CheckVNet(c) PROVE ListHand(req[c])'
  <2>1. PICK uid \in Fresh, list \in SUBSET Subnets, kind \in {"CreateVNet", "RegisterVNet"} :
           Start(c, [Idle EXCEPT !.pc = "putVNet", !.kind = kind, !.uid = uid,
                !.v = [status |-> "Configuring", name |-> NoName, list |-> list, vms |-> {}]])
    BY <1>4 DEF CheckVNet
  <2> DEFINE v == [status |-> "Configuring", name |-> NoName, list |-> list, vms |-> {}]
             q == [Idle EXCEPT !.pc = "putVNet", !.kind = kind, !.uid = uid, !.v = v]
  <2>2. q.pc = "putVNet" /\ q.v = v /\ v.vms = {}
    BY DEF Idle
  <2>3. req'[c] = q
    BY <1>0, <2>1
  <2>4. vnet' = None /\ Keys' = {}
    BY <1>1, <1>2, <1>4 DEF CheckVNet, Resting
  <2> HIDE DEF q, v
  <2> QED
    BY <2>2, <2>3, <2>4 DEF ListHand, CreateList, MakeList, SubnetList, EndList, Creating, WithRecord
<1>5. ASSUME CheckSubnet(c) PROVE ListHand(req[c])'
  <2>1. PICK s \in Subnets \ Keys, uid \in Fresh :
           Start(c, [Idle EXCEPT !.pc = "putSubnet", !.kind = "CreateSubnet", !.on = s,
                !.uid = uid, !.v = vnet,
                !.sub = [id |-> s, status |-> "Configuring", name |-> NoName, vpc |-> vnet.name]])
    BY <1>5 DEF CheckSubnet
  <2> DEFINE sub == [id |-> s, status |-> "Configuring", name |-> NoName, vpc |-> vnet.name]
             q == [Idle EXCEPT !.pc = "putSubnet", !.kind = "CreateSubnet", !.on = s, !.uid = uid,
                               !.v = vnet, !.sub = sub]
  <2>2. q.pc = "putSubnet" /\ q.v = vnet /\ q.on = s
    BY DEF Idle
  <2>3. req'[c] = q
    BY <1>0, <2>1
  <2> HIDE DEF q, sub
  <2>4. vnet # None /\ vnet' = vnet /\ vnet.list = Keys /\ vnet.vms = attached /\ attached' = attached
    BY <1>1, <1>5 DEF CheckSubnet, Resting
  <2>5. Listed(req[c].v, Keys)'
    BY <1>2, <2>2, <2>3, <2>4 DEF Listed
  <2>6. req'[c].pc = "putSubnet" /\ req'[c].on \notin Keys'
    BY <1>2, <2>2, <2>3
  <2> QED
    BY <2>5, <2>6 DEF ListHand, CreateList, MakeList, SubnetList, EndList, Creating, WithRecord
<1>6. ASSUME AskDeleteVNet(c) PROVE ListHand(req[c])'
  BY <1>0, <1>3, <1>6 DEF AskDeleteVNet, Idle
<1>7. ASSUME AskSubnet(c) PROVE ListHand(req[c])'
  BY <1>0, <1>3, <1>7 DEF AskSubnet, Idle
<1>8. ASSUME AskRefineVNet(c) PROVE ListHand(req[c])'
  BY <1>0, <1>3, <1>8 DEF AskRefineVNet, Idle
<1>9. ASSUME ReadForVm(c) PROVE ListHand(req[c])'
  <2>1. vnet \in VNetRecord /\ vnet # None /\ vnet.list = Keys /\ vnet.vms = attached
    BY <1>9 DEF ReadForVm, RestType, Resting
  <2>2. PICK m \in Vms :
           Start(c, [Idle EXCEPT !.pc = "putVms", !.kind = "Associate", !.on = m,
             !.v = [vnet EXCEPT !.vms = IF m \in @ THEN @ \ {m} ELSE @ \cup {m}]])
    BY <1>9 DEF ReadForVm
  <2> DEFINE v == [vnet EXCEPT !.vms = IF m \in @ THEN @ \ {m} ELSE @ \cup {m}]
             q == [Idle EXCEPT !.pc = "putVms", !.kind = "Associate", !.on = m, !.v = v]
  <2>3. v.list = Keys /\ v.vms = Entered(m, attached)
    BY <2>1 DEF VNetRecord, Entered
  <2>4. q.pc = "putVms" /\ q.v = v /\ q.on = m
    BY DEF Idle
  <2>5. req'[c] = q
    BY <1>0, <2>2
  <2> HIDE DEF q, v
  <2>6. MakeList(req[c])'
    BY <1>1, <1>2, <2>1, <2>3, <2>4, <2>5 DEF MakeList
  <2> QED
    BY <2>4, <2>5, <2>6 DEF ListHand, CreateList, SubnetList, EndList, Creating, WithRecord
<1> QED
  BY <1>4, <1>5, <1>6, <1>7, <1>8, <1>9 DEF StartStep

LEMMA OnlyOne ==
    ASSUME OneByOne, NEW c \in Clients, req[c] # Idle \/ Alone(c), Stays(c)
    PROVE  OneByOne' /\ Alone(c)'
<1>1. Alone(c)
  BY DEF OneByOne
<1>2. Alone(c)'
  BY <1>1 DEF Alone, Stays
<1> QED
  BY <1>2 DEF Alone, OneByOne

\* What one request leaves, when the others are idle, is the whole invariant.
LEMMA OneHand ==
    ASSUME NEW c \in Clients, OneByOne', Alone(c)', ListHand(req[c])'
    PROVE  ListInv'
<1>1. \A d \in Clients : req'[d] # Idle => ListHand(req[d])'
  BY DEF Alone
<1>2. req'[c] = Idle => Resting'
  BY DEF Idle, ListHand, EndList
<1> QED
  BY <1>1, <1>2 DEF ListInv

LEMMA LonePast == RestType /\ [Next]_vars /\ Lone' => Lone /\ faults' = faults
<1> SUFFICES ASSUME RestType, [Next]_vars, Lone' PROVE Lone /\ faults' = faults
  OBVIOUS
<1>0. overlapped \in BOOLEAN
  BY DEF RestType
<1>1. ~Fault
  BY FaultAssumption DEF RestType, Fault, Lone
<1>3. ASSUME NEW c \in Clients, StartStep(c) PROVE faults' = faults /\ overlapped = FALSE
  <2>1. \A q : Start(c, q) => faults' = faults /\ overlapped = FALSE
    BY <1>0 DEF Start, Lone
  <2>2. \E q : Start(c, q)
    BY <1>3 DEF StartStep, CheckVNet, CheckSubnet, AskDeleteVNet, AskSubnet, AskRefineVNet, ReadForVm
  <2> QED
    BY <2>1, <2>2
<1>4. ASSUME NEW c \in Clients, CreateStep(c) PROVE faults' = faults /\ overlapped = FALSE
  BY <1>0, <1>1, <1>4 DEF CreateStep, PutVNet, PostVNet, CleanVNet, SaveVNet, SaveSubnets, Lone, NoFault
<1>5. ASSUME NEW c \in Clients, MakeStep(c) PROVE faults' = faults /\ overlapped = FALSE
  <2>1. PutSubnet(c) \/ PostSubnet(c) \/ CleanSubnet(c) => faults' = faults /\ overlapped = FALSE
    <3>1. PostSubnet(c) => NoFault /\ overlapped = FALSE
      BY <1>0, <1>1 DEF PostSubnet, Lone
    <3> QED
      BY <1>0, <1>1, <3>1 DEF PutSubnet, CleanSubnet, Lone, NoFault
  <2>2. SaveSubnet(c) \/ AddToVNet(c) \/ PutVms(c) => faults' = faults /\ overlapped = FALSE
    BY <1>0, <1>1 DEF SaveSubnet, AddToVNet, PutVms, Lone, NoFault
  <2> QED
    BY <1>5, <2>1, <2>2 DEF MakeStep
<1>6. ASSUME NEW c \in Clients, SubnetStep(c) PROVE faults' = faults /\ overlapped = FALSE
  BY <1>0, <1>1, <1>6 DEF SubnetStep, ReadSubnet, NoMoreSubnets, MarkSubnet, DeletePart, GetSubnet, DropSubnet,
                    RemoveFromVNet, Lone, NoFault, history
<1>7. ASSUME NEW c \in Clients, EndStep(c) PROVE faults' = faults /\ overlapped = FALSE
  BY <1>0, <1>1, <1>7 DEF EndStep, ReadVNet, MarkVNet, DeleteVpc, GetVNet, DropSubnets, DropVNet, Lone, NoFault, history
<1>8. CASE UNCHANGED vars
  BY <1>0, <1>8 DEF vars, history, Lone
<1>9. ~Crash
  BY <1>1 DEF Crash
<1> QED
  BY <1>0, <1>3, <1>4, <1>5, <1>6, <1>7, <1>8, <1>9, AnyStep DEF Lone

LEMMA ListNext == RestType /\ Hands /\ RestType' /\ Hands' /\ ListInv /\ [Next]_vars => ListInv'
<1> SUFFICES ASSUME RestType, Hands, RestType', Hands', ListInv, [Next]_vars, Lone' PROVE ListInv'
  BY DEF ListInv
<1>1. Lone /\ faults' = faults
  BY LonePast
<1>2. /\ OneByOne /\ \A c \in Clients : req[c] # Idle => ListHand(req[c])
      /\ (\A c \in Clients : req[c] = Idle) => Resting
  BY <1>1 DEF ListInv
<1>3. CASE UNCHANGED vars
  <2>1. UNCHANGED <<vnet, subnets, attached, req, faults, overlapped>>
    BY <1>3 DEF vars, history
  <2>2. Keys' = Keys /\ (Resting' <=> Resting) /\ \A v, list : Listed(v, list)' <=> Listed(v, list)
    BY <2>1, Stands
  <2>3. \A c \in Clients : ListHand(req[c]) => ListHand(req[c])'
    BY <2>1, <2>2 DEF ListHand, CreateList, MakeList, SubnetList, EndList
  <2>4. OneByOne'
    BY <1>2, <2>1 DEF OneByOne, Alone
  <2> QED
    BY <1>2, <2>1, <2>2, <2>3, <2>4 DEF ListInv
<1>4. ASSUME NEW c \in Clients, StartStep(c) PROVE ListInv'
  <2>1. (\E q : Start(c, q)) /\ Stays(c) /\ req[c] = Idle
    BY <1>4, OneStarts
  <2>2. Alone(c)
    BY <2>1 DEF Start, Lone, Alone
  <2>3. Resting
    BY <1>2, <2>1, <2>2 DEF Alone
  <2>4. OneByOne' /\ Alone(c)'
    BY <1>2, <2>1, <2>2, OnlyOne
  <2>5. ListHand(req[c])'
    BY <1>4, <2>3, ListStart
  <2> QED
    BY <2>4, <2>5, OneHand
<1>5. ASSUME NEW c \in Clients, CreateStep(c) \/ MakeStep(c) \/ SubnetStep(c) \/ EndStep(c) PROVE ListInv'
  <2>1. Stays(c) /\ req[c] # Idle
    BY <1>5, Proceeds DEF GoesOn
  <2>2. ListBefore(c)
    BY <1>1, <1>2, <2>1 DEF ListBefore
  <2>3. ListHand(req[c])'
    BY <1>5, <2>2, ListCreate, ListMake, ListSubnet, ListEnd
  <2>4. OneByOne' /\ Alone(c)'
    BY <1>2, <2>1, OnlyOne
  <2> QED
    BY <2>3, <2>4, OneHand
<1>6. ~Crash
  BY <1>1, NotFault DEF Crash
<1> QED
  BY <1>3, <1>4, <1>5, <1>6, AnyStep

LEMMA ListInit == Init => ListInv
BY DEF Init, ListInv, OneByOne, Alone, Resting, Keys

\* At rest the list in the vNet's record is that of the subnets' records, and its
\* VMs are those entered with it, as long as no two requests overlapped and
\* nothing failed but with Spider: each way through CreateVNet, RegisterVNet,
\* CreateSubnet and the deletions and refinements leaves the two in agreement, the
\* ones that Spider refuses in the middle as well (vnet.go:720, subnet.go:405, 815,
\* 1000).
THEOREM ListAgrees == Spec => []ListIsRight
<1>1. ListInv => ListIsRight
  BY DEF ListInv, Lone, ListIsRight, Resting
<1>2. RestType /\ Hands /\ (RestType /\ Hands)' /\ ListInv /\ [Next]_vars => ListInv'
  BY ListNext
<1> QED
  BY <1>1, <1>2, Typed, ListInit, PTL DEF Spec
=============================================================================
