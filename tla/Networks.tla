------------------------------- MODULE Networks -------------------------------
(***************************************************************************)
(* One vNet and its subnets (core/resource/vnet.go, subnet.go).            *)
(*                                                                         *)
(* The vNet has a record in the store, each subnet has one under the       *)
(* vNet's key, and the vNet's record has a list of the subnets besides.    *)
(* CB-Spider keeps the networks themselves, under names generated per      *)
(* request.  A request writes its intention to the records, asks Spider,   *)
(* which takes seconds, and writes the outcome; the record of the vNet is  *)
(* then put back as it was read at the start, but for the subnet of the    *)
(* request.  No lock is taken: requests of clients overlap as they come,   *)
(* and creations of VMs write the vNet's record too.                       *)
(***************************************************************************)
EXTENDS Naturals

CONSTANTS
    Clients,  \* requests that can be under way at once
    Subnets,  \* ids of subnets, each with its address range
    Vms,      \* VMs that use the vNet
    Uids,     \* names Spider knows the networks by
    NoName,   \* the empty CspResourceName
    None,     \* no record, or no copy of one
    MayClash, \* requests about the same thing may overlap, as the code lets them
    MaxFaults \* bound on failing store calls, lost answers and crashes

ASSUME FaultAssumption == MaxFaults \in Nat /\ MayClash \in BOOLEAN

VARIABLES
    vnet,    \* the record of the vNet
    subnets, \* the records of its subnets
    vpcs,    \* Spider: the vNets there are
    parts,   \* Spider: the subnets there are, and the vNet each is in
    req,     \* what each request is at, and its local copies
    faults,
    attached, \* history: the VMs whose creation entered them with the vNet
    lost,    \* history: networks whose name a fault kept from the records
    overlapped \* history: two requests overlapped

spider == <<vpcs, parts>>
history == <<attached, lost, overlapped>>
vars == <<vnet, subnets, spider, req, faults, history>>

\* A subnet is named after the request that made it; a vNet makes several.
PartNames == Subnets \X Uids
Names == Uids \cup PartNames
VNetRecord == [status : {"Configuring", "Available", "InUse", "Deleting"},
               name : Uids \cup {NoName}, list : SUBSET Subnets, vms : SUBSET Vms]
SubnetRecord == [id : Subnets, status : {"Configuring", "Available", "Deleting"},
                 name : PartNames \cup {NoName}, vpc : Uids \cup {NoName}]

\* The names of vNets and of subnets differ, and neither is empty.
ASSUME NameAssumption ==
    /\ NoName \notin Names /\ Uids \cap PartNames = {}
    /\ None \notin VNetRecord /\ None \notin SubnetRecord

WholeKinds == {"CreateVNet", "RegisterVNet", "DeleteVNet", "RefineVNet"}
Kinds == WholeKinds \cup {"CreateSubnet", "DeleteSubnet", "RefineSubnet", "Associate"}
Labels == {"idle", "putVNet", "postVNet", "cleanVNet", "saveVNet", "saveSubnets",
           "putSubnet", "postSubnet", "cleanSubnet", "saveSubnet", "addToVNet",
           "nextSubnet", "markSubnet", "deletePart", "dropSubnet", "removeFromVNet",
           "getSubnet", "readVNet", "markVNet", "deleteVpc", "dropVNet",
           "getVNet", "dropSubnets", "putVms"}

Idle == [pc |-> "idle", kind |-> "none", on |-> None, force |-> FALSE, todo |-> {},
         uid |-> NoName, v |-> None, sub |-> None]

Init ==
    /\ vnet = None /\ subnets = [s \in Subnets |-> None]
    /\ vpcs = {} /\ parts = {}
    /\ req = [c \in Clients |-> Idle]
    /\ faults = 0
    /\ attached = {} /\ lost = {} /\ overlapped = FALSE

Keys == {s \in Subnets : subnets[s] # None}

Named(uid, list) == {<<s, uid>> : s \in list}
Recorded == (IF vnet = None THEN {} ELSE {vnet.name}) \cup {subnets[s].name : s \in Keys}

\* A name no network, record or request has; GenUid never gives one twice.
UsedNames ==
    vpcs \cup Recorded \cup {p.name : p \in parts} \cup {subnets[s].vpc : s \in Keys}
    \cup UNION {{req[c].uid} \cup (IF req[c].v = None THEN {} ELSE {req[c].v.name}) : c \in Clients}
Fresh == {uid \in Uids : ({uid} \cup Named(uid, Subnets)) \cap UsedNames = {}}

\* A store call that fails, an answer of Spider that is lost, or a crash.
Fault == faults < MaxFaults /\ faults' = faults + 1
NoFault == UNCHANGED faults

GoTo(c, label) == req' = [req EXCEPT ![c].pc = label]
Return(c) == req' = [req EXCEPT ![c] = Idle]

\* Requests clash if they are about the same subnet or VM, or one is about the
\* whole vNet.
Clash(r, q) == r.kind \in WholeKinds \/ q.kind \in WholeKinds \/ r.on = q.on

Start(c, r) ==
    /\ req[c] = Idle
    /\ LET others == {d \in Clients \ {c} : req[d] # Idle}
       IN  /\ MayClash \/ \A d \in others : ~Clash(r, req[d])
           /\ overlapped' = (overlapped \/ others # {})
    /\ req' = [req EXCEPT ![c] = r]
    /\ UNCHANGED <<vnet, subnets, spider, faults, attached, lost>>

-----------------------------------------------------------------------------
(* CreateVNet; RegisterVNet, which learns the subnets from the answer and      *)
(* writes their records first.                                                 *)

StatusUnknown(list) == IF list = {} THEN "Unknown" ELSE "InUse"
StatusOf(list) == IF list = {} THEN "Available" ELSE "InUse"

CheckVNet(c) ==
    /\ vnet = None
    /\ \E uid \in Fresh, list \in SUBSET Subnets, kind \in {"CreateVNet", "RegisterVNet"} :
        /\ kind = "RegisterVNet" => list = {}
        /\ Start(c, [Idle EXCEPT !.pc = "putVNet", !.kind = kind, !.uid = uid,
                !.v = [status |-> "Configuring", name |-> NoName, list |-> list, vms |-> {}]])

PutVNet(c) ==
    /\ req[c].pc = "putVNet"
    /\ \/ vnet' = req[c].v /\ attached' = {} /\ GoTo(c, "postVNet") /\ NoFault
       \/ Fault /\ Return(c) /\ UNCHANGED <<vnet, attached>>
    /\ UNCHANGED <<subnets, spider, lost, overlapped>>

PostVNet(c) ==
    /\ req[c].pc = "postVNet"
    /\ LET r == req[c]
           Makes(list) ==
               /\ vpcs' = vpcs \cup {r.uid}
               /\ parts' = parts \cup [vpc : {r.uid}, name : Named(r.uid, list)]
           lists == IF r.kind = "RegisterVNet" THEN SUBSET Subnets ELSE {r.v.list}
       IN  \/ \E list \in lists :
               /\ Makes(list)
               /\ req' = [req EXCEPT ![c].v = [@ EXCEPT !.status = StatusOf(list),
                                                        !.name = r.uid, !.list = list],
                                     ![c].todo = list,
                                     ![c].pc = IF r.kind = "CreateVNet" THEN "saveVNet"
                                                                       ELSE "saveSubnets"]
               /\ NoFault /\ UNCHANGED lost
           \/ GoTo(c, "cleanVNet") /\ NoFault /\ UNCHANGED <<spider, lost>>
           \/ \E list \in lists :
               /\ Makes(list) /\ Fault
               /\ lost' = lost \cup {r.uid} \cup Named(r.uid, list)
               /\ GoTo(c, "cleanVNet")
    /\ UNCHANGED <<vnet, subnets, attached, overlapped>>

\* The deferred clean-up; a key it can not delete stays.
CleanVNet(c) ==
    /\ req[c].pc = "cleanVNet"
    /\ subnets' = [s \in Subnets |-> IF s \in req[c].v.list THEN None ELSE subnets[s]]
    /\ \/ vnet' = None /\ NoFault
       \/ Fault /\ UNCHANGED vnet
    /\ Return(c)
    /\ UNCHANGED <<spider, attached, lost, overlapped>>

SaveVNet(c) ==
    /\ req[c].pc = "saveVNet"
    /\ \/ /\ vnet' = req[c].v
          /\ IF req[c].kind = "CreateVNet" THEN GoTo(c, "saveSubnets") ELSE Return(c)
          /\ NoFault /\ UNCHANGED lost
       \/ /\ Fault
          /\ lost' = lost \cup {req[c].uid} \cup
                         IF req[c].kind = "CreateVNet" THEN Named(req[c].uid, req[c].todo) ELSE {}
          /\ Return(c) /\ UNCHANGED vnet
    /\ UNCHANGED <<subnets, spider, attached, overlapped>>

SaveSubnets(c) ==
    /\ req[c].pc = "saveSubnets"
    /\ LET r == req[c] IN
        \/ \E s \in r.todo :
            /\ \/ /\ subnets' = [subnets EXCEPT ![s] = [id |-> s, status |-> "Available",
                                                        name |-> <<s, r.uid>>, vpc |-> r.uid]]
                  /\ req' = [req EXCEPT ![c].todo = @ \ {s}]
                  /\ NoFault /\ UNCHANGED lost
               \/ /\ Fault
                  /\ lost' = lost \cup Named(r.uid, r.todo) \cup
                                 IF r.kind = "RegisterVNet" THEN {r.uid} ELSE {}
                  /\ Return(c) /\ UNCHANGED subnets
        \/ /\ r.todo = {}
           /\ IF r.kind = "CreateVNet" THEN Return(c) ELSE GoTo(c, "saveVNet")
           /\ NoFault /\ UNCHANGED <<subnets, lost>>
    /\ UNCHANGED <<vnet, spider, attached, overlapped>>

-----------------------------------------------------------------------------
(* CreateSubnet; RegisterSubnet, which does not compare the address range with *)
(* those in the list.                                                          *)

CheckSubnet(c) ==
    /\ vnet # None
    /\ \E s \in Subnets \ Keys, uid \in Fresh, registers \in BOOLEAN :
        /\ registers \/ (vnet.name # NoName /\ s \notin vnet.list)
        /\ Start(c, [Idle EXCEPT !.pc = "putSubnet", !.kind = "CreateSubnet", !.on = s,
                !.uid = uid, !.v = vnet,
                !.sub = [id |-> s, status |-> "Configuring", name |-> NoName, vpc |-> vnet.name]])

PutSubnet(c) ==
    /\ req[c].pc = "putSubnet"
    /\ \/ /\ subnets' = [subnets EXCEPT ![req[c].on] = req[c].sub]
          /\ GoTo(c, "postSubnet") /\ NoFault
       \/ Fault /\ Return(c) /\ UNCHANGED subnets
    /\ UNCHANGED <<vnet, spider, attached, lost, overlapped>>

PostSubnet(c) ==
    /\ req[c].pc = "postSubnet"
    /\ LET r == req[c]
           name == <<r.on, r.uid>>
           Makes == r.sub.vpc \in vpcs /\ parts' = parts \cup {[vpc |-> r.sub.vpc, name |-> name]}
       IN  \/ /\ Makes
              /\ req' = [req EXCEPT ![c].sub = [@ EXCEPT !.status = "Available", !.name = name],
                                    ![c].pc = "saveSubnet"]
              /\ NoFault /\ UNCHANGED lost
           \/ GoTo(c, "cleanSubnet") /\ NoFault /\ UNCHANGED <<parts, lost>>
           \/ /\ Makes /\ Fault
              /\ lost' = lost \cup {name}
              /\ GoTo(c, "cleanSubnet")
    /\ UNCHANGED <<vnet, subnets, vpcs, attached, overlapped>>

CleanSubnet(c) ==
    /\ req[c].pc = "cleanSubnet"
    /\ \/ subnets' = [subnets EXCEPT ![req[c].on] = None] /\ NoFault
       \/ Fault /\ UNCHANGED subnets
    /\ Return(c)
    /\ UNCHANGED <<vnet, spider, attached, lost, overlapped>>

SaveSubnet(c) ==
    /\ req[c].pc = "saveSubnet"
    /\ \/ /\ subnets' = [subnets EXCEPT ![req[c].on] = req[c].sub]
          /\ GoTo(c, "addToVNet") /\ NoFault /\ UNCHANGED lost
       \/ /\ Fault
          /\ lost' = lost \cup {req[c].sub.name}
          /\ Return(c) /\ UNCHANGED subnets
    /\ UNCHANGED <<vnet, spider, attached, overlapped>>

\* The record of the vNet as it was before Spider was asked, and the subnet.
AddToVNet(c) ==
    /\ req[c].pc = "addToVNet"
    /\ \/ /\ vnet' = [req[c].v EXCEPT !.list = @ \cup {req[c].on}, !.status = "InUse"]
          /\ NoFault
       \/ Fault /\ UNCHANGED vnet
    /\ Return(c)
    /\ UNCHANGED <<subnets, spider, attached, lost, overlapped>>

-----------------------------------------------------------------------------
(* DeleteVNet and DeregisterVNet, DeleteSubnet and DeregisterSubnet, RefineVNet *)
(* and RefineSubnet: the subnets in todo one by one, then the vNet.             *)

Refines(c) == req[c].kind \in {"RefineVNet", "RefineSubnet"}

AskDeleteVNet(c) ==
    \E withSubnets \in BOOLEAN, force \in BOOLEAN :
        /\ force => withSubnets
        /\ ~withSubnets => Keys = {}
        /\ Start(c, [Idle EXCEPT !.pc = "nextSubnet", !.kind = "DeleteVNet", !.force = force,
                                 !.todo = Keys])

AskSubnet(c) ==
    \E s \in Subnets, kind \in {"DeleteSubnet", "RefineSubnet"} :
        Start(c, [Idle EXCEPT !.pc = "nextSubnet", !.kind = kind, !.on = s, !.todo = {s}])

AskRefineVNet(c) ==
    /\ vnet # None
    /\ Start(c, [Idle EXCEPT !.pc = "getVNet", !.kind = "RefineVNet", !.v = vnet])

\* An error with one subnet: RefineVNet logs it and goes on to the next.
SubnetFails(c) ==
    IF req[c].kind = "RefineVNet"
    THEN req' = [req EXCEPT ![c].pc = "nextSubnet", ![c].todo = @ \ {req[c].sub.id}]
    ELSE Return(c)

\* The subnet is done with.
SubnetDone(c) ==
    req' = [req EXCEPT ![c].pc = "nextSubnet", ![c].todo = @ \ {req[c].sub.id}]

\* Reads both records; without one of them nothing is done.
ReadSubnet(c) ==
    /\ req[c].pc = "nextSubnet"
    /\ \E s \in req[c].todo :
        IF vnet # None /\ subnets[s] # None
        THEN req' = [req EXCEPT ![c].v = vnet, ![c].sub = subnets[s],
                                ![c].pc = IF Refines(c) THEN "getSubnet" ELSE "markSubnet"]
        ELSE IF req[c].kind = "RefineVNet" THEN req' = [req EXCEPT ![c].todo = @ \ {s}]
                                           ELSE Return(c)
    /\ UNCHANGED <<vnet, subnets, spider, faults, history>>

NoMoreSubnets(c) ==
    /\ req[c].pc = "nextSubnet" /\ req[c].todo = {}
    /\ IF req[c].kind = "DeleteVNet" THEN GoTo(c, "readVNet") ELSE Return(c)
    /\ UNCHANGED <<vnet, subnets, spider, faults, history>>

Unmarked(sub) == sub
Marked(sub) == [sub EXCEPT !.status = "Deleting"]

\* Refused while VMs use the subnet; any may.
MarkSubnet(c) ==
    /\ req[c].pc = "markSubnet"
    /\ LET sub == Marked(req[c].sub)
       IN  \/ /\ subnets' = [subnets EXCEPT ![sub.id] = sub]
              /\ GoTo(c, "deletePart") /\ NoFault
           \/ Fault /\ Return(c) /\ UNCHANGED subnets
           \/ ~req[c].force /\ Return(c) /\ NoFault /\ UNCHANGED subnets
    /\ UNCHANGED <<vnet, spider, attached, lost, overlapped>>

InSpider(sub) == {p \in parts : p.vpc = sub.vpc /\ p.name = sub.name}

DropAnyway(c) == GoTo(c, "dropSubnet")
NotDeleted(c) == Return(c)

DeletePart(c) ==
    /\ req[c].pc = "deletePart"
    /\ LET found == InSpider(req[c].sub)
           Removes == found # {} /\ parts' = parts \ found
                                 /\ lost' = lost \ {p.name : p \in found}
       IN  \/ Removes /\ GoTo(c, "dropSubnet") /\ NoFault
           \/ NotDeleted(c) /\ NoFault /\ UNCHANGED <<parts, lost>>
           \/ Removes /\ Fault /\ NotDeleted(c)
    /\ UNCHANGED <<vnet, subnets, vpcs, attached, overlapped>>

\* RefineSubnet takes any failure to get the subnet for its absence.
GetSubnet(c) ==
    /\ req[c].pc = "getSubnet"
    /\ LET found == InSpider(req[c].sub)
       IN  \/ found # {} /\ SubnetFails(c) /\ NoFault /\ UNCHANGED lost
           \/ found = {} /\ GoTo(c, "dropSubnet") /\ NoFault /\ UNCHANGED lost
           \/ /\ found # {} /\ Fault
              /\ lost' = lost \cup {p.name : p \in found}
              /\ GoTo(c, "dropSubnet")
    /\ UNCHANGED <<vnet, subnets, spider, attached, overlapped>>

DropSubnet(c) ==
    /\ req[c].pc = "dropSubnet"
    /\ \/ /\ subnets' = [subnets EXCEPT ![req[c].sub.id] = None]
          /\ GoTo(c, "removeFromVNet") /\ NoFault
       \/ /\ Fault
          /\ IF Refines(c) THEN GoTo(c, "removeFromVNet") ELSE Return(c)
          /\ UNCHANGED subnets
    /\ UNCHANGED <<vnet, spider, attached, lost, overlapped>>

KeepInList(list, s) == list
Without(list, s) == list \ {s}

\* The record as it was read before Spider was asked, without the subnet.
RemoveFromVNet(c) ==
    /\ req[c].pc = "removeFromVNet"
    /\ LET v == req[c].v
           list == Without(v.list, req[c].sub.id)
       IN  \/ /\ vnet' = [v EXCEPT !.list = list,
                                   !.status = IF list = {} THEN "Available" ELSE @]
              /\ SubnetDone(c) /\ NoFault
           \/ /\ Fault
              /\ IF Refines(c) THEN SubnetDone(c) ELSE Return(c)
              /\ UNCHANGED vnet
    /\ UNCHANGED <<subnets, spider, attached, lost, overlapped>>

ReadVNet(c) ==
    /\ req[c].pc = "readVNet"
    /\ IF vnet = None THEN Return(c)
       ELSE req' = [req EXCEPT ![c].v = vnet, ![c].sub = None, ![c].pc = "markVNet"]
    /\ UNCHANGED <<vnet, subnets, spider, faults, history>>

MarkVNet(c) ==
    /\ req[c].pc = "markVNet"
    /\ \/ /\ vnet' = [req[c].v EXCEPT !.status = "Deleting"]
          /\ GoTo(c, "deleteVpc") /\ NoFault
       \/ Fault /\ Return(c) /\ UNCHANGED vnet
    /\ UNCHANGED <<subnets, spider, attached, lost, overlapped>>

\* Both trials.  Spider refuses for a vNet with subnets, unless it is forced.
DeleteVpc(c) ==
    /\ req[c].pc = "deleteVpc"
    /\ LET name == req[c].v.name
           inside == {p \in parts : p.vpc = name}
           Removes ==
               /\ name \in vpcs /\ (inside = {} \/ req[c].force)
               /\ vpcs' = vpcs \ {name} /\ parts' = parts \ inside
               /\ lost' = (lost \ {name}) \ {p.name : p \in inside}
       IN  \/ Removes /\ GoTo(c, "dropVNet") /\ NoFault
           \/ Return(c) /\ NoFault /\ UNCHANGED <<spider, lost>>
           \/ Removes /\ Fault /\ Return(c)
    /\ UNCHANGED <<vnet, subnets, attached, overlapped>>

\* RefineVNet: what Spider has is refined subnet by subnet; any failure to get it
\* is taken for its absence, and a record without a name can not be got.
GetVNet(c) ==
    /\ req[c].pc = "getVNet"
    /\ LET name == req[c].v.name
           below == {p.name : p \in UNION {InSpider(subnets[s]) : s \in Keys}}
       IN  \/ /\ name \in vpcs
              /\ req' = [req EXCEPT ![c].pc = "nextSubnet", ![c].todo = Keys]
              /\ NoFault /\ UNCHANGED lost
           \/ /\ name \notin vpcs /\ NoFault
              /\ lost' = IF name = NoName THEN lost \cup below ELSE lost
              /\ GoTo(c, "dropSubnets")
           \/ /\ name \in vpcs /\ Fault
              /\ lost' = lost \cup {name} \cup below
              /\ GoTo(c, "dropSubnets")
    /\ UNCHANGED <<vnet, subnets, spider, attached, overlapped>>

DropSubnets(c) ==
    /\ req[c].pc = "dropSubnets"
    /\ \/ subnets' = [s \in Subnets |-> None] /\ NoFault
       \/ Fault /\ \E s \in Keys : subnets' = [t \in Subnets |-> IF t = s THEN subnets[s] ELSE None]
    /\ GoTo(c, "dropVNet")
    /\ UNCHANGED <<vnet, spider, attached, lost, overlapped>>

DropVNet(c) ==
    /\ req[c].pc = "dropVNet"
    /\ \/ vnet' = None /\ NoFault
       \/ Fault /\ UNCHANGED vnet
    /\ Return(c)
    /\ UNCHANGED <<subnets, spider, attached, lost, overlapped>>

-----------------------------------------------------------------------------
(* UpdateAssociatedObjectList, called when a VM is created or deleted.         *)

ReadForVm(c) ==
    /\ vnet # None
    /\ \E m \in Vms :
        Start(c, [Idle EXCEPT !.pc = "putVms", !.kind = "Associate", !.on = m,
             !.v = [vnet EXCEPT !.vms = IF m \in @ THEN @ \ {m} ELSE @ \cup {m}]])

PutVms(c) ==
    /\ req[c].pc = "putVms"
    /\ LET r == req[c] IN
        \/ /\ vnet' = r.v
           /\ attached' = IF r.on \in r.v.vms THEN attached \cup {r.on} ELSE attached \ {r.on}
           /\ NoFault
        \/ Fault /\ UNCHANGED <<vnet, attached>>
    /\ Return(c)
    /\ UNCHANGED <<subnets, spider, lost, overlapped>>

-----------------------------------------------------------------------------

\* The names a request holds that are not in a record yet.
Unsaved(r) ==
    CASE r.pc = "saveVNet" -> {r.uid} \cup (IF r.kind = "CreateVNet" THEN Named(r.uid, r.todo) ELSE {})
      [] r.pc = "saveSubnets" -> Named(r.uid, r.todo) \cup (IF r.kind = "RegisterVNet" THEN {r.uid} ELSE {})
      [] r.pc = "saveSubnet" -> {r.sub.name}
      [] OTHER -> {}

\* The server stops and is started again.
Crash ==
    /\ Fault
    /\ \E c \in Clients : req[c] # Idle
    /\ lost' = lost \cup UNION {Unsaved(req[c]) : c \in Clients}
    /\ req' = [c \in Clients |-> Idle]
    /\ UNCHANGED <<vnet, subnets, spider, attached, overlapped>>

Create(c) ==
    \/ CheckVNet(c) \/ PutVNet(c) \/ PostVNet(c) \/ CleanVNet(c) \/ SaveVNet(c) \/ SaveSubnets(c)
    \/ CheckSubnet(c) \/ PutSubnet(c) \/ PostSubnet(c) \/ CleanSubnet(c) \/ SaveSubnet(c)
    \/ AddToVNet(c)

Delete(c) ==
    \/ AskDeleteVNet(c) \/ AskSubnet(c) \/ AskRefineVNet(c)
    \/ ReadSubnet(c) \/ NoMoreSubnets(c) \/ MarkSubnet(c) \/ DeletePart(c) \/ GetSubnet(c)
    \/ DropSubnet(c) \/ RemoveFromVNet(c) \/ ReadVNet(c) \/ MarkVNet(c) \/ DeleteVpc(c)
    \/ GetVNet(c) \/ DropSubnets(c) \/ DropVNet(c)

Next ==
    \/ \E c \in Clients : Create(c) \/ Delete(c) \/ ReadForVm(c) \/ PutVms(c)
    \/ Crash

Spec == Init /\ [][Next]_vars

-----------------------------------------------------------------------------
(* Properties.                                                                 *)

Requests == [pc : Labels, kind : Kinds \cup {"none"}, on : Subnets \cup Vms \cup {None},
             force : BOOLEAN, todo : SUBSET Subnets, uid : Uids \cup {NoName},
             v : VNetRecord \cup {None}, sub : SubnetRecord \cup {None}]

\* The types; a subnet's record is under its own key.
TypeOK ==
    /\ vnet \in VNetRecord \cup {None}
    /\ subnets \in [Subnets -> SubnetRecord \cup {None}] /\ \A s \in Keys : subnets[s].id = s
    /\ vpcs \subseteq Uids /\ parts \subseteq [vpc : Uids, name : PartNames]
    /\ req \in [Clients -> Requests]
    /\ faults \in 0..MaxFaults /\ attached \subseteq Vms /\ lost \subseteq Names
    /\ overlapped \in BOOLEAN

\* Every network that Spider keeps can be found by its record, or a request is
\* about to record it (vnet.go:676 to 760, subnet.go:363 to 420).  Whatever
\* requests about different subnets overlap, whatever they put back into the
\* vNet's record, and however deletions fail in the middle.  Excepted are the
\* names that a lost answer to a creation, a failing store after it, a crash
\* before it, or a refinement whose GET fails lost, and clashing requests, which the
\* code does not prevent.
NothingLost ==
    ~MayClash =>
        \A x \in vpcs \cup {p.name : p \in parts} :
            x \in Recorded \cup lost \cup UNION {Unsaved(req[c]) : c \in Clients}

\* A subnet that is Available, and a vNet that is InUse, are there, if their
\* requests do not clash (vnet.go:1035, subnet.go:722): a deletion that fails in
\* the middle, or whose answer is lost, leaves neither, nor does a stale copy.
UsableIsThere ==
    ~MayClash =>
        /\ \A s \in Keys : subnets[s].status = "Available" => InSpider(subnets[s]) # {}
        /\ vnet # None /\ vnet.status = "InUse" => vnet.name \in vpcs

\* At rest the list in the vNet's record is that of the subnets' own records, and
\* it has the VMs entered with it, if requests never overlapped and there was no
\* fault, whatever Spider refused (vnet.go:720, subnet.go:405, 815, 1000).
ListIsRight ==
    ~overlapped /\ faults = 0 /\ (\A c \in Clients : req[c] = Idle) /\ vnet # None =>
        vnet.list = Keys /\ vnet.vms = attached
=============================================================================
