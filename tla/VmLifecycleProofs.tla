------------------------- MODULE VmLifecycleProofs -------------------------
(* Theorems about VmLifecycle, for any number of goroutines and requests.  *)
EXTENDS VmLifecycle, TLAPS

\* What typing rests on besides the types: a controller under way has an
\* action, and CreateVm looks at a result only after FetchVmStatus gave one.
ActKnown == \A p \in Procs : pc[p] \in {"begin", "intent", "call"} => act[p] \in Controls
RetKnown == pc[Creator] = "crResult" => ret # "none"

TypeInv == TypeOK /\ ActKnown /\ RetKnown

-----------------------------------------------------------------------------
(* The operators on records. *)

LEMMA AnIpIsIp == AnIp \in IPs
BY ProcessAssumption DEF AnIp

LEMMA NewVmType == NewVm \in VmRecord /\ RunningVm \in VmRecord
BY AnIpIsIp DEF NewVm, RunningVm, VmRecord, Statuses, Stable, Transitional, Actions

LEMMA DuringType ==
    ASSUME NEW a \in Controls
    PROVE  /\ During(a) \in Transitional
           /\ During(a) \in CspStates
BY DEF During, Transitional, CspStates, Controls

LEMMA CorrectedType ==
    ASSUME NEW r \in VmRecord, NEW s \in Statuses
    PROVE  Corrected(r, s) \in Statuses
BY DEF Corrected, Statuses, Stable, Transitional, During, VmRecord

LEMMA RefreshedType ==
    ASSUME NEW r \in VmRecord, NEW s \in Statuses
    PROVE  Refreshed(r, s) \in VmRecord
BY CorrectedType DEF Refreshed, VmRecord, Actions

LEMMA IntentType ==
    ASSUME NEW r \in VmRecord, NEW a \in Controls
    PROVE  Intent(r, a) \in VmRecord
BY DuringType DEF Intent, VmRecord, Actions, Statuses

LEMMA ReportsType ==
    ASSUME NEW c \in CspStates
    PROVE  Reports(c) \subseteq Statuses
BY DEF Reports, CspStates, Statuses, Stable, Transitional

LEMMA CreatorIsProc == Creator \in Procs /\ Nobody \notin Procs
BY ProcessAssumption DEF Procs

-----------------------------------------------------------------------------
(* Typing holds initially and is preserved by every action. *)

LEMMA TypeInit == Init => TypeInv
<1> SUFFICES ASSUME Init PROVE TypeInv
  OBVIOUS
<1>1. StoreType
  BY NewVmType DEF Init, StoreType
<1>2. CspType
  BY AnIpIsIp DEF Init, CspType, CspStates, EmptyCache
<1>3. pc \in [Procs -> Labels] /\ act \in [Procs -> {"None"}] /\ mutex = Nobody
  BY DEF Init, Labels
<1>4. LocalType
  BY NewVmType DEF Init, LocalType, Nothing, Statuses, Stable
<1>5. CountType
  BY ScopeAssumption DEF Init, CountType
<1>6. ActKnown /\ RetKnown
  BY CreatorIsProc DEF Init, ActKnown, RetKnown
<1> QED
  BY <1>1, <1>2, <1>3, <1>4, <1>5, <1>6 DEF TypeInv, TypeOK, ControlType, MutexHeld

\* A step that moves one goroutine, and leaves store, CSP and counters typed.
LEMMA MoveType ==
    ASSUME TypeInv, NEW p \in Procs, NEW l \in Labels, pc' = [pc EXCEPT ![p] = l],
           mutex' = mutex, mutex # p,
           act' \in [Procs -> Controls \cup {"None"}],
           \A q \in Procs : q # p => act'[q] = act[q],
           l \in {"begin", "intent", "call"} => act'[p] \in Controls
    PROVE  ControlType' /\ MutexHeld' /\ ActKnown'
BY DEF TypeInv, TypeOK, ControlType, MutexHeld, ActKnown

LEMMA StatusNames ==
    /\ "none" \notin Statuses /\ "error" \notin Statuses
    /\ "Undefined" \in Statuses /\ "Failed" \in Statuses
    /\ \A c \in Controls : c # "None"
BY DEF Statuses, Stable, Transitional, Controls

\* Ending a goroutine, or going on, leaves its variables typed.
LEMMA EnterType ==
    ASSUME TypeInv, NEW p \in Procs, NEW l \in Labels, Enter(p, l),
           mutex' = mutex \/ mutex' = Nobody, mutex # p \/ mutex' = Nobody,
           l \in {"begin", "intent", "call"} => act[p] \in Controls
    PROVE  /\ ControlType' /\ MutexHeld' /\ ActKnown'
           /\ obj' \in [Procs -> VmRecord]
<1>1. pc \in [Procs -> Labels] /\ act \in [Procs -> Controls \cup {"None"}]
      /\ mutex \in Procs \cup {Nobody} /\ obj \in [Procs -> VmRecord]
  BY DEF TypeInv, TypeOK, ControlType, LocalType
<1>2. pc' = [pc EXCEPT ![p] = l]
  BY DEF Enter, Goto
<1>3. act' = act \/ (l = "idle" /\ act' = [act EXCEPT ![p] = "None"])
  BY DEF Enter
<1>4. ControlType'
  BY <1>1, <1>2, <1>3 DEF ControlType
<1>5. MutexHeld'
  BY <1>1, <1>2, CreatorIsProc DEF TypeInv, TypeOK, MutexHeld
<1>6. ActKnown'
  BY <1>1, <1>2, <1>3 DEF TypeInv, ActKnown
<1>7. obj' \in [Procs -> VmRecord]
  BY <1>1, NewVmType DEF Enter
<1> QED
  BY <1>4, <1>5, <1>6, <1>7

LEMMA FetchReturnType ==
    ASSUME TypeInv, NEW p \in Procs, NEW r \in Statuses \cup {"error"}, FetchReturn(p, r),
           UNCHANGED <<mutex, act, obj>>, pc[p] \notin SaveLabels
    PROVE  /\ ControlType' /\ MutexHeld' /\ ActKnown' /\ LocalType' /\ RetKnown'
<1>1. AfterFetch(p) \in Labels \ {"begin", "intent", "call"}
  BY DEF AfterFetch, Labels
<1>2. mutex # p
  BY CreatorIsProc DEF TypeInv, TypeOK, MutexHeld
<1>3. ControlType' /\ MutexHeld' /\ ActKnown'
  BY <1>1, <1>2, MoveType DEF FetchReturn, Goto, TypeInv, TypeOK, ControlType
<1>4. LocalType'
  <2>1. seen' \in [Procs -> [native : Statuses, named : BOOLEAN]]
    BY StatusNames DEF FetchReturn, TypeInv, TypeOK, LocalType, Nothing
  <2>2. want' \in [Procs -> VmRecord]
    BY NewVmType DEF FetchReturn, TypeInv, TypeOK, LocalType
  <2>3. ret' \in Statuses \cup {"none", "error"}
    BY DEF FetchReturn, Return, TypeInv, TypeOK, LocalType
  <2> QED
    BY <2>1, <2>2, <2>3 DEF LocalType, TypeInv, TypeOK
<1>5. RetKnown'
  BY StatusNames, CreatorIsProc DEF FetchReturn, Return, Goto, RetKnown, TypeInv, TypeOK, ControlType, AfterFetch
<1> QED
  BY <1>3, <1>4, <1>5

LEMMA AfterSaveLabel ==
    ASSUME TypeInv, NEW p \in Procs, pc[p] \in SaveLabels
    PROVE  /\ AfterSave(p) \in Labels
           /\ AfterSave(p) \in {"begin", "intent", "call"} => pc[p] = "intent"
           /\ AfterSave(p) = "crResult" => pc[p] = "fetchSave" /\ p = Creator
<1>1. AfterFetch(p) \in {"crResult", "after", "idle"} /\ (AfterFetch(p) = "crResult" => p = Creator)
  BY DEF AfterFetch
<1>2. CASE pc[p] \in {"crSave", "crEnd", "crFail"}
  BY <1>2 DEF AfterSave, Labels, FetchLabels
<1>3. CASE pc[p] = "intent"
  BY <1>3 DEF AfterSave, Labels
<1>4. CASE pc[p] = "fetchSave"
  BY <1>1, <1>4 DEF AfterSave, Labels
<1>5. CASE pc[p] \in {"invalid", "ipSave"}
  BY <1>5 DEF AfterSave, Labels
<1> QED
  BY <1>2, <1>3, <1>4, <1>5 DEF SaveLabels

LEMMA SavedType ==
    ASSUME TypeInv, NEW p \in Procs, pc[p] \in SaveLabels, Saved(p), UNCHANGED seen,
           mutex' = mutex \/ mutex' = Nobody, mutex # p \/ mutex' = Nobody
    PROVE  /\ ControlType' /\ MutexHeld' /\ ActKnown' /\ LocalType' /\ RetKnown'
<1>1. AfterSave(p) \in Labels
      /\ (AfterSave(p) \in {"begin", "intent", "call"} => act[p] \in Controls)
  BY AfterSaveLabel DEF TypeInv, ActKnown
<1>2. Enter(p, AfterSave(p))
  BY DEF Saved
<1>3. /\ ControlType' /\ MutexHeld' /\ ActKnown'
      /\ obj' \in [Procs -> VmRecord]
  BY <1>1, <1>2, EnterType
<1>4. want[p] \in VmRecord /\ want[p].status \in Statuses
  BY DEF TypeInv, TypeOK, LocalType, VmRecord
<1>5. ret' = ret \/ ret' = want[p].status
  BY DEF Saved, Return
<1>6. LocalType'
  BY <1>3, <1>4, <1>5, NewVmType DEF Saved, TypeInv, TypeOK, LocalType
<1>7. pc' = [pc EXCEPT ![p] = AfterSave(p)]
  BY <1>2 DEF Enter, Goto
<1>8. ASSUME pc'[Creator] = "crResult" PROVE ret' # "none"
  <2>1. CASE p = Creator
    <3>1. pc[p] = "fetchSave"
      BY <2>1, <1>7, <1>8, AfterSaveLabel DEF TypeInv, TypeOK, ControlType
    <3> QED
      BY <3>1, <2>1, <1>4, StatusNames DEF Saved, Return
  <2>2. CASE p # Creator
    <3>1. pc[Creator] = "crResult" /\ ret' = ret
      BY <2>2, <1>7, <1>8, CreatorIsProc DEF TypeInv, TypeOK, ControlType, Saved, Return
    <3> QED
      BY <3>1 DEF TypeInv, RetKnown
  <2> QED
    BY <2>1, <2>2
<1> QED
  BY <1>3, <1>6, <1>8 DEF RetKnown

LEMMA CheckType ==
    ASSUME TypeInv, NEW p \in Procs, UpdateVmInfoCheck(p)
    PROVE  TypeInv'
<1>1. StoreType' /\ CspType' /\ CountType'
  BY DEF UpdateVmInfoCheck, countVars, TypeInv, TypeOK, StoreType, CspType, CountType
<1>2. CASE exists /\ vm # want[p]
  BY <1>1, <1>2, CreatorIsProc DEF UpdateVmInfoCheck, TypeInv, TypeOK, ControlType, LocalType, MutexHeld, ActKnown, RetKnown
<1>3. CASE ~(exists /\ vm # want[p])
  <2>1. Saved(p) /\ mutex' = mutex /\ mutex # p /\ UNCHANGED seen /\ pc[p] \in SaveLabels
    BY <1>3, CreatorIsProc DEF UpdateVmInfoCheck
  <2> QED
    BY <1>1, <2>1, SavedType DEF TypeInv, TypeOK
<1> QED
  BY <1>2, <1>3

LEMMA PutType ==
    ASSUME TypeInv, NEW p \in Procs, UpdateVmInfoPut(p)
    PROVE  TypeInv'
<1>1. pc[p] \in SaveLabels
  BY CreatorIsProc DEF UpdateVmInfoPut, TypeInv, TypeOK, MutexHeld
<1>2. CspType'
  BY DEF UpdateVmInfoPut, TypeInv, TypeOK, CspType
<1>3. StoreType' /\ CountType'
  <2>1. want[p] \in VmRecord
    BY DEF TypeInv, TypeOK, LocalType
  <2>2. CountType'
    BY ScopeAssumption DEF UpdateVmInfoPut, Fault, TypeInv, TypeOK, CountType
  <2> QED
    BY <2>1, <2>2 DEF UpdateVmInfoPut, TypeInv, TypeOK, StoreType
<1>4. Saved(p) /\ mutex' = Nobody /\ UNCHANGED seen
  BY DEF UpdateVmInfoPut
<1> QED
  BY <1>1, <1>2, <1>3, <1>4, SavedType DEF TypeInv, TypeOK

-----------------------------------------------------------------------------
(* FetchVmStatus. *)

LEMMA FetchFirstReadType ==
    ASSUME TypeInv, NEW p \in Procs, FetchFirstRead(p)
    PROVE  TypeInv'
<1>1. StoreType' /\ CspType' /\ CountType'
  BY DEF FetchFirstRead, countVars, TypeInv, TypeOK, StoreType, CspType, CountType
<1>2. pc[p] \notin SaveLabels /\ UNCHANGED <<mutex, act, obj>>
  BY DEF FetchFirstRead, SaveLabels
<1>3. CASE \E r \in Statuses \cup {"error"} : FetchReturn(p, r)
  BY <1>1, <1>2, <1>3, FetchReturnType DEF TypeInv, TypeOK
<1>4. CASE \E l \in {"fetchCsp", "fetchRead"} : Goto(p, l)
            /\ seen' = [seen EXCEPT ![p] = [native |-> "Undefined", named |-> vm.named]]
            /\ UNCHANGED <<want, ret>>
  <2>1. PICK l \in {"fetchCsp", "fetchRead"} : pc' = [pc EXCEPT ![p] = l]
    BY <1>4 DEF Goto
  <2>2. l \in Labels
    BY DEF Labels, FetchLabels
  <2>3. mutex # p
    BY <1>2, CreatorIsProc DEF TypeInv, TypeOK, MutexHeld
  <2>4. ControlType' /\ MutexHeld' /\ ActKnown'
    BY <1>2, <2>1, <2>2, <2>3, MoveType DEF TypeInv, TypeOK, ControlType
  <2>5. vm.named \in BOOLEAN
    BY DEF TypeInv, TypeOK, StoreType, VmRecord
  <2>6. LocalType'
    BY <1>2, <1>4, <2>5, StatusNames DEF TypeInv, TypeOK, LocalType
  <2>7. RetKnown'
    BY <1>4, <2>1, CreatorIsProc DEF TypeInv, TypeOK, ControlType, RetKnown
  <2> QED
    BY <1>1, <2>4, <2>6, <2>7 DEF TypeInv, TypeOK
<1>5. vm.status \in Statuses
  BY DEF TypeInv, TypeOK, StoreType, VmRecord
<1> QED
  BY <1>3, <1>4, <1>5 DEF FetchFirstRead

\* A step inside FetchVmStatus that stays in it.
LEMMA FetchGoesOn ==
    ASSUME TypeInv, NEW p \in Procs, pc[p] \in FetchLabels,
           NEW l \in FetchLabels \cup {"fetchSave"}, Goto(p, l),
           UNCHANGED <<mutex, act, obj, ret>>,
           want' \in [Procs -> VmRecord],
           seen' \in [Procs -> [native : Statuses, named : BOOLEAN]]
    PROVE  ControlType' /\ MutexHeld' /\ ActKnown' /\ LocalType' /\ RetKnown'
<1>1. l \in Labels \ {"begin", "intent", "call"} /\ l # "crResult"
  BY DEF Labels, FetchLabels, SaveLabels
<1>2. mutex # p
  BY CreatorIsProc DEF TypeInv, TypeOK, MutexHeld, FetchLabels, SaveLabels
<1>3. ControlType' /\ MutexHeld' /\ ActKnown'
  BY <1>1, <1>2, MoveType DEF Goto, TypeInv, TypeOK, ControlType
<1>4. LocalType'
  BY DEF TypeInv, TypeOK, LocalType
<1>5. RetKnown'
  BY <1>1, CreatorIsProc DEF Goto, TypeInv, TypeOK, ControlType, RetKnown
<1> QED
  BY <1>3, <1>4, <1>5

LEMMA FetchNativeStatusType ==
    ASSUME TypeInv, NEW p \in Procs, FetchNativeStatus(p)
    PROVE  TypeInv'
<1>1. CountType'
  BY ScopeAssumption DEF FetchNativeStatus, Fault, TypeInv, TypeOK, CountType
<1>2. StoreType' /\ UNCHANGED <<csp, cspIp>>
  BY DEF FetchNativeStatus, TypeInv, TypeOK, StoreType
<1>3. /\ cache' \in [controls : SUBSET Controls, status : Statuses \cup {"none"}, ip : SUBSET IPs]
      /\ seen' = seen \/ \E s \in Statuses : seen' = [seen EXCEPT ![p].native = s]
  <2>1. csp \in CspStates /\ cache \in [controls : SUBSET Controls, status : Statuses \cup {"none"}, ip : SUBSET IPs]
    BY DEF TypeInv, TypeOK, CspType
  <2>2. \A s \in Reports(csp) : s \in Statuses
    BY <2>1, ReportsType
  <2>3. \A s \in Statuses : Cached("status", s) \in
                [controls : SUBSET Controls, status : Statuses \cup {"none"}, ip : SUBSET IPs]
    BY <2>1 DEF Cached
  <2>4. CASE cache.status # "none"
    BY <2>1, <2>4 DEF FetchNativeStatus
  <2>5. CASE cache.status = "none"
    BY <2>1, <2>2, <2>3, <2>5 DEF FetchNativeStatus
  <2> QED
    BY <2>4, <2>5
<1>4. seen' \in [Procs -> [native : Statuses, named : BOOLEAN]]
  BY <1>3 DEF TypeInv, TypeOK, LocalType
<1>5. pc[p] \in FetchLabels /\ Goto(p, "fetchRead") /\ UNCHANGED <<mutex, act, obj, want, ret>>
  BY DEF FetchNativeStatus, FetchLabels
<1>6. "fetchRead" \in FetchLabels /\ want' \in [Procs -> VmRecord]
  BY <1>5 DEF FetchLabels, TypeInv, TypeOK, LocalType
<1>7. ControlType' /\ MutexHeld' /\ ActKnown' /\ LocalType' /\ RetKnown'
  BY <1>4, <1>5, <1>6, FetchGoesOn
<1>8. CspType'
  BY <1>2, <1>3 DEF TypeInv, TypeOK, CspType
<1> QED
  BY <1>1, <1>2, <1>7, <1>8 DEF TypeInv, TypeOK

LEMMA FetchSecondReadType ==
    ASSUME TypeInv, NEW p \in Procs, FetchSecondRead(p)
    PROVE  TypeInv'
<1>1. StoreType' /\ CspType' /\ CountType'
  BY DEF FetchSecondRead, countVars, TypeInv, TypeOK, StoreType, CspType, CountType
<1>2. pc[p] \in FetchLabels /\ pc[p] \notin SaveLabels /\ UNCHANGED <<mutex, act, obj>>
  BY DEF FetchSecondRead, SaveLabels, FetchLabels
<1>3. CASE ~exists
  BY <1>1, <1>2, <1>3, FetchReturnType DEF FetchSecondRead, TypeInv, TypeOK
<1>4. CASE exists
  <2>1. Refreshed(vm, seen[p].native) \in VmRecord
    BY RefreshedType DEF TypeInv, TypeOK, StoreType, LocalType
  <2>2. want' \in [Procs -> VmRecord]
    BY <1>4, <2>1 DEF FetchSecondRead, TypeInv, TypeOK, LocalType
  <2>3. seen' \in [Procs -> [native : Statuses, named : BOOLEAN]]
    BY <1>4, StatusNames DEF FetchSecondRead, TypeInv, TypeOK, LocalType
  <2>4. \E l \in FetchLabels \cup {"fetchSave"} : Goto(p, l)
    BY <1>4 DEF FetchSecondRead, FetchLabels
  <2>5. ret' = ret
    BY <1>4 DEF FetchSecondRead
  <2> QED
    BY <1>1, <1>2, <2>2, <2>3, <2>4, <2>5, FetchGoesOn DEF TypeInv, TypeOK
<1> QED
  BY <1>3, <1>4

LEMMA PublicIpIsType ==
    ASSUME TypeInv, NEW i \in IPs, PublicIpIs(i), UNCHANGED <<csp, cspIp>>
    PROVE  CspType'
<1>1. cache' = cache \/ cache' = [cache EXCEPT !["ip"] = {cspIp}]
  BY DEF PublicIpIs, Cached
<1> QED
  BY <1>1 DEF TypeInv, TypeOK, CspType

LEMMA FetchPublicIpType ==
    ASSUME TypeInv, NEW p \in Procs, FetchPublicIp(p)
    PROVE  TypeInv'
<1>1. StoreType' /\ CountType'
  BY ScopeAssumption DEF FetchPublicIp, PublicIpUnknown, Fault, TypeInv, TypeOK, StoreType, CountType
<1>2. pc[p] \in FetchLabels /\ pc[p] \notin SaveLabels /\ UNCHANGED <<mutex, act, obj, csp, cspIp>>
  BY DEF FetchPublicIp, SaveLabels, FetchLabels
<1>3. CASE \E i \in IPs : PublicIpIs(i) /\ want' = [want EXCEPT ![p].ip = i]
                          /\ Goto(p, "fetchCheck") /\ UNCHANGED <<seen, ret, faults>>
  <2>1. PICK i \in IPs : PublicIpIs(i) /\ want' = [want EXCEPT ![p].ip = i]
    BY <1>3
  <2>2. CspType'
    BY <1>2, <2>1, PublicIpIsType
  <2>3. want' \in [Procs -> VmRecord] /\ seen' \in [Procs -> [native : Statuses, named : BOOLEAN]]
    BY <1>3, <2>1 DEF TypeInv, TypeOK, LocalType, VmRecord
  <2>4. "fetchCheck" \in FetchLabels
    BY DEF FetchLabels
  <2>5. ControlType' /\ MutexHeld' /\ ActKnown' /\ LocalType' /\ RetKnown'
    BY <1>2, <1>3, <2>3, <2>4, FetchGoesOn
  <2> QED
    BY <1>1, <2>2, <2>5 DEF TypeInv, TypeOK
<1>4. CASE FetchReturn(p, "error") /\ UNCHANGED cache
  BY <1>1, <1>2, <1>4, FetchReturnType DEF TypeInv, TypeOK, CspType
<1> QED
  BY <1>3, <1>4 DEF FetchPublicIp

LEMMA FetchThirdReadType ==
    ASSUME TypeInv, NEW p \in Procs, FetchThirdRead(p)
    PROVE  TypeInv'
<1>1. StoreType' /\ CspType' /\ CountType'
  BY DEF FetchThirdRead, countVars, TypeInv, TypeOK, StoreType, CspType, CountType
<1>2. pc[p] \in FetchLabels /\ pc[p] \notin SaveLabels /\ UNCHANGED <<mutex, act, obj>>
  BY DEF FetchThirdRead, SaveLabels, FetchLabels
<1>3. want[p].status \in Statuses
  BY DEF TypeInv, TypeOK, LocalType, VmRecord
<1>4. CASE FetchReturn(p, want[p].status)
  BY <1>1, <1>2, <1>3, <1>4, FetchReturnType DEF TypeInv, TypeOK
<1>5. CASE Goto(p, "fetchSave") /\ seen' = [seen EXCEPT ![p] = Nothing] /\ UNCHANGED <<want, ret>>
  <2>1. seen' \in [Procs -> [native : Statuses, named : BOOLEAN]] /\ want' \in [Procs -> VmRecord]
    BY <1>5, StatusNames DEF TypeInv, TypeOK, LocalType, Nothing
  <2> QED
    BY <1>1, <1>2, <1>5, <2>1, FetchGoesOn DEF TypeInv, TypeOK
<1> QED
  BY <1>4, <1>5 DEF FetchThirdRead

-----------------------------------------------------------------------------
(* CreateVm. *)

\* CreateVm only ever goes to labels that need no action.
LEMMA CreatorMoves ==
    ASSUME TypeInv, pc[Creator] \notin SaveLabels, UNCHANGED <<mutex, act>>,
           NEW l \in {"post", "crSave", "crFail", "crEnd", "done"}, Goto(Creator, l)
    PROVE  ControlType' /\ MutexHeld' /\ ActKnown' /\ RetKnown'
<1>1. l \in Labels \ {"begin", "intent", "call"} /\ l # "crResult"
  BY DEF Labels, SaveLabels
<1>2. mutex # Creator
  BY CreatorIsProc DEF TypeInv, TypeOK, MutexHeld
<1>3. ControlType' /\ MutexHeld' /\ ActKnown'
  BY <1>1, <1>2, CreatorIsProc, MoveType DEF Goto, TypeInv, TypeOK, ControlType
<1>4. RetKnown'
  BY <1>1, CreatorIsProc DEF Goto, TypeInv, TypeOK, ControlType, RetKnown
<1> QED
  BY <1>3, <1>4

LEMMA CreateVmObjectType == TypeInv /\ CreateVmObject => TypeInv'
<1> SUFFICES ASSUME TypeInv, CreateVmObject PROVE TypeInv'
  OBVIOUS
<1>1. StoreType' /\ CspType' /\ CountType' /\ LocalType'
  BY NewVmType DEF CreateVmObject, localVars, countVars, TypeInv, TypeOK, StoreType, CspType, CountType, LocalType
<1>2. pc[Creator] \notin SaveLabels /\ UNCHANGED <<mutex, act>> /\ Goto(Creator, "post")
  BY DEF CreateVmObject, SaveLabels, localVars
<1> QED
  BY <1>1, <1>2, CreatorMoves DEF TypeInv, TypeOK

LEMMA SubmitType ==
    ASSUME TypeInv, NEW p \in Procs, NEW rec \in VmRecord, NEW l, Submit(p, rec, l),
           UNCHANGED <<seen, ret>>
    PROVE  LocalType'
BY DEF Submit, TypeInv, TypeOK, LocalType

LEMMA CreatorRecordType ==
    ASSUME TypeInv
    PROVE  /\ \A i \in IPs : [obj[Creator] EXCEPT !.named = TRUE, !.ip = i] \in VmRecord
           /\ [obj[Creator] EXCEPT !.status = "Failed"] \in VmRecord
           /\ \A st \in Statuses : [obj[Creator] EXCEPT !.status = st, !.action = "None"] \in VmRecord
BY CreatorIsProc, StatusNames DEF TypeInv, TypeOK, LocalType, VmRecord, Actions

LEMMA CreateVmPostType == TypeInv /\ CreateVmPost => TypeInv'
<1> SUFFICES ASSUME TypeInv, CreateVmPost PROVE TypeInv'
  OBVIOUS
<1>1. /\ pc[Creator] \notin SaveLabels
      /\ UNCHANGED <<exists, vm, cache, mutex, act, seen, ret, asked, deleted, requests>>
  BY DEF CreateVmPost, SaveLabels
<1>2. StoreType' /\ CspType' /\ CountType'
  <2>1. attached' \in BOOLEAN /\ csp' \in CspStates /\ cspIp' \in IPs
    BY DEF CreateVmPost, TypeInv, TypeOK, StoreType, CspType, CspStates
  <2>2. faults' = faults \/ Fault
    BY DEF CreateVmPost
  <2>3. CountType'
    BY <1>1, <2>2, ScopeAssumption DEF Fault, TypeInv, TypeOK, CountType
  <2> QED
    BY <1>1, <2>1, <2>3 DEF TypeInv, TypeOK, StoreType, CspType
<1>3. CASE \E rec \in VmRecord, l \in {"crSave", "crFail"} : Submit(Creator, rec, l)
  <2>1. PICK rec \in VmRecord, l \in {"crSave", "crFail"} : Submit(Creator, rec, l)
    BY <1>3
  <2>2. LocalType'
    BY <1>1, <2>1, CreatorIsProc, SubmitType
  <2>3. ControlType' /\ MutexHeld' /\ ActKnown' /\ RetKnown'
    BY <1>1, <2>1, CreatorMoves DEF Submit
  <2> QED
    BY <1>2, <2>2, <2>3 DEF TypeInv, TypeOK
<1>4. CASE Goto(Creator, "done") /\ UNCHANGED <<obj, want>>
  <2>1. LocalType'
    BY <1>1, <1>4 DEF TypeInv, TypeOK, LocalType
  <2>2. ControlType' /\ MutexHeld' /\ ActKnown' /\ RetKnown'
    BY <1>1, <1>4, CreatorMoves
  <2> QED
    BY <1>2, <2>1, <2>2 DEF TypeInv, TypeOK
<1> QED
  BY <1>3, <1>4, CreatorRecordType DEF CreateVmPost

LEMMA CreateVmResultType == TypeInv /\ CreateVmResult => TypeInv'
<1> SUFFICES ASSUME TypeInv, CreateVmResult PROVE TypeInv'
  OBVIOUS
<1>1. pc[Creator] \notin SaveLabels /\ UNCHANGED <<mutex, act, seen, ret>>
  BY DEF CreateVmResult, SaveLabels
<1>2. StoreType' /\ CspType' /\ CountType'
  BY DEF CreateVmResult, countVars, TypeInv, TypeOK, StoreType, CspType, CountType
<1>3. ret = "error" \/ ret \in Statuses
  BY DEF CreateVmResult, TypeInv, TypeOK, RetKnown, LocalType
<1>4. PICK rec \in VmRecord, l \in {"crEnd", "crFail"} : Submit(Creator, rec, l)
  BY <1>3, CreatorRecordType, StatusNames DEF CreateVmResult
<1>5. LocalType'
  BY <1>1, <1>4, CreatorIsProc, SubmitType
<1>6. ControlType' /\ MutexHeld' /\ ActKnown' /\ RetKnown'
  BY <1>1, <1>4, CreatorMoves DEF Submit
<1> QED
  BY <1>2, <1>5, <1>6 DEF TypeInv, TypeOK

LEMMA CreateVmLabelType == TypeInv /\ CreateVmLabel => TypeInv'
<1> SUFFICES ASSUME TypeInv, CreateVmLabel PROVE TypeInv'
  OBVIOUS
<1>1. pc[Creator] \notin SaveLabels /\ UNCHANGED <<mutex, act, seen, ret>>
  BY DEF CreateVmLabel, SaveLabels
<1>2. StoreType' /\ CspType' /\ CountType'
  BY ScopeAssumption DEF CreateVmLabel, Fault, TypeInv, TypeOK, StoreType, CspType, CountType
<1>3. CASE Goto(Creator, "done") /\ UNCHANGED <<obj, want>>
  <2>1. LocalType'
    BY <1>1, <1>3 DEF TypeInv, TypeOK, LocalType
  <2> QED
    BY <1>1, <1>2, <1>3, <2>1, CreatorMoves DEF TypeInv, TypeOK
<1>4. CASE \E rec \in VmRecord : Submit(Creator, rec, "crFail")
  <2>1. PICK rec \in VmRecord : Submit(Creator, rec, "crFail")
    BY <1>4
  <2>2. LocalType'
    BY <1>1, <2>1, CreatorIsProc, SubmitType
  <2> QED
    BY <1>1, <1>2, <2>1, <2>2, CreatorMoves DEF TypeInv, TypeOK, Submit
<1> QED
  BY <1>3, <1>4, CreatorRecordType DEF CreateVmLabel

-----------------------------------------------------------------------------
(* ControlVmAsync, the requests and the environment. *)

\* A step that starts or moves a controller, and touches no other local variable.
LEMMA RequestType ==
    ASSUME TypeInv, NEW c \in Controllers, NEW a \in Controls, Request(c, a)
    PROVE  TypeInv'
<1>1. StoreType' /\ CspType' /\ LocalType'
  BY DEF Request, TypeInv, TypeOK, StoreType, CspType, LocalType
<1>2. CountType'
  BY ScopeAssumption DEF Request, TypeInv, TypeOK, CountType
<1>3. c \in Procs /\ "begin" \in Labels /\ mutex # c
  BY CreatorIsProc DEF Procs, Labels, Request, TypeInv, TypeOK, MutexHeld, SaveLabels
<1>4. ControlType' /\ MutexHeld' /\ ActKnown'
  BY <1>3, MoveType DEF Request, Goto, TypeInv, TypeOK, ControlType
<1>5. RetKnown'
  BY <1>3, CreatorIsProc, ProcessAssumption DEF Request, Goto, TypeInv, TypeOK, ControlType, RetKnown
<1> QED
  BY <1>1, <1>2, <1>4, <1>5 DEF TypeInv, TypeOK

LEMMA PollType ==
    ASSUME TypeInv, NEW p \in Pollers, Poll(p)
    PROVE  TypeInv'
<1>1. StoreType' /\ CspType' /\ LocalType' /\ CountType'
  BY DEF Poll, localVars, countVars, TypeInv, TypeOK, StoreType, CspType, LocalType, CountType
<1>2. p \in Procs /\ "fetch" \in Labels /\ mutex # p
  BY CreatorIsProc DEF Procs, Labels, FetchLabels, Poll, TypeInv, TypeOK, MutexHeld, SaveLabels
<1>3. ControlType' /\ MutexHeld' /\ ActKnown'
  BY <1>2, MoveType DEF Poll, Goto, localVars, TypeInv, TypeOK, ControlType
<1>4. RetKnown'
  BY <1>2, CreatorIsProc, ProcessAssumption DEF Poll, Goto, localVars, TypeInv, TypeOK, ControlType, RetKnown
<1> QED
  BY <1>1, <1>3, <1>4 DEF TypeInv, TypeOK

\* Any step of a controller that enters a label with its action kept.
LEMMA ControllerEnters ==
    ASSUME TypeInv, NEW c \in Procs, pc[c] \in {"begin", "call", "after", "ipGet"},
           NEW l \in {"idle", "fetch", "after", "ipGet", "ipSave"}, Enter(c, l),
           mutex' = mutex, ret' = ret
    PROVE  /\ ControlType' /\ MutexHeld' /\ ActKnown' /\ RetKnown'
           /\ obj' \in [Procs -> VmRecord]
<1>1. l \in Labels \ {"begin", "intent", "call"} /\ l # "crResult"
  BY DEF Labels, SaveLabels, FetchLabels
<1>2. mutex # c
  BY CreatorIsProc DEF TypeInv, TypeOK, MutexHeld, SaveLabels
<1>3. ControlType' /\ MutexHeld' /\ ActKnown' /\ obj' \in [Procs -> VmRecord]
  BY <1>1, <1>2, EnterType
<1>4. RetKnown'
  BY <1>1, CreatorIsProc DEF Enter, Goto, TypeInv, TypeOK, ControlType, RetKnown
<1> QED
  BY <1>3, <1>4

LEMMA ControlReadType ==
    ASSUME TypeInv, NEW c \in Procs, ControlRead(c)
    PROVE  TypeInv'
<1>1. CspType' /\ CountType' /\ pc[c] = "begin" /\ UNCHANGED <<exists, vm, attached, deleted, mutex, seen, ret>>
  BY DEF ControlRead, TypeInv, TypeOK, CspType, CountType
<1>2. StoreType'
  <2>1. asked' \in BOOLEAN
    BY DEF ControlRead, TypeInv, TypeOK, StoreType
  <2> QED
    BY <1>1, <2>1 DEF TypeInv, TypeOK, StoreType
<1>3. CASE Enter(c, "idle") /\ UNCHANGED want
  <2>1. ControlType' /\ MutexHeld' /\ ActKnown' /\ RetKnown' /\ obj' \in [Procs -> VmRecord]
    BY <1>1, <1>3, ControllerEnters
  <2>2. LocalType'
    BY <1>1, <1>3, <2>1 DEF TypeInv, TypeOK, LocalType
  <2> QED
    BY <1>1, <1>2, <2>1, <2>2 DEF TypeInv, TypeOK
<1>4. CASE \E rec \in VmRecord, l \in {"invalid", "intent"} : Submit(c, rec, l) /\ UNCHANGED act
  <2>1. PICK rec \in VmRecord, l \in {"invalid", "intent"} : Submit(c, rec, l) /\ UNCHANGED act
    BY <1>4
  <2>2. LocalType'
    BY <1>1, <2>1, SubmitType
  <2>3. l \in Labels /\ l # "crResult" /\ mutex # c /\ act[c] \in Controls
    BY <1>1, CreatorIsProc DEF Labels, SaveLabels, TypeInv, TypeOK, MutexHeld, ActKnown
  <2>4. ControlType' /\ MutexHeld' /\ ActKnown'
    BY <1>1, <2>1, <2>3, MoveType DEF Submit, Goto, TypeInv, TypeOK, ControlType
  <2>5. RetKnown'
    BY <1>1, <2>1, <2>3, CreatorIsProc DEF Submit, Goto, TypeInv, TypeOK, ControlType, RetKnown
  <2> QED
    BY <1>1, <1>2, <2>2, <2>4, <2>5 DEF TypeInv, TypeOK
<1>5. vm \in VmRecord /\ Intent(vm, act[c]) \in VmRecord
  BY <1>1, IntentType DEF TypeInv, TypeOK, StoreType, ActKnown
<1> QED
  BY <1>3, <1>4, <1>5 DEF ControlRead

LEMMA ControlCallType ==
    ASSUME TypeInv, NEW c \in Procs, ControlCall(c)
    PROVE  TypeInv'
<1>1. /\ pc[c] = "call" /\ act[c] \in Controls
      /\ UNCHANGED <<exists, vm, attached, cspIp, mutex, seen, want, ret, asked, deleted, requests>>
  BY DEF ControlCall, TypeInv, ActKnown
<1>2. StoreType'
  BY <1>1 DEF TypeInv, TypeOK, StoreType
<1>3. CountType'
  BY <1>1, ScopeAssumption DEF ControlCall, Fault, TypeInv, TypeOK, CountType
<1>4. csp' \in CspStates
  BY <1>1, DuringType DEF ControlCall, TypeInv, TypeOK, CspType
<1>5. cache' = cache \/ cache' = [cache EXCEPT !["controls"] = cache.controls \cup {act[c]}]
  BY DEF ControlCall, Cached
<1>6. CspType'
  BY <1>1, <1>4, <1>5 DEF TypeInv, TypeOK, CspType
<1>7. PICK l \in {"idle", "fetch"} : Enter(c, l)
  BY DEF ControlCall, OnError
<1>8. ControlType' /\ MutexHeld' /\ ActKnown' /\ RetKnown' /\ obj' \in [Procs -> VmRecord]
  BY <1>1, <1>7, ControllerEnters
<1>9. LocalType'
  BY <1>1, <1>8 DEF TypeInv, TypeOK, LocalType
<1> QED
  BY <1>2, <1>3, <1>6, <1>8, <1>9 DEF TypeInv, TypeOK

LEMMA ControlAfterType ==
    ASSUME TypeInv, NEW c \in Procs, ControlAfter(c)
    PROVE  TypeInv'
<1>1. pc[c] = "after" /\ UNCHANGED <<mutex, seen, want, ret>>
  BY DEF ControlAfter
<1>2. StoreType' /\ CspType' /\ CountType'
  BY DEF ControlAfter, countVars, TypeInv, TypeOK, StoreType, CspType, CountType
<1>3. PICK l \in {"idle", "ipGet"} : Enter(c, l)
  BY DEF ControlAfter
<1>4. ControlType' /\ MutexHeld' /\ ActKnown' /\ RetKnown' /\ obj' \in [Procs -> VmRecord]
  BY <1>1, <1>3, ControllerEnters
<1>5. LocalType'
  BY <1>1, <1>4 DEF TypeInv, TypeOK, LocalType
<1> QED
  BY <1>2, <1>4, <1>5 DEF TypeInv, TypeOK

LEMMA ControlPublicIpType ==
    ASSUME TypeInv, NEW c \in Procs, ControlPublicIp(c)
    PROVE  TypeInv'
<1>1. pc[c] = "ipGet" /\ UNCHANGED <<csp, cspIp, mutex, seen, ret>>
  BY DEF ControlPublicIp
<1>2. StoreType' /\ CountType'
  BY ScopeAssumption DEF ControlPublicIp, PublicIpUnknown, Fault, TypeInv, TypeOK, StoreType, CountType
<1>3. CspType'
  <2>1. CASE \E i \in IPs : PublicIpIs(i)
    BY <1>1, <2>1, PublicIpIsType
  <2>2. CASE UNCHANGED cache
    BY <1>1, <2>2 DEF TypeInv, TypeOK, CspType
  <2> QED
    BY <2>1, <2>2 DEF ControlPublicIp
<1>4. want' \in [Procs -> VmRecord]
  <2>1. want \in [Procs -> VmRecord] /\ \A i \in IPs : [obj[c] EXCEPT !.ip = i] \in VmRecord
    BY DEF TypeInv, TypeOK, LocalType, VmRecord
  <2>2. want' = want \/ \E i \in IPs : want' = [want EXCEPT ![c] = [obj[c] EXCEPT !.ip = i]]
    BY DEF ControlPublicIp
  <2> QED
    BY <2>1, <2>2
<1>5. PICK l \in {"idle", "ipSave"} : Enter(c, l)
  BY DEF ControlPublicIp
<1>6. ControlType' /\ MutexHeld' /\ ActKnown' /\ RetKnown' /\ obj' \in [Procs -> VmRecord]
  BY <1>1, <1>5, ControllerEnters
<1>7. LocalType'
  BY <1>1, <1>4, <1>6 DEF TypeInv, TypeOK, LocalType
<1> QED
  BY <1>2, <1>3, <1>6, <1>7 DEF TypeInv, TypeOK

\* DelMciVm, the CSP and the clock move no goroutine.
LEMMA EnvironmentType == TypeInv /\ (DelMciVm \/ CspProgress \/ CacheExpires) => TypeInv'
<1> SUFFICES ASSUME TypeInv, DelMciVm \/ CspProgress \/ CacheExpires PROVE TypeInv'
  OBVIOUS
<1>1. UNCHANGED <<vm, pc, mutex, localVars, requests, faults>>
  BY DEF DelMciVm, CspProgress, CacheExpires, countVars
<1>2. ControlType' /\ LocalType' /\ CountType' /\ MutexHeld' /\ ActKnown' /\ RetKnown'
  BY <1>1 DEF localVars, TypeInv, TypeOK, ControlType, LocalType, CountType, MutexHeld, ActKnown, RetKnown
<1>3. StoreType'
  BY DEF DelMciVm, CspProgress, CacheExpires, countVars, TypeInv, TypeOK, StoreType
<1>4. cache' \in [controls : SUBSET Controls, status : Statuses \cup {"none"}, ip : SUBSET IPs]
  BY DEF DelMciVm, CspProgress, CacheExpires, TypeInv, TypeOK, CspType
<1>5. csp' \in CspStates /\ cspIp' \in IPs
  BY DEF DelMciVm, CspProgress, CacheExpires, TypeInv, TypeOK, CspType, CspStates
<1> QED
  BY <1>2, <1>3, <1>4, <1>5 DEF TypeInv, TypeOK, CspType

-----------------------------------------------------------------------------
LEMMA TypeNext == TypeInv /\ [Next]_vars => TypeInv'
<1> SUFFICES ASSUME TypeInv, [Next]_vars PROVE TypeInv'
  OBVIOUS
<1>1. CASE UNCHANGED vars
  <2>1. StoreType' /\ CspType'
    BY <1>1 DEF vars, countVars, TypeInv, TypeOK, StoreType, CspType
  <2>2. ControlType' /\ LocalType' /\ CountType'
    BY <1>1 DEF vars, localVars, countVars, TypeInv, TypeOK, ControlType, LocalType, CountType
  <2>3. MutexHeld' /\ ActKnown' /\ RetKnown'
    BY <1>1 DEF vars, localVars, TypeInv, TypeOK, MutexHeld, ActKnown, RetKnown
  <2> QED
    BY <2>1, <2>2, <2>3 DEF TypeInv, TypeOK
<1>2. CASE CreateVmObject
  BY <1>2, CreateVmObjectType
<1>3. CASE CreateVm
  BY <1>3, CreateVmPostType, CreateVmResultType, CreateVmLabelType DEF CreateVm
<1>4. CASE \E p \in Procs : UpdateVmInfoCheck(p) \/ UpdateVmInfoPut(p)
  BY <1>4, CheckType, PutType
<1>5. CASE \E p \in Procs : Fetch(p)
  BY <1>5, FetchFirstReadType, FetchNativeStatusType, FetchSecondReadType, FetchPublicIpType,
     FetchThirdReadType DEF Fetch
<1>6. CASE \E p \in Procs : Control(p)
  BY <1>6, ControlReadType, ControlCallType, ControlAfterType, ControlPublicIpType DEF Control
<1>7. CASE \E p \in Pollers : Poll(p)
  BY <1>7, PollType
<1>8. CASE \E c \in Controllers, a \in Controls : Request(c, a)
  BY <1>8, RequestType
<1>9. CASE DelMciVm \/ CspProgress \/ CacheExpires
  BY <1>9, EnvironmentType
<1> QED
  BY <1>1, <1>2, <1>3, <1>4, <1>5, <1>6, <1>7, <1>8, <1>9 DEF Next, Step

LEMMA TypeAlways == Spec => []TypeInv
<1>1. Init => TypeInv
  BY TypeInit
<1>2. TypeInv /\ [Next]_vars => TypeInv'
  BY TypeNext
<1> QED
  BY <1>1, <1>2, PTL DEF Spec

\* The records, the answers of the CSP and what every goroutine holds keep their
\* types, and the mutex is held only inside UpdateVmInfo.
THEOREM TypeCorrect == Spec => []TypeOK
<1>1. TypeInv => TypeOK
  BY DEF TypeInv
<1> QED
  BY <1>1, TypeAlways, PTL

-----------------------------------------------------------------------------
(* Safety.  What the two invariants need: a named record means that the VM   *)
(* was made; without a request to terminate, nothing anywhere says so; and a *)
(* VM is taken off the lists only when it is on its way down.                *)

NoneNamed == ~vm.named /\ \A p \in Procs : ~want[p].named /\ ~obj[p].named

Made ==
    /\ pc[Creator] \in {"none", "post"} => csp = "Absent"
    /\ csp = "Absent" => \A p \in Procs : pc[p] # "fetchCsp"
    /\ csp = "Absent" => NoneNamed

Clean(r) == r.status # "Terminated" /\ r.action # "Terminate"
AllClean == Clean(vm) /\ \A p \in Procs : Clean(want[p]) /\ Clean(obj[p])

Down == csp \in {"Terminating", "Gone"}

NothingSaysSo ==
    /\ ~Down
    /\ cache.status # "Terminated" /\ ret # "Terminated"
    /\ \A p \in Procs : seen[p].native # "Terminated"
    /\ \A p \in Procs : pc[p] \in {"intent", "call"} => act[p] # "Terminate"

Unasked == ~asked => AllClean /\ NothingSaysSo

Accepted(p) == act[p] = "Terminate" /\ pc[p] \in FetchLabels \cup {"fetchSave", "after"}

OnlyAccepted ==
    /\ \A p \in Procs : p \notin Controllers => act[p] = "None"
    /\ "Terminate" \notin cache.controls
    /\ \A p \in Procs : Accepted(p) => Down
    /\ \A p \in Procs : pc[p] = "crSave" => act[p] = "None"

Listed == OnlyAccepted /\ (~deleted => attached \/ Down \/ NoneNamed)

Safe == TypeInv /\ Made /\ Unasked /\ Listed

LEMMA RefreshedKeeps ==
    ASSUME NEW r \in VmRecord, NEW s \in Statuses
    PROVE  /\ Refreshed(r, s).named = r.named
           /\ Clean(r) /\ s # "Terminated" => Clean(Refreshed(r, s))
<1>1. Clean(r) /\ s # "Terminated" => Corrected(r, s) # "Terminated"
  BY DEF Clean, Corrected, During
<1> QED
  BY <1>1 DEF Refreshed, Clean, VmRecord

LEMMA IntentKeeps ==
    ASSUME NEW r \in VmRecord, NEW a \in Controls
    PROVE  /\ Intent(r, a).named = r.named
           /\ Clean(r) /\ a # "Terminate" => Clean(Intent(r, a))
BY DEF Intent, Clean, VmRecord, During

LEMMA NewVmKeeps == ~NewVm.named /\ Clean(NewVm)
BY DEF NewVm, Clean

LEMMA SafeInit == Init => Safe
<1> SUFFICES ASSUME Init PROVE Safe
  OBVIOUS
<1>1. TypeInv
  BY TypeInit
<1>2. Made
  BY CreatorIsProc DEF Init, Made, NoneNamed, NewVm, RunningVm
<1>3. Unasked
  BY DEF Init, Unasked, AllClean, NothingSaysSo, Down, Clean, NewVm, RunningVm, EmptyCache, Nothing
<1>4. Listed
  BY DEF Init, Listed, OnlyAccepted, Accepted, NoneNamed, NewVm, RunningVm, EmptyCache
<1> QED
  BY <1>1, <1>2, <1>3, <1>4 DEF Safe

LEMMA LocalsTyped ==
    ASSUME TypeInv
    PROVE  /\ pc \in [Procs -> Labels] /\ act \in [Procs -> Controls \cup {"None"}]
           /\ seen \in [Procs -> [native : Statuses, named : BOOLEAN]]
           /\ obj \in [Procs -> VmRecord] /\ want \in [Procs -> VmRecord] /\ vm \in VmRecord
           /\ csp \in CspStates /\ ret \in Statuses \cup {"none", "error"}
           /\ cache \in [controls : SUBSET Controls, status : Statuses \cup {"none"}, ip : SUBSET IPs]
BY DEF TypeInv, TypeOK, ControlType, LocalType, StoreType, CspType

-----------------------------------------------------------------------------
(* A step of one goroutine leaves the others' variables alone: what it has to *)
(* show concerns its own variables and the shared ones.                       *)

OthersStay(p) ==
    \A q \in Procs : q # p =>
        /\ pc'[q] = pc[q] /\ act'[q] = act[q] /\ seen'[q] = seen[q]
        /\ obj'[q] = obj[q] /\ want'[q] = want[q]

OwnNamed(p) == vm'.named \/ want'[p].named \/ obj'[p].named
OwnClean(p) == Clean(vm)' /\ Clean(want[p])' /\ Clean(obj[p])'

LEMMA MadeStep ==
    ASSUME Made, NEW p \in Procs, OthersStay(p),
           csp' = "Absent" => csp = "Absent" /\ ~OwnNamed(p) /\ pc'[p] # "fetchCsp",
           pc'[Creator] \in {"none", "post"} => csp' = "Absent"
    PROVE  Made'
BY DEF Made, NoneNamed, OthersStay, OwnNamed

LEMMA UnaskedStep ==
    ASSUME Unasked, NEW p \in Procs, OthersStay(p), asked => asked', ~Down => ~Down' \/ asked',
           AllClean /\ NothingSaysSo =>
               asked' \/ (/\ OwnClean(p)
                          /\ cache'.status # "Terminated" /\ ret' # "Terminated"
                          /\ seen'[p].native # "Terminated"
                          /\ pc'[p] \in {"intent", "call"} => act'[p] # "Terminate")
    PROVE  Unasked'
BY DEF Unasked, AllClean, NothingSaysSo, OthersStay, OwnClean, Clean

LEMMA ListedStep ==
    ASSUME Listed, NEW p \in Procs, OthersStay(p), Down => Down', deleted => deleted',
           p \notin Controllers => act'[p] = "None",
           "Terminate" \notin cache.controls => "Terminate" \notin cache'.controls,
           Accepted(p)' => Down',
           pc'[p] = "crSave" => act'[p] = "None",
           attached => attached' \/ Down',
           NoneNamed => attached' \/ ~OwnNamed(p)
    PROVE  Listed'
BY DEF Listed, OnlyAccepted, Accepted, NoneNamed, OthersStay, OwnNamed

\* Records that are copies of records held before, or new, are as these were.
LEMMA RecordsFrom ==
    ASSUME NEW p \in Procs,
           \A r \in {vm', want'[p], obj'[p]} : r \in {vm, want[p], obj[p], NewVm}
    PROVE  /\ NoneNamed => ~OwnNamed(p)
           /\ AllClean => OwnClean(p)
BY NewVmKeeps DEF NoneNamed, OwnNamed, AllClean, OwnClean

\* Steps that leave the CSP and the lists alone, and record no request.
LEMMA LocalStep ==
    ASSUME Safe, NEW p \in Procs, OthersStay(p),
           UNCHANGED <<csp, attached, asked, deleted>>, cache'.controls = cache.controls,
           NothingSaysSo => cache'.status # "Terminated",
           NoneNamed => ~OwnNamed(p),
           AllClean /\ NothingSaysSo => OwnClean(p) /\ ret' # "Terminated" /\ seen'[p].native # "Terminated",
           act'[p] = act[p] \/ act'[p] = "None",
           pc'[p] \notin {"none", "post", "crSave"},
           pc'[p] = "fetchCsp" => csp # "Absent",
           pc'[p] = "intent" => act'[p] # "Terminate",
           pc'[p] = "call" => pc[p] = "intent",
           Accepted(p)' => Accepted(p)
    PROVE  Made' /\ Unasked' /\ Listed'
<1>1. Made'
  <2>1. pc'[Creator] \in {"none", "post"} => csp' = "Absent"
    BY CreatorIsProc DEF OthersStay, Safe, Made
  <2> QED
    BY <2>1, MadeStep DEF Safe, Made
<1>2. NothingSaysSo /\ pc'[p] \in {"intent", "call"} => act'[p] # "Terminate"
  BY DEF NothingSaysSo
<1>3. Unasked'
  BY <1>2, UnaskedStep DEF Safe, Down, NothingSaysSo
<1>4. Listed'
  <2>1. p \notin Controllers => act'[p] = "None"
    BY DEF Safe, Listed, OnlyAccepted
  <2>2. Accepted(p)' => Down'
    BY DEF Safe, Listed, OnlyAccepted, Down
  <2> QED
    BY <2>1, <2>2, ListedStep DEF Safe, Down
<1> QED
  BY <1>1, <1>3, <1>4

LEMMA SavedSafe ==
    ASSUME Safe, NEW p \in Procs, Saved(p), pc[p] \in SaveLabels, vm' \in {vm, want[p]},
           UNCHANGED <<csp, attached, asked, deleted, cache, seen>>
    PROVE  Made' /\ Unasked' /\ Listed'
<1>1. Enter(p, AfterSave(p)) /\ AfterSave(p) \in Labels
      /\ AfterSave(p) \in {"fetch", "label", "done", "call", "crResult", "after", "idle"}
      /\ (AfterSave(p) = "call" => pc[p] = "intent")
      /\ (AfterSave(p) = "fetch" => pc[p] = "crSave")
      /\ (AfterSave(p) = "after" => pc[p] = "fetchSave")
  BY AfterSaveLabel DEF Safe, Saved, AfterSave, AfterFetch, SaveLabels
<1>2. OthersStay(p)
  BY <1>1, LocalsTyped DEF Safe, Enter, Goto, Saved, OthersStay
<1>3. pc'[p] = AfterSave(p) /\ act'[p] \in {act[p], "None"} /\ want'[p] = NewVm /\ obj'[p] \in {obj[p], NewVm}
  BY <1>1, LocalsTyped DEF Safe, Enter, Goto, Saved
<1>4. (NoneNamed => ~OwnNamed(p)) /\ (AllClean => OwnClean(p))
  BY <1>3, RecordsFrom
<1>5. AllClean /\ NothingSaysSo => ret' # "Terminated" /\ seen'[p].native # "Terminated"
  BY DEF Saved, Return, AllClean, Clean, NothingSaysSo
<1>7. NothingSaysSo => cache'.status # "Terminated"
  BY DEF NothingSaysSo
<1>6. Accepted(p)' => Accepted(p)
  BY <1>1, <1>3 DEF Accepted, FetchLabels, Safe, Listed, OnlyAccepted
<1> QED
  BY <1>1, <1>2, <1>3, <1>4, <1>5, <1>6, <1>7, LocalStep

LEMMA CheckSafe ==
    ASSUME Safe, NEW p \in Procs, UpdateVmInfoCheck(p)
    PROVE  Made' /\ Unasked' /\ Listed'
<1>1. UNCHANGED <<vm, csp, attached, asked, deleted, cache, seen>> /\ pc[p] \in SaveLabels
  BY DEF UpdateVmInfoCheck, countVars
<1>2. CASE Saved(p)
  BY <1>1, <1>2, SavedSafe
<1>3. CASE UNCHANGED <<pc, act, obj, want, ret>>
  <2>1. Made' /\ Unasked'
    BY <1>1, <1>3 DEF Safe, Made, NoneNamed, Unasked, AllClean, Clean, NothingSaysSo, Down
  <2>2. Listed'
    BY <1>1, <1>3 DEF Safe, Listed, OnlyAccepted, Accepted, NoneNamed, Down
  <2> QED
    BY <2>1, <2>2
<1> QED
  BY <1>2, <1>3 DEF UpdateVmInfoCheck

LEMMA PutSafe ==
    ASSUME Safe, NEW p \in Procs, UpdateVmInfoPut(p)
    PROVE  Made' /\ Unasked' /\ Listed'
<1>1. pc[p] \in SaveLabels
  BY CreatorIsProc DEF Safe, UpdateVmInfoPut, TypeInv, TypeOK, MutexHeld
<1> QED
  BY <1>1, SavedSafe DEF UpdateVmInfoPut

-----------------------------------------------------------------------------
(* FetchVmStatus. *)

LEMMA FetchReturnSafe ==
    ASSUME Safe, NEW p \in Procs, NEW r, FetchReturn(p, r), pc[p] \in FetchLabels,
           UNCHANGED <<vm, act, obj, csp, attached, asked, deleted, cache>>,
           AllClean => r # "Terminated"
    PROVE  Made' /\ Unasked' /\ Listed'
<1>1. OthersStay(p) /\ pc'[p] = AfterFetch(p) /\ want'[p] = NewVm /\ seen'[p] = Nothing
  BY LocalsTyped DEF Safe, FetchReturn, Goto, OthersStay
<1>2. AfterFetch(p) \in {"crResult", "after", "idle"}
  BY DEF AfterFetch
<1>3. (NoneNamed => ~OwnNamed(p)) /\ (AllClean => OwnClean(p))
  BY <1>1, RecordsFrom
<1>4. AllClean /\ NothingSaysSo => ret' # "Terminated" /\ seen'[p].native # "Terminated"
  BY <1>1 DEF FetchReturn, Return, Nothing, NothingSaysSo
<1>5. Accepted(p)' => Accepted(p)
  BY DEF Accepted
<1>6. NothingSaysSo => cache'.status # "Terminated"
  BY DEF NothingSaysSo
<1> QED
  BY <1>1, <1>2, <1>3, <1>4, <1>5, <1>6, LocalStep

\* A step inside FetchVmStatus that changes at most want and seen.
LEMMA FetchOnSafe ==
    ASSUME Safe, NEW p \in Procs, pc[p] \in FetchLabels, OthersStay(p),
           UNCHANGED <<vm, act, obj, ret, csp, attached, asked, deleted>>,
           cache'.controls = cache.controls, NothingSaysSo => cache'.status # "Terminated",
           pc'[p] \in {"fetchCsp", "fetchRead", "fetchIp", "fetchCheck", "fetchSave"},
           pc'[p] = "fetchCsp" => vm.named,
           NoneNamed => ~want'[p].named,
           AllClean /\ NothingSaysSo => Clean(want'[p]) /\ seen'[p].native # "Terminated"
    PROVE  Made' /\ Unasked' /\ Listed'
<1>1. NoneNamed => ~OwnNamed(p)
  BY DEF NoneNamed, OwnNamed
<1>2. AllClean /\ NothingSaysSo => OwnClean(p) /\ ret' # "Terminated"
  BY DEF AllClean, NothingSaysSo, OwnClean, Clean
<1>3. Accepted(p)' => Accepted(p)
  BY DEF Accepted
<1>4. pc'[p] = "fetchCsp" => csp # "Absent"
  BY DEF Safe, Made, NoneNamed
<1> QED
  BY <1>1, <1>2, <1>3, <1>4, LocalStep

LEMMA FetchFirstReadSafe ==
    ASSUME Safe, NEW p \in Procs, FetchFirstRead(p)
    PROVE  Made' /\ Unasked' /\ Listed'
<1>1. UNCHANGED <<vm, act, obj, csp, attached, asked, deleted, cache>> /\ pc[p] \in FetchLabels
  BY DEF FetchFirstRead, countVars, FetchLabels
<1>2. CASE FetchReturn(p, "error") \/ FetchReturn(p, vm.status)
  BY <1>1, <1>2, FetchReturnSafe DEF AllClean, Clean
<1>3. CASE /\ Goto(p, IF vm.named /\ vm.status # "Terminated" THEN "fetchCsp" ELSE "fetchRead")
           /\ seen' = [seen EXCEPT ![p] = [native |-> "Undefined", named |-> vm.named]]
           /\ UNCHANGED <<want, ret>>
  <2>1. OthersStay(p) /\ seen'[p].native = "Undefined"
    BY <1>1, <1>3, LocalsTyped DEF Safe, Goto, OthersStay
  <2>2. pc'[p] \in {"fetchCsp", "fetchRead"} /\ (pc'[p] = "fetchCsp" => vm.named)
    BY <1>3, LocalsTyped DEF Safe, Goto
  <2>3. (NoneNamed => ~want'[p].named) /\ (AllClean => Clean(want'[p]))
    BY <1>3 DEF NoneNamed, AllClean
  <2>4. NothingSaysSo => cache'.status # "Terminated"
    BY <1>1 DEF NothingSaysSo
  <2> QED
    BY <1>1, <1>3, <2>1, <2>2, <2>3, <2>4, FetchOnSafe
<1> QED
  BY <1>2, <1>3 DEF FetchFirstRead

LEMMA FetchSecondReadSafe ==
    ASSUME Safe, NEW p \in Procs, FetchSecondRead(p)
    PROVE  Made' /\ Unasked' /\ Listed'
<1>1. UNCHANGED <<vm, act, obj, csp, attached, asked, deleted, cache>> /\ pc[p] \in FetchLabels
  BY DEF FetchSecondRead, countVars, FetchLabels
<1>2. CASE FetchReturn(p, "error")
  BY <1>1, <1>2, FetchReturnSafe
<1>3. CASE /\ want' = [want EXCEPT ![p] = Refreshed(vm, seen[p].native)]
           /\ \E l \in {"fetchIp", "fetchCheck"} : Goto(p, l)
           /\ seen' = [seen EXCEPT ![p].native = "Undefined"]
           /\ UNCHANGED ret
  <2>1. OthersStay(p) /\ seen'[p].native = "Undefined" /\ want'[p] = Refreshed(vm, seen[p].native)
        /\ pc'[p] \in {"fetchIp", "fetchCheck"}
    BY <1>1, <1>3, LocalsTyped DEF Safe, Goto, OthersStay
  <2>2. want'[p].named = vm.named
        /\ (Clean(vm) /\ seen[p].native # "Terminated" => Clean(want'[p]))
    BY <2>1, LocalsTyped, RefreshedKeeps DEF Safe
  <2>3. NoneNamed => ~want'[p].named
    BY <2>2 DEF NoneNamed
  <2>4. AllClean /\ NothingSaysSo => Clean(want'[p])
    BY <2>2 DEF AllClean, NothingSaysSo
  <2>5. NothingSaysSo => cache'.status # "Terminated"
    BY <1>1 DEF NothingSaysSo
  <2> QED
    BY <1>1, <1>3, <2>1, <2>3, <2>4, <2>5, FetchOnSafe
<1> QED
  BY <1>2, <1>3 DEF FetchSecondRead

LEMMA FetchThirdReadSafe ==
    ASSUME Safe, NEW p \in Procs, FetchThirdRead(p)
    PROVE  Made' /\ Unasked' /\ Listed'
<1>1. UNCHANGED <<vm, act, obj, csp, attached, asked, deleted, cache>> /\ pc[p] \in FetchLabels
  BY DEF FetchThirdRead, countVars, FetchLabels
<1>2. CASE FetchReturn(p, want[p].status)
  BY <1>1, <1>2, FetchReturnSafe DEF AllClean, Clean
<1>3. CASE Goto(p, "fetchSave") /\ seen' = [seen EXCEPT ![p] = Nothing] /\ UNCHANGED <<want, ret>>
  <2>1. OthersStay(p) /\ seen'[p].native # "Terminated" /\ pc'[p] = "fetchSave"
    BY <1>1, <1>3, LocalsTyped DEF Safe, Goto, OthersStay, Nothing
  <2>2. (NoneNamed => ~want'[p].named) /\ (AllClean => Clean(want'[p]))
    BY <1>3 DEF NoneNamed, AllClean
  <2>3. NothingSaysSo => cache'.status # "Terminated"
    BY <1>1 DEF NothingSaysSo
  <2> QED
    BY <1>1, <1>3, <2>1, <2>2, <2>3, FetchOnSafe
<1> QED
  BY <1>2, <1>3 DEF FetchThirdRead

LEMMA FetchNativeStatusSafe ==
    ASSUME Safe, NEW p \in Procs, FetchNativeStatus(p)
    PROVE  Made' /\ Unasked' /\ Listed'
<1>1. /\ UNCHANGED <<vm, act, obj, want, ret, csp, attached, asked, deleted>>
      /\ pc[p] = "fetchCsp" /\ pc[p] \in FetchLabels
      /\ pc' = [pc EXCEPT ![p] = "fetchRead"]
  BY DEF FetchNativeStatus, Goto, FetchLabels
<1>2. seen' = seen \/ \E s \in Statuses : seen' = [seen EXCEPT ![p].native = s]
  <2>1. \A s \in Reports(csp) : s \in Statuses
    BY LocalsTyped, ReportsType DEF Safe
  <2>2. cache.status # "none" => cache.status \in Statuses
    BY LocalsTyped DEF Safe
  <2> QED
    BY <2>1, <2>2 DEF FetchNativeStatus
<1>3. OthersStay(p) /\ pc'[p] = "fetchRead"
  BY <1>1, <1>2, LocalsTyped DEF Safe, OthersStay
<1>4. ASSUME NothingSaysSo, NEW s \in Reports(csp) PROVE s # "Terminated"
  <2>1. csp \in {"Running", "Suspended", "Suspending", "Resuming", "Rebooting"}
    BY <1>1, <1>4, LocalsTyped DEF Safe, Made, NothingSaysSo, Down, CspStates
  <2>2. "Terminated" \notin Reports(csp)
    BY <2>1 DEF Reports
  <2> QED
    BY <2>2
<1>5. /\ cache'.controls = cache.controls
      /\ NothingSaysSo => cache'.status # "Terminated"
  <2>1. \A s \in Reports(csp) : Cached("status", s).controls = cache.controls
           /\ (NothingSaysSo => Cached("status", s).status # "Terminated")
    BY <1>4, LocalsTyped DEF Safe, Cached, NothingSaysSo
  <2>2. cache' = cache \/ \E s \in Reports(csp) : cache' = Cached("status", s)
    BY DEF FetchNativeStatus
  <2> QED
    BY <2>1, <2>2 DEF NothingSaysSo
<1>6. NothingSaysSo => seen'[p].native # "Terminated"
  <2>1. seen' = seen \/ \E s \in Reports(csp) \cup {cache.status} : seen' = [seen EXCEPT ![p].native = s]
    BY DEF FetchNativeStatus
  <2> QED
    BY <1>4, <2>1, LocalsTyped DEF Safe, NothingSaysSo
<1>7. (NoneNamed => ~want'[p].named) /\ (AllClean => Clean(want'[p]))
  BY <1>1 DEF NoneNamed, AllClean
<1> QED
  BY <1>1, <1>3, <1>5, <1>6, <1>7, FetchOnSafe

\* An address from the CSP or from the cache: nothing else changes.
LEMMA PublicIpSafe ==
    ASSUME Safe, NEW i \in IPs, PublicIpIs(i)
    PROVE  cache'.controls = cache.controls /\ (NothingSaysSo => cache'.status # "Terminated")
BY LocalsTyped DEF Safe, PublicIpIs, Cached, NothingSaysSo

LEMMA FetchPublicIpSafe ==
    ASSUME Safe, NEW p \in Procs, FetchPublicIp(p)
    PROVE  Made' /\ Unasked' /\ Listed'
<1>1. UNCHANGED <<vm, act, obj, csp, attached, asked, deleted>> /\ pc[p] \in FetchLabels
  BY DEF FetchPublicIp, FetchLabels
<1>2. CASE FetchReturn(p, "error") /\ UNCHANGED cache
  BY <1>1, <1>2, FetchReturnSafe
<1>3. CASE \E i \in IPs : PublicIpIs(i) /\ want' = [want EXCEPT ![p].ip = i]
                          /\ Goto(p, "fetchCheck") /\ UNCHANGED <<seen, ret>>
  <2>1. PICK i \in IPs : PublicIpIs(i) /\ want' = [want EXCEPT ![p].ip = i]
    BY <1>3
  <2>2. OthersStay(p) /\ pc'[p] = "fetchCheck"
    BY <1>1, <1>3, <2>1, LocalsTyped DEF Safe, Goto, OthersStay
  <2>3. want'[p].named = want[p].named /\ (Clean(want[p]) => Clean(want'[p]))
    BY <2>1, LocalsTyped DEF Safe, Clean, VmRecord
  <2>4. NoneNamed => ~want'[p].named
    BY <2>3 DEF NoneNamed
  <2>5. AllClean /\ NothingSaysSo => Clean(want'[p]) /\ seen'[p].native # "Terminated"
    BY <1>3, <2>3 DEF AllClean, NothingSaysSo
  <2> QED
    BY <1>1, <1>3, <2>1, <2>2, <2>4, <2>5, PublicIpSafe, FetchOnSafe
<1> QED
  BY <1>2, <1>3 DEF FetchPublicIp

-----------------------------------------------------------------------------
(* Starting a request, and CreateVm. *)

LEMMA PollSafe ==
    ASSUME Safe, NEW p \in Pollers, Poll(p)
    PROVE  Made' /\ Unasked' /\ Listed'
<1>1. p \in Procs /\ UNCHANGED <<vm, csp, attached, cache, localVars, asked, deleted>>
  BY DEF Poll, Procs, countVars
<1>2. OthersStay(p) /\ pc'[p] = "fetch" /\ act'[p] = act[p] /\ act[p] = "None"
  BY <1>1, LocalsTyped, ProcessAssumption DEF Safe, Listed, OnlyAccepted, Poll, Goto, OthersStay, localVars
<1>3. (NoneNamed => ~OwnNamed(p)) /\ (AllClean => OwnClean(p))
  BY <1>1, RecordsFrom DEF localVars
<1>4. NothingSaysSo => /\ cache'.status # "Terminated" /\ ret' # "Terminated"
                       /\ seen'[p].native # "Terminated"
  BY <1>1 DEF NothingSaysSo, localVars
<1>5. ~Accepted(p)'
  BY <1>2 DEF Accepted
<1> QED
  BY <1>1, <1>2, <1>3, <1>4, <1>5, LocalStep

LEMMA RequestSafe ==
    ASSUME Safe, NEW c \in Controllers, NEW a \in Controls, Request(c, a)
    PROVE  Made' /\ Unasked' /\ Listed'
<1>1. c \in Procs /\ UNCHANGED <<vm, csp, attached, cache, obj, seen, want, ret, asked, deleted>>
  BY DEF Request, Procs
<1>2. OthersStay(c) /\ pc'[c] = "begin"
  BY <1>1, LocalsTyped DEF Safe, Request, Goto, OthersStay
<1>3. (NoneNamed => ~OwnNamed(c)) /\ (AllClean => OwnClean(c))
  BY <1>1, RecordsFrom
<1>4. ~Accepted(c)'
  BY <1>2 DEF Accepted, FetchLabels
<1>5. Made'
  <2>1. c # Creator
    BY ProcessAssumption
  <2> QED
    BY <1>1, <1>2, <1>3, <2>1, CreatorIsProc, MadeStep DEF Safe, Made, OthersStay
<1>6. Unasked'
  BY <1>1, <1>2, <1>3, UnaskedStep DEF Safe, Down, NothingSaysSo
<1>7. Listed'
  BY <1>1, <1>2, <1>3, <1>4, ListedStep DEF Safe, Down
<1> QED
  BY <1>5, <1>6, <1>7

LEMMA CreateVmObjectSafe ==
    ASSUME Safe, CreateVmObject
    PROVE  Made' /\ Unasked' /\ Listed'
<1>1. /\ Creator \in Procs /\ pc[Creator] = "none"
      /\ UNCHANGED <<csp, attached, cache, localVars, asked, deleted>> /\ vm' = NewVm
  BY CreatorIsProc DEF CreateVmObject, countVars
<1>2. OthersStay(Creator) /\ pc'[Creator] = "post" /\ act'[Creator] = "None"
  BY <1>1, LocalsTyped, ProcessAssumption DEF Safe, Listed, OnlyAccepted, CreateVmObject, Goto, OthersStay, localVars
<1>3. (NoneNamed => ~OwnNamed(Creator)) /\ (AllClean => OwnClean(Creator))
  BY <1>1, RecordsFrom DEF localVars
<1>4. Made'
  BY <1>1, <1>2, <1>3, MadeStep DEF Safe, Made
<1>5. Unasked'
  BY <1>1, <1>2, <1>3, UnaskedStep DEF Safe, Down, NothingSaysSo, localVars
<1>6. Listed'
  BY <1>1, <1>2, <1>3, ListedStep DEF Safe, Down, Accepted
<1> QED
  BY <1>4, <1>5, <1>6

\* What CreateVm sets in its own record.
LEMMA SubmitOwn ==
    ASSUME Safe, NEW rec \in VmRecord, NEW l, Submit(Creator, rec, l),
           UNCHANGED <<vm, act, seen>>
    PROVE  /\ OthersStay(Creator)
           /\ pc'[Creator] = l /\ act'[Creator] = "None"
           /\ want'[Creator] = rec /\ obj'[Creator] = rec
<1>1. Creator \in Procs /\ act[Creator] = "None"
  BY CreatorIsProc, ProcessAssumption DEF Safe, Listed, OnlyAccepted
<1> QED
  BY <1>1, LocalsTyped DEF Safe, Submit, Goto, OthersStay

LEMMA CreatorFailed ==
    ASSUME Safe, NEW st \in Statuses, NEW a \in {"None", obj[Creator].action}, NEW l,
           Submit(Creator, [obj[Creator] EXCEPT !.status = st, !.action = a], l),
           UNCHANGED <<vm, act, seen>>, AllClean /\ NothingSaysSo => st # "Terminated"
    PROVE  /\ NoneNamed => ~OwnNamed(Creator)
           /\ AllClean /\ NothingSaysSo => OwnClean(Creator)
<1> DEFINE rec == [obj[Creator] EXCEPT !.status = st, !.action = a]
<1>1. Creator \in Procs /\ obj[Creator] \in VmRecord
  BY CreatorIsProc, LocalsTyped DEF Safe
<1>2. rec \in VmRecord /\ rec.named = obj[Creator].named /\ rec.status = st /\ rec.action = a
  BY <1>1 DEF VmRecord, Actions
<1>3. want'[Creator] = rec /\ obj'[Creator] = rec
  BY <1>2, SubmitOwn
<1> QED
  BY <1>1, <1>2, <1>3 DEF NoneNamed, OwnNamed, AllClean, OwnClean, Clean

LEMMA CreateVmPostSafe ==
    ASSUME Safe, CreateVmPost
    PROVE  Made' /\ Unasked' /\ Listed'
<1>1. /\ Creator \in Procs /\ pc[Creator] = "post" /\ csp = "Absent"
      /\ UNCHANGED <<vm, cache, act, seen, ret, asked, deleted>>
      /\ csp' \in {"Absent", "Running"} /\ (attached => attached')
  <2>1. /\ Creator \in Procs /\ pc[Creator] = "post" /\ csp = "Absent"
        /\ UNCHANGED <<vm, cache, act, seen, ret, asked, deleted>>
    BY CreatorIsProc DEF Safe, Made, CreateVmPost
  <2>2. csp' \in {"Absent", "Running"} /\ (attached' = TRUE \/ attached' = attached)
    BY <2>1 DEF CreateVmPost
  <2> QED
    BY <2>1, <2>2
<1>2. NoneNamed
  BY <1>1 DEF Safe, Made
<1>3. NothingSaysSo => cache'.status # "Terminated" /\ ret' # "Terminated" /\ seen'[Creator].native # "Terminated"
  BY <1>1 DEF NothingSaysSo
<1>4. CASE csp' = "Running" /\ attached' = TRUE
           /\ \E i \in IPs : Submit(Creator, [obj[Creator] EXCEPT !.named = TRUE, !.ip = i], "crSave")
  <2>1. PICK rec \in VmRecord : Submit(Creator, rec, "crSave")
                               /\ rec.status = obj[Creator].status /\ rec.action = obj[Creator].action
    <3>1. obj[Creator] \in VmRecord
      BY <1>1, LocalsTyped DEF Safe
    <3>2. PICK i \in IPs : Submit(Creator, [obj[Creator] EXCEPT !.named = TRUE, !.ip = i], "crSave")
      BY <1>4
    <3>3. [obj[Creator] EXCEPT !.named = TRUE, !.ip = i].status = obj[Creator].status
          /\ [obj[Creator] EXCEPT !.named = TRUE, !.ip = i].action = obj[Creator].action
          /\ [obj[Creator] EXCEPT !.named = TRUE, !.ip = i] \in VmRecord
      BY <3>1 DEF VmRecord
    <3> QED
      BY <3>2, <3>3
  <2>2. OthersStay(Creator) /\ pc'[Creator] = "crSave" /\ act'[Creator] = "None"
        /\ want'[Creator] = rec /\ obj'[Creator] = rec
    BY <1>1, <2>1, SubmitOwn
  <2>3. AllClean => OwnClean(Creator)
    BY <1>1, <2>1, <2>2 DEF AllClean, OwnClean, Clean
  <2>4. Made'
    BY <1>1, <1>4, <2>2, MadeStep DEF Safe
  <2>5. Unasked'
    BY <1>1, <1>3, <1>4, <2>2, <2>3, UnaskedStep DEF Safe, Down
  <2>6. Listed'
    BY <1>1, <1>4, <2>2, ListedStep DEF Safe, Down, Accepted
  <2> QED
    BY <2>4, <2>5, <2>6
<1>5. CASE Submit(Creator, [obj[Creator] EXCEPT !.status = "Failed"], "crFail")
  <2>1. [obj[Creator] EXCEPT !.status = "Failed"] \in VmRecord
    BY CreatorRecordType DEF Safe
  <2>2. Submit(Creator, [obj[Creator] EXCEPT !.status = "Failed", !.action = obj[Creator].action], "crFail")
    BY <1>1, <1>5, LocalsTyped DEF Safe, VmRecord, Submit
  <2>3. OthersStay(Creator) /\ pc'[Creator] = "crFail" /\ act'[Creator] = "None"
    BY <1>1, <1>5, <2>1, SubmitOwn
  <2>4. (NoneNamed => ~OwnNamed(Creator)) /\ (AllClean /\ NothingSaysSo => OwnClean(Creator))
    BY <1>1, <2>2, StatusNames, CreatorFailed
  <2>5. Made'
    BY <1>1, <1>2, <2>3, <2>4, MadeStep DEF Safe
  <2>6. Unasked'
    BY <1>1, <1>3, <2>3, <2>4, UnaskedStep DEF Safe, Down
  <2>7. Listed'
    BY <1>1, <2>3, <2>4, ListedStep DEF Safe, Down, Accepted
  <2> QED
    BY <2>5, <2>6, <2>7
<1>6. CASE Goto(Creator, "done") /\ UNCHANGED <<csp, attached, obj, want>>
  <2>1. OthersStay(Creator) /\ pc'[Creator] = "done" /\ act'[Creator] = act[Creator]
    BY <1>1, <1>6, LocalsTyped DEF Safe, Goto, OthersStay
  <2>2. (NoneNamed => ~OwnNamed(Creator)) /\ (AllClean => OwnClean(Creator))
    BY <1>1, <1>6, RecordsFrom
  <2>3. ~Accepted(Creator)'
    BY <2>1 DEF Accepted, FetchLabels
  <2> QED
    BY <1>1, <1>3, <1>6, <2>1, <2>2, <2>3, LocalStep
<1> QED
  BY <1>4, <1>5, <1>6 DEF CreateVmPost

LEMMA CreateVmResultSafe ==
    ASSUME Safe, CreateVmResult
    PROVE  Made' /\ Unasked' /\ Listed'
<1>1. /\ Creator \in Procs /\ pc[Creator] = "crResult"
      /\ UNCHANGED <<vm, csp, attached, cache, act, seen, ret, asked, deleted>>
  BY CreatorIsProc DEF CreateVmResult, countVars
<1>2. NothingSaysSo => cache'.status # "Terminated" /\ ret' # "Terminated" /\ seen'[Creator].native # "Terminated"
  BY <1>1 DEF NothingSaysSo
<1>3. ret = "error" \/ ret \in Statuses
  BY <1>1 DEF Safe, TypeInv, TypeOK, RetKnown, LocalType
<1>4. PICK st \in Statuses, l \in {"crEnd", "crFail"} :
         /\ Submit(Creator, [obj[Creator] EXCEPT !.status = st, !.action = "None"], l)
         /\ st = "Failed" \/ st = ret
  BY <1>3, StatusNames DEF CreateVmResult
<1>5. [obj[Creator] EXCEPT !.status = st, !.action = "None"] \in VmRecord
  BY CreatorRecordType DEF Safe
<1>6. OthersStay(Creator) /\ pc'[Creator] = l /\ act'[Creator] = "None"
  BY <1>1, <1>4, <1>5, SubmitOwn
<1>7. AllClean /\ NothingSaysSo => st # "Terminated"
  BY <1>4 DEF NothingSaysSo
<1>8. (NoneNamed => ~OwnNamed(Creator)) /\ (AllClean /\ NothingSaysSo => OwnClean(Creator))
  BY <1>1, <1>4, <1>7, CreatorFailed
<1>9. ~Accepted(Creator)'
  BY <1>6 DEF Accepted
<1> QED
  BY <1>1, <1>2, <1>6, <1>8, <1>9, LocalStep

LEMMA CreateVmLabelSafe ==
    ASSUME Safe, CreateVmLabel
    PROVE  Made' /\ Unasked' /\ Listed'
<1>1. /\ Creator \in Procs
      /\ UNCHANGED <<vm, csp, attached, cache, act, seen, ret, asked, deleted>>
  BY CreatorIsProc DEF CreateVmLabel
<1>2. NothingSaysSo => cache'.status # "Terminated" /\ ret' # "Terminated" /\ seen'[Creator].native # "Terminated"
  BY <1>1 DEF NothingSaysSo
<1>3. CASE Submit(Creator, [obj[Creator] EXCEPT !.status = "Failed"], "crFail")
  <2>1. [obj[Creator] EXCEPT !.status = "Failed"] \in VmRecord
    BY CreatorRecordType DEF Safe
  <2>2. Submit(Creator, [obj[Creator] EXCEPT !.status = "Failed", !.action = obj[Creator].action], "crFail")
    BY <1>1, <1>3, LocalsTyped DEF Safe, VmRecord, Submit
  <2>3. OthersStay(Creator) /\ pc'[Creator] = "crFail" /\ act'[Creator] = "None"
    BY <1>1, <1>3, <2>1, SubmitOwn
  <2>4. (NoneNamed => ~OwnNamed(Creator)) /\ (AllClean /\ NothingSaysSo => OwnClean(Creator))
    BY <1>1, <2>2, StatusNames, CreatorFailed
  <2>5. ~Accepted(Creator)'
    BY <2>3 DEF Accepted
  <2> QED
    BY <1>1, <1>2, <2>3, <2>4, <2>5, LocalStep
<1>4. CASE Goto(Creator, "done") /\ UNCHANGED <<obj, want>>
  <2>1. OthersStay(Creator) /\ pc'[Creator] = "done" /\ act'[Creator] = act[Creator]
    BY <1>1, <1>4, LocalsTyped DEF Safe, Goto, OthersStay
  <2>2. (NoneNamed => ~OwnNamed(Creator)) /\ (AllClean => OwnClean(Creator))
    BY <1>1, <1>4, RecordsFrom
  <2>3. ~Accepted(Creator)'
    BY <2>1 DEF Accepted, FetchLabels
  <2> QED
    BY <1>1, <1>2, <2>1, <2>2, <2>3, LocalStep
<1> QED
  BY <1>3, <1>4 DEF CreateVmLabel

-----------------------------------------------------------------------------
(* ControlVmAsync. *)

LEMMA EnterOwn ==
    ASSUME Safe, NEW c \in Procs, NEW l, Enter(c, l)
    PROVE  /\ pc'[c] = l /\ act'[c] \in {act[c], "None"} /\ obj'[c] \in {obj[c], NewVm}
           /\ \A q \in Procs : q # c => pc'[q] = pc[q] /\ act'[q] = act[q] /\ obj'[q] = obj[q]
BY LocalsTyped DEF Safe, Enter, Goto

LEMMA ControlReadSafe ==
    ASSUME Safe, NEW c \in Procs, ControlRead(c)
    PROVE  Made' /\ Unasked' /\ Listed'
<1>1. pc[c] = "begin" /\ act[c] \in Controls
      /\ UNCHANGED <<vm, csp, attached, cache, seen, ret, deleted>>
  BY DEF ControlRead, Safe, TypeInv, ActKnown
<1>2. NothingSaysSo => cache'.status # "Terminated" /\ ret' # "Terminated" /\ seen'[c].native # "Terminated"
  BY <1>1 DEF NothingSaysSo
<1>3. CASE Enter(c, "idle") /\ UNCHANGED <<want, asked>>
  <2>1. OthersStay(c) /\ pc'[c] = "idle" /\ act'[c] \in {act[c], "None"} /\ obj'[c] \in {obj[c], NewVm}
    BY <1>1, <1>3, EnterOwn DEF OthersStay
  <2>2. (NoneNamed => ~OwnNamed(c)) /\ (AllClean => OwnClean(c))
    BY <1>1, <1>3, <2>1, RecordsFrom
  <2>3. ~Accepted(c)'
    BY <2>1 DEF Accepted, FetchLabels
  <2> QED
    BY <1>1, <1>2, <1>3, <2>1, <2>2, <2>3, LocalStep
<1>4. CASE Submit(c, vm, "invalid") /\ UNCHANGED <<act, asked>>
  <2>1. OthersStay(c) /\ pc'[c] = "invalid" /\ want'[c] = vm /\ obj'[c] = vm
    BY <1>1, <1>4, LocalsTyped DEF Safe, Submit, Goto, OthersStay
  <2>2. (NoneNamed => ~OwnNamed(c)) /\ (AllClean => OwnClean(c))
    BY <1>1, <2>1, RecordsFrom
  <2>3. ~Accepted(c)'
    BY <2>1 DEF Accepted, FetchLabels
  <2> QED
    BY <1>1, <1>2, <1>4, <2>1, <2>2, <2>3, LocalStep
<1>5. CASE Submit(c, Intent(vm, act[c]), "intent") /\ UNCHANGED act
           /\ asked' = (asked \/ act[c] = "Terminate")
  <2>1. OthersStay(c) /\ pc'[c] = "intent" /\ act'[c] = act[c]
        /\ want'[c] = Intent(vm, act[c]) /\ obj'[c] = Intent(vm, act[c])
    BY <1>1, <1>5, LocalsTyped DEF Safe, Submit, Goto, OthersStay
  <2>2. NoneNamed => ~OwnNamed(c)
    BY <1>1, <2>1, IntentKeeps, LocalsTyped DEF Safe, NoneNamed, OwnNamed
  <2>3. AllClean => asked' \/ OwnClean(c)
    BY <1>1, <1>5, <2>1, IntentKeeps, LocalsTyped DEF Safe, AllClean, OwnClean, Clean
  <2>4. asked' \/ act'[c] # "Terminate"
    BY <1>5, <2>1
  <2>5. Made'
    <3>1. c # Creator
      BY <1>1, ProcessAssumption, StatusNames DEF Safe, Listed, OnlyAccepted
    <3> QED
      BY <1>1, <2>1, <2>2, <3>1, CreatorIsProc, MadeStep DEF Safe, Made, OthersStay
  <2>6. Unasked'
    BY <1>1, <1>2, <1>5, <2>1, <2>3, <2>4, UnaskedStep DEF Safe, Down
  <2>7. Listed'
    <3>1. ~Accepted(c)'
      BY <2>1 DEF Accepted, FetchLabels
    <3> QED
      BY <1>1, <2>1, <2>2, <3>1, ListedStep DEF Safe, Down, Listed, OnlyAccepted
  <2> QED
    BY <2>5, <2>6, <2>7
<1> QED
  BY <1>3, <1>4, <1>5 DEF ControlRead

LEMMA ControlCallSafe ==
    ASSUME Safe, NEW c \in Procs, ControlCall(c)
    PROVE  Made' /\ Unasked' /\ Listed'
<1>1. pc[c] = "call" /\ act[c] \in Controls
      /\ UNCHANGED <<vm, attached, seen, want, ret, asked, deleted>>
  BY DEF ControlCall, Safe, TypeInv, ActKnown
<1>2. PICK l \in {"idle", "fetch"} : Enter(c, l)
  BY DEF ControlCall, OnError
<1>3. OthersStay(c) /\ pc'[c] = l /\ act'[c] \in {act[c], "None"} /\ obj'[c] \in {obj[c], NewVm}
  BY <1>1, <1>2, EnterOwn DEF OthersStay
<1>4. (NoneNamed => ~OwnNamed(c)) /\ (AllClean => OwnClean(c))
  BY <1>1, <1>3, RecordsFrom
<1>5. csp' = csp \/ (Accepts(csp, act[c]) /\ csp' = During(act[c]))
  BY DEF ControlCall
<1>6. (csp' = "Absent" => csp = "Absent") /\ (csp = "Absent" => csp' = csp)
      /\ (Down => Down') /\ (act[c] # "Terminate" /\ ~Down => ~Down')
  BY <1>1, <1>5 DEF Accepts, During, Down, Controls
<1>7. "Terminate" \notin cache.controls => "Terminate" \notin cache'.controls
  BY LocalsTyped DEF Safe, ControlCall, Cached
<1>8. NothingSaysSo => cache'.status # "Terminated" /\ ret' # "Terminated" /\ seen'[c].native # "Terminated"
  BY <1>1, LocalsTyped DEF Safe, ControlCall, Cached, NothingSaysSo
<1>9. c # Creator /\ pc'[c] \notin {"none", "post", "fetchCsp", "intent", "call", "crSave"}
  BY <1>1, <1>3, ProcessAssumption, StatusNames DEF Safe, Listed, OnlyAccepted
<1>10. Made'
  BY <1>3, <1>4, <1>6, <1>9, CreatorIsProc, MadeStep DEF Safe, Made, OthersStay
<1>11. Unasked'
  <2>1. ~asked => act[c] # "Terminate"
    BY <1>1 DEF Safe, Unasked, NothingSaysSo
  <2> QED
    BY <1>1, <1>3, <1>4, <1>6, <1>8, <1>9, <2>1, UnaskedStep DEF Safe
<1>12. Listed'
  <2>1. ASSUME Accepted(c)' PROVE Down'
    <3>1. l = "fetch" /\ act[c] = "Terminate" /\ ~AnsweredFromCache(c)
      BY <1>3, <2>1 DEF Accepted, FetchLabels, AnsweredFromCache, Safe, Listed, OnlyAccepted
    <3>2. csp' = During(act[c]) \/ pc'[c] = "idle"
      BY <3>1, EnterOwn DEF ControlCall, OnError
    <3> QED
      BY <1>3, <3>1, <3>2 DEF During, Down
  <2> QED
    BY <1>1, <1>3, <1>4, <1>6, <1>7, <1>9, <2>1, ListedStep DEF Safe, Listed, OnlyAccepted
<1> QED
  BY <1>10, <1>11, <1>12

LEMMA ControlAfterSafe ==
    ASSUME Safe, NEW c \in Procs, ControlAfter(c)
    PROVE  Made' /\ Unasked' /\ Listed'
<1>1. pc[c] = "after" /\ UNCHANGED <<vm, csp, cache, seen, want, ret, asked, deleted>>
  BY DEF ControlAfter, countVars
<1>2. PICK l \in {"idle", "ipGet"} : Enter(c, l)
  BY DEF ControlAfter
<1>3. OthersStay(c) /\ pc'[c] = l /\ act'[c] \in {act[c], "None"} /\ obj'[c] \in {obj[c], NewVm}
  BY <1>1, <1>2, EnterOwn DEF OthersStay
<1>4. (NoneNamed => ~OwnNamed(c)) /\ (AllClean => OwnClean(c))
  BY <1>1, <1>3, RecordsFrom
<1>5. NothingSaysSo => cache'.status # "Terminated" /\ ret' # "Terminated" /\ seen'[c].native # "Terminated"
  BY <1>1 DEF NothingSaysSo
<1>6. ~Accepted(c)'
  BY <1>3 DEF Accepted, FetchLabels
<1>7. Made' /\ Unasked'
  <2>1. pc'[Creator] \in {"none", "post"} => csp' = "Absent"
    BY <1>1, <1>3, CreatorIsProc DEF Safe, Made, OthersStay
  <2>2. Made'
    BY <1>1, <1>3, <1>4, <2>1, MadeStep DEF Safe, Made
  <2>3. Unasked'
    BY <1>1, <1>3, <1>4, <1>5, UnaskedStep DEF Safe, Down
  <2> QED
    BY <2>2, <2>3
<1>8. attached => attached' \/ Down'
  <2>1. CASE act[c] = "Terminate"
    BY <1>1, <2>1 DEF Safe, Listed, OnlyAccepted, Accepted, Down
  <2>2. CASE act[c] # "Terminate"
    BY <2>2 DEF ControlAfter
  <2> QED
    BY <2>1, <2>2
<1>9. Listed'
  BY <1>1, <1>3, <1>4, <1>6, <1>8, ListedStep DEF Safe, Down, Listed, OnlyAccepted
<1> QED
  BY <1>7, <1>9

LEMMA ControlPublicIpSafe ==
    ASSUME Safe, NEW c \in Procs, ControlPublicIp(c)
    PROVE  Made' /\ Unasked' /\ Listed'
<1>1. pc[c] = "ipGet" /\ UNCHANGED <<vm, csp, attached, seen, ret, asked, deleted>>
  BY DEF ControlPublicIp
<1>2. PICK l \in {"idle", "ipSave"} : Enter(c, l)
  BY DEF ControlPublicIp
<1>3. want' = want \/ \E i \in IPs : want' = [want EXCEPT ![c] = [obj[c] EXCEPT !.ip = i]]
  BY DEF ControlPublicIp
<1>4. OthersStay(c) /\ pc'[c] = l /\ act'[c] \in {act[c], "None"} /\ obj'[c] \in {obj[c], NewVm}
  BY <1>1, <1>2, <1>3, EnterOwn, LocalsTyped DEF Safe, OthersStay
<1>5. want'[c] \in {want[c]} \cup {[obj[c] EXCEPT !.ip = i] : i \in IPs}
  BY <1>3, LocalsTyped DEF Safe
<1>6. \A i \in IPs : [obj[c] EXCEPT !.ip = i].named = obj[c].named
                     /\ (Clean(obj[c]) => Clean([obj[c] EXCEPT !.ip = i]))
  BY LocalsTyped DEF Safe, Clean, VmRecord
<1>7. NoneNamed => ~OwnNamed(c)
  BY <1>1, <1>4, <1>5, <1>6, NewVmKeeps DEF NoneNamed, OwnNamed
<1>8. AllClean => OwnClean(c)
  BY <1>1, <1>4, <1>5, <1>6, NewVmKeeps DEF AllClean, OwnClean, Clean
<1>9. cache'.controls = cache.controls /\ (NothingSaysSo => cache'.status # "Terminated")
  BY PublicIpSafe DEF ControlPublicIp, NothingSaysSo
<1>10. NothingSaysSo => ret' # "Terminated" /\ seen'[c].native # "Terminated"
  BY <1>1 DEF NothingSaysSo
<1>11. ~Accepted(c)'
  BY <1>4 DEF Accepted, FetchLabels
<1> QED
  BY <1>1, <1>4, <1>7, <1>8, <1>9, <1>10, <1>11, LocalStep

LEMMA EnvironmentSafe ==
    ASSUME Safe, DelMciVm \/ CspProgress \/ CacheExpires
    PROVE  Made' /\ Unasked' /\ Listed'
<1>1. UNCHANGED <<vm, pc, act, obj, seen, want, ret, asked>> /\ (deleted => deleted')
  BY DEF DelMciVm, CspProgress, CacheExpires, localVars, countVars
<1>2. csp' = csp \/ (csp # "Absent" /\ csp' # "Absent" /\ (Down <=> Down'))
  BY DEF CspProgress, DelMciVm, CacheExpires, Down
<1>3. "Terminate" \notin cache.controls => "Terminate" \notin cache'.controls
  BY LocalsTyped DEF Safe, DelMciVm, CspProgress, CacheExpires
<1>4. cache.status # "Terminated" => cache'.status # "Terminated"
  BY LocalsTyped DEF Safe, DelMciVm, CspProgress, CacheExpires
<1>5. deleted' \/ attached' = attached
  BY DEF DelMciVm, CspProgress, CacheExpires
<1>6. Made'
  BY <1>1, <1>2 DEF Safe, Made, NoneNamed
<1>7. Unasked'
  BY <1>1, <1>2, <1>4 DEF Safe, Unasked, AllClean, Clean, NothingSaysSo, Down
<1>8. Listed'
  BY <1>1, <1>2, <1>3, <1>5 DEF Safe, Listed, OnlyAccepted, Accepted, NoneNamed, Down
<1> QED
  BY <1>6, <1>7, <1>8

-----------------------------------------------------------------------------
LEMMA SafeNext == Safe /\ [Next]_vars => Safe'
<1> SUFFICES ASSUME Safe, [Next]_vars PROVE Safe'
  OBVIOUS
<1>1. TypeInv'
  BY TypeNext DEF Safe
<1>2. CASE UNCHANGED vars
  <2>1. Made' /\ Unasked'
    BY <1>2 DEF vars, localVars, countVars, Safe, Made, NoneNamed, Unasked, AllClean, Clean, NothingSaysSo, Down
  <2>2. Listed'
    BY <1>2 DEF vars, localVars, countVars, Safe, Listed, OnlyAccepted, Accepted, NoneNamed, Down
  <2> QED
    BY <1>1, <2>1, <2>2 DEF Safe
<1>3. CASE CreateVmObject \/ CreateVm
  BY <1>1, <1>3, CreateVmObjectSafe, CreateVmPostSafe, CreateVmResultSafe, CreateVmLabelSafe
     DEF CreateVm, Safe
<1>4. CASE \E p \in Procs : UpdateVmInfoCheck(p) \/ UpdateVmInfoPut(p)
  BY <1>1, <1>4, CheckSafe, PutSafe DEF Safe
<1>5. CASE \E p \in Procs : Fetch(p)
  BY <1>1, <1>5, FetchFirstReadSafe, FetchNativeStatusSafe, FetchSecondReadSafe, FetchPublicIpSafe,
     FetchThirdReadSafe DEF Fetch, Safe
<1>6. CASE \E p \in Procs : Control(p)
  BY <1>1, <1>6, ControlReadSafe, ControlCallSafe, ControlAfterSafe, ControlPublicIpSafe DEF Control, Safe
<1>7. CASE \E p \in Pollers : Poll(p)
  BY <1>1, <1>7, PollSafe DEF Safe
<1>8. CASE \E c \in Controllers, a \in Controls : Request(c, a)
  BY <1>1, <1>8, RequestSafe DEF Safe
<1>9. CASE DelMciVm \/ CspProgress \/ CacheExpires
  BY <1>1, <1>9, EnvironmentSafe DEF Safe
<1> QED
  BY <1>2, <1>3, <1>4, <1>5, <1>6, <1>7, <1>8, <1>9 DEF Next, Step

LEMMA SafeAlways == Spec => []Safe
<1>1. Init => Safe
  BY SafeInit
<1>2. Safe /\ [Next]_vars => Safe'
  BY SafeNext
<1> QED
  BY <1>1, <1>2, PTL DEF Spec

\* However many goroutines poll and control a VM, whatever the CSP answers and
\* whichever calls fail: the record says Terminated only if termination was asked for.
THEOREM OnlyOnRequest == Spec => []NeverFalselyTerminated
<1>1. Safe => NeverFalselyTerminated
  BY DEF Safe, Unasked, AllClean, Clean, NeverFalselyTerminated
<1> QED
  BY <1>1, SafeAlways, PTL

\* A VM that is up keeps the list entries that protect its resources, whatever
\* control requests overlap and whichever calls fail.
THEOREM ListsComplete == Spec => []InUseStaysAttached
<1>1. Safe => InUseStaysAttached
  BY DEF Safe, Listed, NoneNamed, Down, InUseStaysAttached
<1> QED
  BY <1>1, SafeAlways, PTL

-----------------------------------------------------------------------------
(* A reboot.  Without a second client before the answers expire, the cache    *)
(* holds no control, so a call that goes through is one the CSP accepted.     *)

NoneCached == cache.controls = {}

LEMMA OnlyTheCallMoves ==
    ASSUME TypeInv, [Next]_vars, NEW c \in Controllers, pc[c] = "call", pc'[c] # "call"
    PROVE  ControlCall(c)
<1>1. c \in Procs /\ c # Creator /\ pc \in [Procs -> Labels]
  BY LocalsTyped, ProcessAssumption DEF Procs
<1>2. ~UNCHANGED vars
  BY DEF vars
<1>3. ~(CreateVmObject \/ CreateVm)
  BY <1>1, CreatorIsProc
     DEF CreateVmObject, CreateVm, CreateVmPost, CreateVmResult, CreateVmLabel, Submit, Goto
<1>4. ~(DelMciVm \/ CspProgress \/ CacheExpires)
  BY DEF DelMciVm, CspProgress, CacheExpires
<1>5. ~\E p \in Pollers : Poll(p)
  BY <1>1 DEF Poll, Goto, Procs
<1>6. ~\E d \in Controllers, a \in Controls : Request(d, a)
  BY <1>1 DEF Request, Goto, Procs
<1>7. PICK p \in Procs : Step(p)
  BY <1>2, <1>3, <1>4, <1>5, <1>6 DEF Next
<1>8. p = c
  BY <1>1, <1>7 DEF Step, UpdateVmInfoCheck, UpdateVmInfoPut, Saved, Fetch, FetchFirstRead,
     FetchNativeStatus, FetchSecondRead, FetchPublicIp, FetchThirdRead, FetchReturn,
     Control, ControlRead, ControlCall, ControlAfter, ControlPublicIp, Submit, Enter, Goto
<1>9. mutex # c
  BY <1>1, CreatorIsProc DEF TypeInv, TypeOK, MutexHeld, SaveLabels
<1> QED
  BY <1>7, <1>8, <1>9 DEF Step, UpdateVmInfoCheck, UpdateVmInfoPut, SaveLabels, Fetch, FetchFirstRead,
     FetchNativeStatus, FetchSecondRead, FetchPublicIp, FetchThirdRead,
     Control, ControlRead, ControlAfter, ControlPublicIp

LEMMA NoneCachedNext ==
    ASSUME TypeInv, NoneCached, "cache" \notin Scope, [Next]_vars
    PROVE  NoneCached'
<1>0. cache \in [controls : SUBSET Controls, status : Statuses \cup {"none"}, ip : SUBSET IPs]
  BY LocalsTyped
<1>1. CASE UNCHANGED cache
  BY <1>1 DEF NoneCached
<1>2. CASE CacheExpires
  BY <1>0, <1>2 DEF CacheExpires, NoneCached
<1>3. CASE \E p \in Procs : Fetch(p) \/ Control(p)
  <2>1. cache' = cache
    BY <1>3 DEF Fetch, FetchFirstRead, FetchNativeStatus, FetchSecondRead, FetchPublicIp, FetchThirdRead,
         Control, ControlRead, ControlCall, ControlAfter, ControlPublicIp, PublicIpIs, Cached
  <2> QED
    BY <1>1, <2>1
<1> QED
  BY <1>1, <1>2, <1>3 DEF Next, Step, vars, CreateVmObject, CreateVm, CreateVmPost, CreateVmResult,
     CreateVmLabel, Poll, Request, DelMciVm, CspProgress, UpdateVmInfoCheck, UpdateVmInfoPut

\* A reboot ControlVmAsync goes through with (core/infra/control.go) reaches the CSP
\* whatever overlaps and whichever calls fail, as long as no client comes back
\* before the cached answers to GET expire.
THEOREM RebootReaches == "cache" \notin Scope => (Spec => RebootIsExecuted)
<1> DEFINE Rebooted == \A c \in Controllers :
               pc[c] = "call" /\ act[c] = "Reboot" /\ pc'[c] = "fetch" => csp' = "Rebooting"
<1>1. CASE "cache" \notin Scope
  <2>1. Init => NoneCached
    BY DEF Init, NoneCached, EmptyCache
  <2>2. TypeInv /\ NoneCached /\ [Next]_vars => NoneCached'
    BY <1>1, NoneCachedNext
  <2>3. TypeInv /\ NoneCached /\ [Next]_vars => [Rebooted]_vars
    <3> SUFFICES ASSUME TypeInv, NoneCached, [Next]_vars, NEW c \in Controllers,
                        pc[c] = "call", act[c] = "Reboot", pc'[c] = "fetch"
                 PROVE  csp' = "Rebooting"
      OBVIOUS
    <3>1. ControlCall(c)
      BY OnlyTheCallMoves
    <3>2. ~AnsweredFromCache(c) /\ pc'[c] # OnError
      BY DEF AnsweredFromCache, NoneCached, OnError
    <3>3. Enter(c, OnError) => pc'[c] = OnError
      BY LocalsTyped DEF Enter, Goto, Procs
    <3> QED
      BY <3>1, <3>2, <3>3 DEF ControlCall, During
  <2> QED
    BY <2>1, <2>2, <2>3, TypeAlways, PTL DEF Spec, RebootIsExecuted
<1> QED
  BY <1>1

-----------------------------------------------------------------------------
(* A VM shown Terminated.  If no call fails, the VM's name, once recorded, is *)
(* never lost again: only ControlVmAsync at a record without a name writes    *)
(* one back, and it meets none, unless a forced request overlaps with the     *)
(* creation.  So FetchVmStatus has asked the CSP whenever what it concludes   *)
(* is saved or is CreateVm's, and an unknown status means that the VM is gone.*)

Smooth == MaxFaults = 0 /\ ~({"create", "force", "overlap"} \subseteq Scope)

IsGone == csp = "Gone"

\* What the goroutine holds, and what it may conclude from it.
Hand(p) ==
    /\ pc[p] # "invalid"
    /\ pc[p] \in SaveLabels \/ (pc[p] \in {"fetchIp", "fetchCheck"} /\ seen[p].named) => want[p].named
    /\ pc[p] \in {"after", "ipGet"} => p \in Controllers
    /\ p \in Controllers /\ pc[p] \notin {"idle", "begin"} => obj[p].named
    /\ seen[p].named => vm.named
    /\ obj[p].status = "Terminated" => IsGone
    /\ want[p].status = "Terminated" => IsGone \/ (pc[p] \in {"fetchIp", "fetchCheck"} /\ ~seen[p].named)
    /\ seen[p].named /\ seen[p].native = "Terminated" => IsGone
    /\ seen[p].named /\ pc[p] = "fetchRead" /\ seen[p].native = "Undefined" => IsGone

CreatorLabels == {"none", "post", "crSave", "crFail", "crEnd", "crResult", "label", "done",
                  "fetchSave"} \cup FetchLabels

CreatorHand ==
    /\ pc[Creator] \in CreatorLabels
    /\ pc[Creator] \in {"none", "post"} => obj[Creator] = NewVm
    /\ pc[Creator] \notin {"none", "post", "done"} => obj[Creator].named
    /\ pc[Creator] \in FetchLabels \ {"fetch"} => seen[Creator].named

Unnamed ==
    ~vm.named => /\ vm = NewVm /\ "create" \in Scope
                 /\ ~exists \/ pc[Creator] \in {"none", "post", "crSave"}
                 /\ \A c \in Controllers : pc[c] = "idle"

CacheKnows == cache.status \in {"Terminated", "Undefined"} => IsGone
ShownGone == CacheKnows /\ (vm.status = "Terminated" \/ ret = "Terminated" => IsGone)

Sure == Unnamed /\ CreatorHand /\ ShownGone /\ \A p \in Procs : Hand(p)

LEMMA NoFault == ASSUME Safe, Smooth PROVE ~Fault
BY DEF Safe, TypeInv, TypeOK, CountType, Smooth, Fault

LEMMA SureInit == Init => Sure
<1> SUFFICES ASSUME Init PROVE Sure
  OBVIOUS
<1>1. Unnamed
  BY ProcessAssumption, CreatorIsProc DEF Init, Unnamed, NewVm, RunningVm, Procs
<1>2. CreatorHand
  BY CreatorIsProc DEF Init, CreatorHand, CreatorLabels, FetchLabels
<1>3. ShownGone
  BY DEF Init, ShownGone, CacheKnows, NewVm, RunningVm, EmptyCache
<1>4. \A p \in Procs : Hand(p)
  BY ProcessAssumption, CreatorIsProc DEF Init, Hand, NewVm, Nothing, SaveLabels
<1> QED
  BY <1>1, <1>2, <1>3, <1>4 DEF Sure

\* A step of p, as far as the others are concerned.
LEMMA SureStep ==
    ASSUME Sure, NEW p \in Procs, OthersStay(p), vm.named => vm'.named, IsGone => IsGone',
           Unnamed', ShownGone', Hand(p)', p = Creator => CreatorHand'
    PROVE  Sure'
<1>1. ASSUME NEW q \in Procs, q # p PROVE Hand(q)'
  <2>1. Hand(q) /\ pc'[q] = pc[q] /\ seen'[q] = seen[q] /\ obj'[q] = obj[q] /\ want'[q] = want[q]
    BY <1>1 DEF Sure, OthersStay
  <2> QED
    BY <2>1 DEF Hand
<1>2. CreatorHand'
  BY CreatorIsProc DEF Sure, CreatorHand, OthersStay
<1> QED
  BY <1>1, <1>2 DEF Sure

\* Nothing about names changes in a step that leaves the record alone.
LEMMA UnnamedStays ==
    ASSUME Unnamed, NEW p \in Procs, OthersStay(p), vm' = vm, exists' => exists,
           p \in Controllers => pc[p] # "idle",
           p = Creator /\ pc[p] \in {"none", "post", "crSave"} =>
               ~exists' \/ pc'[p] \in {"none", "post", "crSave"}
    PROVE  Unnamed'
<1> SUFFICES ASSUME ~vm'.named PROVE Unnamed'
  BY DEF Unnamed
<1>1. ~vm.named
  OBVIOUS
<1>2. \A c \in Controllers : c \in Procs /\ c # p /\ pc'[c] = "idle"
  BY <1>1 DEF Unnamed, Procs, OthersStay
<1>3. ~exists' \/ pc'[Creator] \in {"none", "post", "crSave"}
  BY <1>1, CreatorIsProc DEF Unnamed, OthersStay
<1> QED
  BY <1>1, <1>2, <1>3 DEF Unnamed

\* The steps that leave the shared variables alone.
LEMMA UsualStep ==
    ASSUME Safe, Sure, NEW p \in Procs, OthersStay(p), UNCHANGED <<vm, exists, csp>>,
           pc[p] \notin {"idle", "none", "post", "crSave"},
           ret' = "Terminated" => IsGone,
           cache'.status \in {"Terminated", "Undefined"} => IsGone,
           Hand(p)', p = Creator => CreatorHand'
    PROVE  Sure'
<1>1. Unnamed'
  BY UnnamedStays DEF Sure
<1>2. (IsGone => IsGone') /\ ShownGone'
  BY DEF Sure, ShownGone, CacheKnows, IsGone
<1> QED
  BY <1>1, <1>2, SureStep

LEMMA NewVmFacts ==
    /\ NewVm.status = "Creating" /\ NewVm.action = "Create" /\ ~NewVm.named
    /\ ~Nothing.named /\ Nothing.native = "Undefined"
BY DEF NewVm, Nothing

-----------------------------------------------------------------------------
LEMMA SavedHand ==
    ASSUME Safe, Sure, NEW p \in Procs, Saved(p), pc[p] \in SaveLabels,
           UNCHANGED <<seen, csp>>, vm.named => vm'.named
    PROVE  /\ OthersStay(p) /\ Hand(p)'
           /\ p = Creator => CreatorHand'
           /\ ret' = "Terminated" => IsGone
           /\ pc'[p] \notin SaveLabels
<1>1. Enter(p, AfterSave(p)) /\ want' = [want EXCEPT ![p] = NewVm]
  BY DEF Saved
<1>2. AfterSave(p) \in {"fetch", "label", "done", "call", "crResult", "after", "idle"}
      /\ (p = Creator /\ pc[p] \in CreatorLabels =>
             AfterSave(p) \in {"fetch", "label", "done", "crResult"})
      /\ (AfterSave(p) = "after" => p \in Controllers)
  BY DEF AfterSave, AfterFetch, SaveLabels, CreatorLabels, FetchLabels
<1>3. OthersStay(p)
  BY <1>1, EnterOwn, LocalsTyped DEF Safe, OthersStay
<1>4. /\ pc'[p] = AfterSave(p) /\ want'[p] = NewVm /\ obj'[p] \in {obj[p], NewVm}
      /\ pc'[p] # "idle" => obj'[p] = obj[p]
  BY <1>1, EnterOwn, LocalsTyped DEF Safe, Enter
<1>5. pc'[p] \notin SaveLabels /\ pc'[p] \notin FetchLabels \ {"fetch"} /\ pc'[p] # "fetchRead" /\ pc'[p] # "invalid"
  BY <1>2, <1>4 DEF SaveLabels, FetchLabels
<1>6. Hand(p)'
  <2>1. Hand(p) /\ seen'[p] = seen[p] /\ (IsGone => IsGone') /\ pc[p] \notin {"idle", "begin"}
    BY DEF Sure, IsGone, SaveLabels
  <2>2. pc'[p] \notin {"fetchIp", "fetchCheck", "ipGet"} /\ (pc'[p] = "after" => p \in Controllers)
    BY <1>2, <1>4
  <2> QED
    BY <1>4, <1>5, <2>1, <2>2, NewVmFacts DEF Hand
<1>7. ASSUME p = Creator PROVE CreatorHand'
  <2>1. CreatorHand /\ pc'[Creator] \in {"fetch", "label", "done", "crResult"}
    BY <1>2, <1>4, <1>7 DEF Sure, CreatorHand
  <2>2. pc[Creator] \notin {"none", "post", "done"} /\ obj'[Creator] = obj[Creator]
    BY <1>4, <1>7, <2>1 DEF SaveLabels
  <2> QED
    BY <1>5, <1>7, <2>1, <2>2 DEF CreatorHand, CreatorLabels, FetchLabels
<1>8. ASSUME ret' = "Terminated" PROVE IsGone
  <2>1. ret' = ret \/ ret' = want[p].status
    BY DEF Saved, Return
  <2> QED
    BY <1>8, <2>1 DEF Sure, ShownGone, Hand, SaveLabels
<1> QED
  BY <1>3, <1>5, <1>6, <1>7, <1>8

LEMMA CheckSure ==
    ASSUME Safe, Sure, NEW p \in Procs, UpdateVmInfoCheck(p)
    PROVE  Sure'
<1>1. UNCHANGED <<exists, vm, csp, cache, seen>> /\ pc[p] \in SaveLabels
  BY DEF UpdateVmInfoCheck
<1>2. CASE UNCHANGED <<pc, act, obj, want, ret>>
  BY <1>1, <1>2 DEF Sure, Unnamed, CreatorHand, ShownGone, CacheKnows, Hand, IsGone
<1>3. CASE ~(exists /\ vm # want[p]) /\ Saved(p)
  <2>1. /\ OthersStay(p) /\ Hand(p)' /\ (p = Creator => CreatorHand')
        /\ ret' = "Terminated" => IsGone
    BY <1>1, <1>3, SavedHand
  <2>2. vm.named \/ ~exists
    BY <1>1, <1>3 DEF Sure, Hand
  <2>3. p \in Controllers => pc[p] # "idle"
    BY <1>1 DEF SaveLabels
  <2>4. Unnamed'
    <3>1. CASE vm.named
      BY <1>1, <3>1 DEF Unnamed
    <3>2. CASE ~exists
      BY <1>1, <2>1, <2>3, <3>2, UnnamedStays DEF Sure
    <3> QED
      BY <2>2, <3>1, <3>2
  <2>5. ShownGone' /\ (IsGone => IsGone')
    BY <1>1, <2>1 DEF Sure, ShownGone, CacheKnows, IsGone
  <2> QED
    BY <1>1, <2>1, <2>4, <2>5, SureStep
<1> QED
  BY <1>2, <1>3 DEF UpdateVmInfoCheck

LEMMA PutSure ==
    ASSUME Safe, Sure, Smooth, NEW p \in Procs, UpdateVmInfoPut(p)
    PROVE  Sure'
<1>1. UNCHANGED <<csp, cache, seen>> /\ pc[p] \in SaveLabels /\ Saved(p) /\ vm' = want[p]
  BY NoFault, CreatorIsProc DEF Safe, UpdateVmInfoPut, TypeInv, TypeOK, MutexHeld
<1>2. vm'.named /\ (vm'.status = "Terminated" => IsGone)
  BY <1>1 DEF Sure, Hand, SaveLabels
<1>3. /\ OthersStay(p) /\ Hand(p)' /\ (p = Creator => CreatorHand')
      /\ ret' = "Terminated" => IsGone
  BY <1>1, <1>2, SavedHand
<1>4. Unnamed'
  BY <1>2 DEF Unnamed
<1>5. ShownGone' /\ (IsGone => IsGone')
  BY <1>1, <1>2, <1>3 DEF Sure, ShownGone, CacheKnows, IsGone
<1> QED
  BY <1>2, <1>3, <1>4, <1>5, SureStep

-----------------------------------------------------------------------------
(* FetchVmStatus. *)

LEMMA FetchReturnSure ==
    ASSUME Safe, Sure, NEW p \in Procs, NEW r, FetchReturn(p, r), pc[p] \in FetchLabels,
           UNCHANGED <<exists, vm, act, obj, csp>>, cache'.status = cache.status,
           p = Creator /\ r = "Terminated" => IsGone
    PROVE  Sure'
<1>1. /\ OthersStay(p) /\ pc'[p] = AfterFetch(p) /\ want'[p] = NewVm /\ seen'[p] = Nothing
      /\ obj'[p] = obj[p]
  BY LocalsTyped DEF Safe, FetchReturn, Goto, OthersStay
<1>2. AfterFetch(p) \in {"crResult", "after", "idle"} /\ (p = Creator => AfterFetch(p) = "crResult")
      /\ (AfterFetch(p) = "after" => p \in Controllers)
  BY DEF AfterFetch
<1>3. pc'[p] \notin SaveLabels /\ pc'[p] \notin FetchLabels /\ pc'[p] # "invalid"
  BY <1>1, <1>2 DEF SaveLabels, FetchLabels
<1>4. Hand(p)'
  <2>1. Hand(p) /\ (IsGone => IsGone') /\ pc[p] \notin {"idle", "begin"}
    BY DEF Sure, IsGone, FetchLabels
  <2>2. pc'[p] \notin {"fetchIp", "fetchCheck", "fetchRead", "ipGet"} /\ (pc'[p] = "after" => p \in Controllers)
    BY <1>1, <1>2
  <2> QED
    BY <1>1, <1>3, <2>1, <2>2, NewVmFacts DEF Hand
<1>5. p = Creator => CreatorHand'
  BY <1>1, <1>2, <1>3 DEF Sure, CreatorHand, CreatorLabels, FetchLabels
<1>6. ret' = "Terminated" => IsGone
  BY DEF FetchReturn, Return, Sure, ShownGone, CacheKnows
<1>7. cache'.status \in {"Terminated", "Undefined"} => IsGone
  BY DEF Sure, ShownGone, CacheKnows
<1>8. pc[p] \notin {"idle", "none", "post", "crSave"}
  BY DEF FetchLabels
<1> QED
  BY <1>1, <1>4, <1>5, <1>6, <1>7, <1>8, UsualStep

\* A step inside FetchVmStatus.
LEMMA FetchOnSure ==
    ASSUME Safe, Sure, NEW p \in Procs, pc[p] \in FetchLabels, OthersStay(p),
           UNCHANGED <<exists, vm, obj, csp, ret>>, cache'.status \in {"Terminated", "Undefined"} => IsGone,
           pc'[p] \in {"fetchCsp", "fetchRead", "fetchIp", "fetchCheck", "fetchSave"},
           Hand(p)', pc'[p] # "fetchSave" => seen'[p].named = IF pc[p] = "fetch" THEN vm.named ELSE seen[p].named,
           p = Creator /\ pc[p] = "fetch" => exists
    PROVE  Sure'
<1>1. pc[p] \notin {"idle", "none", "post", "crSave", "done"} /\ pc'[p] \notin {"none", "post", "done"}
  BY DEF FetchLabels
<1>2. ASSUME p = Creator PROVE CreatorHand'
  <2>1. CreatorHand /\ Unnamed
    BY DEF Sure
  <2>2. IF pc[p] = "fetch" THEN vm.named ELSE seen[p].named
    BY <1>1, <1>2, <2>1 DEF CreatorHand, Unnamed, FetchLabels
  <2>3. pc'[Creator] \in CreatorLabels /\ obj'[Creator].named
    BY <1>1, <1>2, <2>1 DEF CreatorHand, CreatorLabels, FetchLabels
  <2>4. pc'[Creator] \in FetchLabels => seen'[Creator].named
    BY <1>2, <2>2 DEF FetchLabels
  <2> QED
    BY <1>1, <1>2, <2>3, <2>4 DEF CreatorHand
<1>3. ret' = "Terminated" => IsGone
  BY DEF Sure, ShownGone, CacheKnows
<1> QED
  BY <1>1, <1>2, <1>3, UsualStep

LEMMA FetchFirstReadSure ==
    ASSUME Safe, Sure, NEW p \in Procs, FetchFirstRead(p)
    PROVE  Sure'
<1>1. /\ UNCHANGED <<exists, vm, act, obj, csp, cache>> /\ pc[p] \in FetchLabels /\ pc[p] = "fetch"
      /\ cache'.status \in {"Terminated", "Undefined"} => IsGone
  BY DEF FetchFirstRead, FetchLabels, Sure, ShownGone, CacheKnows
<1>2. CASE FetchReturn(p, "error") \/ FetchReturn(p, vm.status)
  BY <1>1, <1>2, FetchReturnSure DEF Sure, ShownGone, CacheKnows
<1>3. CASE /\ exists
           /\ Goto(p, IF vm.named /\ vm.status # "Terminated" THEN "fetchCsp" ELSE "fetchRead")
           /\ seen' = [seen EXCEPT ![p] = [native |-> "Undefined", named |-> vm.named]]
           /\ UNCHANGED <<want, ret>>
  <2>1. /\ OthersStay(p) /\ seen'[p].native = "Undefined" /\ seen'[p].named = vm.named
        /\ want'[p] = want[p] /\ obj'[p] = obj[p]
    BY <1>1, <1>3, LocalsTyped DEF Safe, Goto, OthersStay
  <2>2. /\ pc'[p] \in {"fetchCsp", "fetchRead"}
        /\ pc'[p] = "fetchRead" => ~vm.named \/ vm.status = "Terminated"
    BY <1>3, LocalsTyped DEF Safe, Goto
  <2>3. Hand(p)'
    <3>1. Hand(p) /\ (IsGone => IsGone') /\ (vm.status = "Terminated" => IsGone) /\ vm' = vm
      BY <1>1 DEF Sure, ShownGone, CacheKnows, IsGone
    <3>2. pc'[p] \notin SaveLabels /\ pc'[p] # "invalid"
      BY <2>2 DEF SaveLabels
    <3> QED
      BY <1>1, <2>1, <2>2, <3>1, <3>2 DEF Hand
  <2> QED
    BY <1>1, <1>3, <2>1, <2>2, <2>3, FetchOnSure
<1> QED
  BY <1>2, <1>3 DEF FetchFirstRead

LEMMA FetchSecondReadSure ==
    ASSUME Safe, Sure, NEW p \in Procs, FetchSecondRead(p)
    PROVE  Sure'
<1>1. /\ UNCHANGED <<exists, vm, act, obj, csp, cache>> /\ pc[p] \in FetchLabels /\ pc[p] = "fetchRead"
      /\ cache'.status \in {"Terminated", "Undefined"} => IsGone
  BY DEF FetchSecondRead, FetchLabels, Sure, ShownGone, CacheKnows
<1>2. CASE FetchReturn(p, "error")
  BY <1>1, <1>2, FetchReturnSure
<1>3. CASE /\ want' = [want EXCEPT ![p] = Refreshed(vm, seen[p].native)]
           /\ \E l \in {"fetchIp", "fetchCheck"} : Goto(p, l)
           /\ seen' = [seen EXCEPT ![p].native = "Undefined"]
           /\ UNCHANGED ret
  <2>1. /\ OthersStay(p) /\ seen'[p].native = "Undefined" /\ seen'[p].named = seen[p].named
        /\ want'[p] = Refreshed(vm, seen[p].native) /\ obj'[p] = obj[p]
        /\ pc'[p] \in {"fetchIp", "fetchCheck"}
    BY <1>1, <1>3, LocalsTyped DEF Safe, Goto, OthersStay
  <2>2. want'[p].status = "Terminated" =>
           vm.status = "Terminated" \/ seen[p].native \in {"Undefined", "Terminated"}
    BY <2>1, LocalsTyped DEF Safe, Refreshed, Corrected, During, VmRecord
  <2>3. Hand(p)'
    <3>1. Hand(p) /\ (IsGone => IsGone') /\ (vm.status = "Terminated" => IsGone) /\ vm' = vm
      BY <1>1 DEF Sure, ShownGone, CacheKnows, IsGone
    <3>2. pc'[p] \notin SaveLabels /\ pc'[p] # "invalid" /\ pc'[p] # "fetchRead"
      BY <2>1 DEF SaveLabels
    <3>3. want'[p].named = vm.named
      BY <2>1, RefreshedKeeps, LocalsTyped DEF Safe
    <3> QED
      BY <1>1, <2>1, <2>2, <3>1, <3>2, <3>3 DEF Hand
  <2> QED
    BY <1>1, <1>3, <2>1, <2>3, FetchOnSure
<1> QED
  BY <1>2, <1>3 DEF FetchSecondRead

LEMMA FetchThirdReadSure ==
    ASSUME Safe, Sure, NEW p \in Procs, FetchThirdRead(p)
    PROVE  Sure'
<1>1. /\ UNCHANGED <<exists, vm, act, obj, csp, cache>> /\ pc[p] \in FetchLabels /\ pc[p] = "fetchCheck"
      /\ cache'.status \in {"Terminated", "Undefined"} => IsGone
  BY DEF FetchThirdRead, FetchLabels, Sure, ShownGone, CacheKnows
<1>2. CASE ((exists /\ vm.status = "Terminated") \/ ~seen[p].named) /\ FetchReturn(p, want[p].status)
  <2>1. p = Creator => IsGone
    <3>1. p = Creator => seen[p].named
      BY <1>1 DEF Sure, CreatorHand, FetchLabels
    <3> QED
      BY <1>2, <3>1 DEF Sure, ShownGone, CacheKnows
  <2> QED
    BY <1>1, <1>2, <2>1, FetchReturnSure
<1>3. CASE /\ seen[p].named /\ Goto(p, "fetchSave")
           /\ seen' = [seen EXCEPT ![p] = Nothing] /\ UNCHANGED <<want, ret>>
  <2>1. /\ OthersStay(p) /\ seen'[p] = Nothing /\ pc'[p] = "fetchSave"
        /\ obj'[p] = obj[p] /\ want'[p] = want[p]
    BY <1>1, <1>3, LocalsTyped DEF Safe, Goto, OthersStay
  <2>2. want[p].named
    BY <1>1, <1>3 DEF Sure, Hand
  <2>3. Hand(p)'
    <3>1. Hand(p) /\ (IsGone => IsGone') /\ vm' = vm
      BY <1>1 DEF Sure, IsGone
    <3> QED
      BY <1>1, <1>3, <2>1, <2>2, <3>1, NewVmFacts DEF Hand
  <2> QED
    BY <1>1, <1>3, <2>1, <2>3, FetchOnSure
<1> QED
  BY <1>2, <1>3 DEF FetchThirdRead

LEMMA FetchNativeStatusSure ==
    ASSUME Safe, Sure, Smooth, NEW p \in Procs, FetchNativeStatus(p)
    PROVE  Sure'
<1>1. /\ UNCHANGED <<exists, vm, act, obj, want, ret, csp>>
      /\ pc[p] = "fetchCsp" /\ pc[p] \in FetchLabels
      /\ pc' = [pc EXCEPT ![p] = "fetchRead"]
  BY DEF FetchNativeStatus, Goto, FetchLabels
<1>2. \A s \in Reports(csp) : s \in Statuses /\ (s \in {"Terminated", "Undefined"} => IsGone)
  <2>1. csp \in CspStates /\ csp # "Absent"
    BY <1>1, LocalsTyped DEF Safe, Made
  <2> QED
    BY <2>1, ReportsType DEF Reports, IsGone, CspStates
<1>3. \E s \in Statuses : /\ seen' = [seen EXCEPT ![p].native = s]
                          /\ s \in {"Terminated", "Undefined"} => IsGone
  <2>1. CASE cache.status # "none"
    <3>1. cache.status \in Statuses /\ seen' = [seen EXCEPT ![p].native = cache.status]
      BY <2>1, LocalsTyped DEF Safe, FetchNativeStatus
    <3>2. cache.status \in {"Terminated", "Undefined"} => IsGone
      BY DEF Sure, ShownGone, CacheKnows
    <3> QED
      BY <3>1, <3>2
  <2>2. CASE cache.status = "none"
    BY <1>2, <2>2, NoFault DEF FetchNativeStatus
  <2> QED
    BY <2>1, <2>2
<1>4. OthersStay(p) /\ pc'[p] = "fetchRead" /\ obj'[p] = obj[p] /\ want'[p] = want[p]
      /\ seen'[p].named = seen[p].named
      /\ (seen'[p].native \in {"Terminated", "Undefined"} => IsGone)
  BY <1>1, <1>3, LocalsTyped DEF Safe, OthersStay
<1>5. cache'.status \in {"Terminated", "Undefined"} => IsGone
  <2>1. \A s \in Reports(csp) : Cached("status", s).status \in {s, cache.status}
    BY LocalsTyped DEF Safe, Cached
  <2>2. cache' = cache \/ \E s \in Reports(csp) : cache' = Cached("status", s)
    BY DEF FetchNativeStatus
  <2> QED
    BY <1>2, <2>1, <2>2 DEF Sure, ShownGone, CacheKnows
<1>6. Hand(p)'
  <2>1. Hand(p) /\ (IsGone => IsGone') /\ vm' = vm
    BY <1>1 DEF Sure, IsGone
  <2> QED
    BY <1>1, <1>4, <2>1 DEF Hand, SaveLabels
<1> QED
  BY <1>1, <1>4, <1>5, <1>6, FetchOnSure

LEMMA FetchPublicIpSure ==
    ASSUME Safe, Sure, NEW p \in Procs, FetchPublicIp(p)
    PROVE  Sure'
<1>1. UNCHANGED <<exists, vm, act, obj, csp>> /\ pc[p] \in FetchLabels /\ pc[p] = "fetchIp"
  BY DEF FetchPublicIp, FetchLabels
<1>2. CASE FetchReturn(p, "error") /\ UNCHANGED cache
  BY <1>1, <1>2, FetchReturnSure
<1>3. CASE \E i \in IPs : PublicIpIs(i) /\ want' = [want EXCEPT ![p].ip = i]
                          /\ Goto(p, "fetchCheck") /\ UNCHANGED <<seen, ret>>
  <2>1. PICK i \in IPs : PublicIpIs(i) /\ want' = [want EXCEPT ![p].ip = i]
    BY <1>3
  <2>2. OthersStay(p) /\ pc'[p] = "fetchCheck" /\ obj'[p] = obj[p] /\ seen'[p] = seen[p]
    BY <1>1, <1>3, <2>1, LocalsTyped DEF Safe, Goto, OthersStay
  <2>3. want'[p].named = want[p].named /\ want'[p].status = want[p].status
    BY <2>1, LocalsTyped DEF Safe, VmRecord
  <2>4. Hand(p)'
    <3>1. Hand(p) /\ (IsGone => IsGone') /\ vm' = vm
      BY <1>1 DEF Sure, IsGone
    <3> QED
      BY <1>1, <2>2, <2>3, <3>1 DEF Hand, SaveLabels
  <2>5. cache'.status = cache.status
    BY <2>1, LocalsTyped DEF Safe, PublicIpIs, Cached
  <2> QED
    BY <1>1, <1>3, <2>2, <2>4, <2>5, FetchOnSure DEF Sure, ShownGone, CacheKnows
<1> QED
  BY <1>2, <1>3 DEF FetchPublicIp

-----------------------------------------------------------------------------
(* Requests, and CreateVm. *)

LEMMA PollSure ==
    ASSUME Safe, Sure, NEW p \in Pollers, Poll(p)
    PROVE  Sure'
<1>1. p \in Procs /\ p # Creator /\ p \notin Controllers
      /\ UNCHANGED <<exists, vm, csp, cache, localVars>> /\ pc[p] = "idle"
  BY ProcessAssumption DEF Poll, Procs
<1>2. OthersStay(p) /\ pc'[p] = "fetch" /\ UNCHANGED <<obj, want, seen, ret>>
  BY <1>1, LocalsTyped DEF Safe, Poll, Goto, OthersStay, localVars
<1>3. Hand(p)'
  BY <1>1, <1>2 DEF Sure, Hand, IsGone, SaveLabels
<1>4. Unnamed'
  BY <1>1, <1>2, UnnamedStays DEF Sure
<1>5. ShownGone' /\ (IsGone => IsGone')
  BY <1>1, <1>2 DEF Sure, ShownGone, CacheKnows, IsGone
<1> QED
  BY <1>1, <1>2, <1>3, <1>4, <1>5, SureStep

\* A request finds a record with a name: without force a record in Creating
\* admits none, and without overlap CreateVm is over.
LEMMA RequestFindsName ==
    ASSUME Safe, Sure, Smooth, NEW c \in Controllers, NEW a \in Controls, Request(c, a)
    PROVE  vm.named
<1> SUFFICES ASSUME ~vm.named PROVE FALSE
  OBVIOUS
<1>1. vm = NewVm /\ pc[Creator] \in {"none", "post", "crSave"} /\ "create" \in Scope
  BY DEF Request, Sure, Unnamed
<1>2. ~Allowed(vm.status, a)
  BY <1>1, NewVmFacts DEF Allowed, Transitional
<1>3. ~Quiet
  BY <1>1, CreatorIsProc DEF Quiet
<1> QED
  BY <1>1, <1>2, <1>3 DEF Request, Smooth

LEMMA RequestSure ==
    ASSUME Safe, Sure, Smooth, NEW c \in Controllers, NEW a \in Controls, Request(c, a)
    PROVE  Sure'
<1>1. c \in Procs /\ c # Creator /\ pc[c] = "idle"
      /\ UNCHANGED <<exists, vm, csp, cache, obj, seen, want, ret>>
  BY ProcessAssumption DEF Request, Procs
<1>2. OthersStay(c) /\ pc'[c] = "begin"
  BY <1>1, LocalsTyped DEF Safe, Request, Goto, OthersStay
<1>3. Hand(c)'
  BY <1>1, <1>2 DEF Sure, Hand, IsGone, SaveLabels
<1>4. Unnamed' /\ vm'.named
  BY <1>1, RequestFindsName DEF Unnamed
<1>5. ShownGone' /\ (IsGone => IsGone')
  BY <1>1, <1>2 DEF Sure, ShownGone, CacheKnows, IsGone
<1> QED
  BY <1>1, <1>2, <1>3, <1>4, <1>5, SureStep

LEMMA CreateVmObjectSure ==
    ASSUME Safe, Sure, CreateVmObject
    PROVE  Sure'
<1>1. /\ Creator \in Procs /\ pc[Creator] = "none" /\ ~vm.named
      /\ UNCHANGED <<csp, cache, localVars>> /\ vm' = NewVm
  BY CreatorIsProc DEF CreateVmObject, Safe, Made, NoneNamed
<1>2. OthersStay(Creator) /\ pc'[Creator] = "post" /\ UNCHANGED <<obj, want, seen, ret>>
  BY <1>1, LocalsTyped DEF Safe, CreateVmObject, Goto, OthersStay, localVars
<1>3. Hand(Creator)'
  BY <1>1, <1>2 DEF Sure, Hand, IsGone, SaveLabels
<1>4. Unnamed'
  <2>1. "create" \in Scope /\ \A c \in Controllers : c \in Procs /\ c # Creator /\ pc[c] = "idle"
    BY <1>1, ProcessAssumption DEF Sure, Unnamed, Procs
  <2> QED
    BY <1>1, <1>2, <2>1 DEF Unnamed, OthersStay
<1>5. ShownGone' /\ (IsGone => IsGone')
  BY <1>1, <1>2, NewVmFacts DEF Sure, ShownGone, CacheKnows, IsGone
<1>6. CreatorHand'
  BY <1>1, <1>2 DEF Sure, CreatorHand, CreatorLabels, FetchLabels
<1> QED
  BY <1>1, <1>2, <1>3, <1>4, <1>5, <1>6, SureStep

\* CreateVm hands a record with a name to UpdateVmInfo.
LEMMA CreatorSubmits ==
    ASSUME Safe, Sure, NEW rec \in VmRecord, NEW l \in {"crSave", "crFail", "crEnd"},
           Submit(Creator, rec, l), rec.named, rec.status = "Terminated" => IsGone,
           UNCHANGED <<exists, vm, act, seen, ret, cache>>, IsGone => IsGone',
           pc[Creator] \in {"post", "crResult", "label"},
           pc[Creator] = "post" => l = "crSave"
    PROVE  Sure'
<1>1. Creator \in Procs /\ OthersStay(Creator) /\ pc'[Creator] = l
      /\ want'[Creator] = rec /\ obj'[Creator] = rec
  BY SubmitOwn, CreatorIsProc
<1>2. Hand(Creator)'
  BY <1>1 DEF Sure, Hand, SaveLabels
<1>3. CreatorHand'
  BY <1>1 DEF CreatorHand, CreatorLabels, FetchLabels
<1>4. Unnamed'
  BY <1>1, UnnamedStays, ProcessAssumption DEF Sure, Unnamed
<1>5. ShownGone'
  BY DEF Sure, ShownGone, CacheKnows
<1> QED
  BY <1>1, <1>2, <1>3, <1>4, <1>5, SureStep

LEMMA CreateVmPostSure ==
    ASSUME Safe, Sure, Smooth, CreateVmPost
    PROVE  Sure'
<1>1. PICK i \in IPs : Submit(Creator, [obj[Creator] EXCEPT !.named = TRUE, !.ip = i], "crSave")
  BY NoFault DEF CreateVmPost
<1> DEFINE rec == [obj[Creator] EXCEPT !.named = TRUE, !.ip = i]
<1>2. obj[Creator] = NewVm /\ NewVm \in VmRecord
  BY NewVmType DEF CreateVmPost, Sure, CreatorHand
<1>3. rec \in VmRecord /\ rec.named /\ rec.status = "Creating"
  BY <1>2, NewVmFacts DEF VmRecord
<1>4. UNCHANGED <<exists, vm, act, seen, ret, cache>> /\ pc[Creator] = "post" /\ csp = "Absent"
  BY DEF CreateVmPost, Safe, Made
<1>5. IsGone => IsGone'
  BY <1>4 DEF IsGone
<1> HIDE DEF rec
<1>6. Submit(Creator, rec, "crSave")
  BY <1>1 DEF rec
<1> QED
  BY <1>3, <1>4, <1>5, <1>6, CreatorSubmits

LEMMA CreateVmResultSure ==
    ASSUME Safe, Sure, CreateVmResult
    PROVE  Sure'
<1>1. /\ UNCHANGED <<exists, vm, act, seen, ret, cache, csp>> /\ pc[Creator] = "crResult"
      /\ obj[Creator].named /\ obj[Creator] \in VmRecord
  BY LocalsTyped, CreatorIsProc DEF CreateVmResult, Safe, Sure, CreatorHand
<1>2. \E st \in Statuses, l \in {"crFail", "crEnd"} :
          /\ Submit(Creator, [obj[Creator] EXCEPT !.status = st, !.action = "None"], l)
          /\ st = "Terminated" => IsGone
  <2>1. ret # "error" => ret \in Statuses
    BY <1>1, LocalsTyped DEF Safe, TypeInv, RetKnown
  <2> QED
    BY <2>1, StatusNames DEF CreateVmResult, Sure, ShownGone, CacheKnows
<1>3. PICK st \in Statuses, l \in {"crFail", "crEnd"} :
          /\ Submit(Creator, [obj[Creator] EXCEPT !.status = st, !.action = "None"], l)
          /\ st = "Terminated" => IsGone
  BY <1>2
<1> DEFINE rec == [obj[Creator] EXCEPT !.status = st, !.action = "None"]
<1>4. rec \in VmRecord /\ rec.named /\ rec.status = st
  BY <1>1 DEF VmRecord, Actions
<1> HIDE DEF rec
<1>5. Submit(Creator, rec, l) /\ (rec.status = "Terminated" => IsGone) /\ (IsGone => IsGone')
  BY <1>1, <1>3, <1>4 DEF rec, IsGone
<1> QED
  BY <1>1, <1>4, <1>5, CreatorSubmits

LEMMA CreateVmLabelSure ==
    ASSUME Safe, Sure, Smooth, CreateVmLabel
    PROVE  Sure'
<1>1. /\ UNCHANGED <<exists, vm, act, seen, ret, cache, csp, obj, want>> /\ pc[Creator] = "label"
      /\ Goto(Creator, "done") /\ Creator \in Procs
  BY NoFault, CreatorIsProc DEF CreateVmLabel
<1>2. OthersStay(Creator) /\ pc'[Creator] = "done"
  BY <1>1, LocalsTyped DEF Safe, Goto, OthersStay
<1>3. Hand(Creator)' /\ CreatorHand'
  BY <1>1, <1>2 DEF Sure, Hand, CreatorHand, CreatorLabels, FetchLabels, SaveLabels, IsGone
<1> QED
  BY <1>1, <1>2, <1>3, UsualStep DEF Sure, ShownGone, CacheKnows

-----------------------------------------------------------------------------
(* ControlVmAsync. *)

\* Where ControlVmAsync is, the goroutine is not CreateVm's, and the record has a name.
LEMMA ControlKnows ==
    ASSUME Safe, Sure, NEW c \in Procs, pc[c] \in {"begin", "call", "after", "ipGet"}
    PROVE  c # Creator /\ c \in Controllers /\ Hand(c)
BY StatusNames DEF Sure, CreatorHand, CreatorLabels, FetchLabels, Safe, TypeInv, ActKnown, Listed, OnlyAccepted, Hand

LEMMA ControlReadSure ==
    ASSUME Safe, Sure, NEW c \in Procs, ControlRead(c)
    PROVE  Sure'
<1>1. /\ pc[c] = "begin" /\ act[c] \in Controls /\ c # Creator /\ c \in Controllers
      /\ UNCHANGED <<exists, vm, csp, cache, seen, ret>>
  BY ControlKnows, StatusNames DEF ControlRead, Safe, TypeInv, ActKnown, Listed, OnlyAccepted
<1>2. CASE Enter(c, "idle") /\ UNCHANGED want
  <2>1. OthersStay(c) /\ pc'[c] = "idle" /\ obj'[c] \in {obj[c], NewVm} /\ UNCHANGED <<seen, want>>
    BY <1>1, <1>2, EnterOwn DEF OthersStay
  <2>2. Hand(c)'
    BY <1>1, <2>1, NewVmFacts DEF Sure, Hand, SaveLabels, IsGone
  <2> QED
    BY <1>1, <2>1, <2>2, UsualStep DEF Sure, ShownGone, CacheKnows
<1>3. CASE exists /\ vm.status # "Terminated" /\ vm.named
           /\ Submit(c, Intent(vm, act[c]), "intent") /\ UNCHANGED act
  <2>1. OthersStay(c) /\ pc'[c] = "intent" /\ act'[c] = act[c]
        /\ want'[c] = Intent(vm, act[c]) /\ obj'[c] = Intent(vm, act[c])
    BY <1>1, <1>3, LocalsTyped DEF Safe, Submit, Goto, OthersStay
  <2>2. want'[c].named /\ want'[c].status # "Terminated"
    BY <1>1, <1>3, <2>1, LocalsTyped DEF Safe, Intent, VmRecord, During, Controls
  <2>3. Hand(c)'
    BY <1>1, <2>1, <2>2 DEF Sure, Hand, IsGone
  <2> QED
    BY <1>1, <2>1, <2>3, UsualStep DEF Sure, ShownGone, CacheKnows
<1>4. exists => vm.named
  BY <1>1 DEF Sure, Unnamed
<1> QED
  BY <1>2, <1>3, <1>4 DEF ControlRead

LEMMA ControlCallSure ==
    ASSUME Safe, Sure, NEW c \in Procs, ControlCall(c)
    PROVE  Sure'
<1>1. /\ pc[c] = "call" /\ act[c] \in Controls /\ c # Creator /\ c \in Controllers
      /\ UNCHANGED <<exists, vm, seen, want, ret>>
  BY ControlKnows DEF ControlCall, Safe, TypeInv, ActKnown
<1>2. PICK l \in {"idle", "fetch"} : Enter(c, l)
  BY DEF ControlCall, OnError
<1>3. OthersStay(c) /\ pc'[c] = l /\ obj'[c] \in {obj[c], NewVm} /\ (l # "idle" => obj'[c] = obj[c])
  BY <1>1, <1>2, EnterOwn DEF OthersStay, Enter
<1>4. IsGone => IsGone'
  BY <1>1 DEF ControlCall, Accepts, IsGone, Controls
<1>5. cache'.status = cache.status
  BY LocalsTyped DEF Safe, ControlCall, Cached
<1>6. Hand(c)'
  BY <1>1, <1>3, <1>4, NewVmFacts DEF Sure, Hand, SaveLabels
<1>7. Unnamed'
  BY <1>1, <1>3, UnnamedStays DEF Sure
<1>8. ShownGone'
  BY <1>1, <1>4, <1>5 DEF Sure, ShownGone, CacheKnows
<1> QED
  BY <1>1, <1>3, <1>4, <1>6, <1>7, <1>8, SureStep

LEMMA ControlAfterSure ==
    ASSUME Safe, Sure, NEW c \in Procs, ControlAfter(c)
    PROVE  Sure'
<1>1. pc[c] = "after" /\ c # Creator /\ c \in Controllers /\ UNCHANGED <<exists, vm, csp, cache, seen, want, ret>>
  BY ControlKnows DEF ControlAfter, countVars
<1>2. PICK l \in {"idle", "ipGet"} : Enter(c, l)
  BY DEF ControlAfter
<1>3. OthersStay(c) /\ pc'[c] = l /\ obj'[c] \in {obj[c], NewVm} /\ (l # "idle" => obj'[c] = obj[c])
  BY <1>1, <1>2, EnterOwn DEF OthersStay, Enter
<1>4. Hand(c)'
  BY <1>1, <1>3, NewVmFacts DEF Sure, Hand, SaveLabels, IsGone
<1> QED
  BY <1>1, <1>3, <1>4, UsualStep DEF Sure, ShownGone, CacheKnows

LEMMA ControlPublicIpSure ==
    ASSUME Safe, Sure, NEW c \in Procs, ControlPublicIp(c)
    PROVE  Sure'
<1>1. pc[c] = "ipGet" /\ c # Creator /\ c \in Controllers /\ UNCHANGED <<exists, vm, csp, seen, ret>>
  BY ControlKnows DEF ControlPublicIp
<1>2. cache'.status = cache.status
  BY LocalsTyped DEF Safe, ControlPublicIp, PublicIpIs, Cached
<1>3. CASE \E i \in IPs : exists /\ vm.named /\ Enter(c, "ipSave")
                           /\ want' = [want EXCEPT ![c] = [obj[c] EXCEPT !.ip = i]]
  <2>1. PICK i \in IPs : Enter(c, "ipSave") /\ want' = [want EXCEPT ![c] = [obj[c] EXCEPT !.ip = i]]
    BY <1>3
  <2>2. OthersStay(c) /\ pc'[c] = "ipSave" /\ obj'[c] = obj[c]
        /\ want'[c] = [obj[c] EXCEPT !.ip = i]
    BY <1>1, <2>1, EnterOwn, LocalsTyped DEF Safe, OthersStay, Enter
  <2>3. want'[c].named = obj[c].named /\ want'[c].status = obj[c].status
    BY <2>2, LocalsTyped DEF Safe, VmRecord
  <2>4. obj[c].named
    BY <1>1 DEF Sure, Hand
  <2>5. Hand(c)'
    BY <1>1, <2>2, <2>3, <2>4 DEF Sure, Hand, IsGone
  <2> QED
    BY <1>1, <1>2, <2>2, <2>5, UsualStep DEF Sure, ShownGone, CacheKnows
<1>4. CASE Enter(c, "idle") /\ UNCHANGED want
  <2>1. OthersStay(c) /\ pc'[c] = "idle" /\ obj'[c] \in {obj[c], NewVm}
    BY <1>1, <1>4, EnterOwn DEF OthersStay
  <2>2. Hand(c)'
    BY <1>1, <1>4, <2>1, NewVmFacts DEF Sure, Hand, SaveLabels, IsGone
  <2> QED
    BY <1>1, <1>2, <2>1, <2>2, UsualStep DEF Sure, ShownGone, CacheKnows
<1> QED
  BY <1>3, <1>4 DEF ControlPublicIp, PublicIpIs

LEMMA EnvironmentSure ==
    ASSUME Safe, Sure, DelMciVm \/ CspProgress \/ CacheExpires
    PROVE  Sure'
<1>1. UNCHANGED <<vm, pc, obj, seen, want, ret>> /\ (exists' => exists) /\ (IsGone => IsGone')
  BY DEF DelMciVm, CspProgress, CacheExpires, localVars, IsGone
<1>2. cache'.status \in {cache.status, "none"}
  BY LocalsTyped DEF Safe, DelMciVm, CspProgress, CacheExpires
<1>3. Unnamed' /\ CreatorHand' /\ ShownGone'
  BY <1>1, <1>2 DEF Sure, Unnamed, CreatorHand, ShownGone, CacheKnows
<1>4. \A p \in Procs : Hand(p)'
  BY <1>1 DEF Sure, Hand
<1> QED
  BY <1>3, <1>4 DEF Sure

LEMMA SureNext == Safe /\ Sure /\ Smooth /\ [Next]_vars => Sure'
<1> SUFFICES ASSUME Safe, Sure, Smooth, [Next]_vars PROVE Sure'
  OBVIOUS
<1>1. CASE UNCHANGED vars
  BY <1>1 DEF vars, localVars, countVars, Sure, Unnamed, CreatorHand, ShownGone, CacheKnows, Hand, IsGone
<1>2. CASE CreateVmObject \/ CreateVm
  BY <1>2, CreateVmObjectSure, CreateVmPostSure, CreateVmResultSure, CreateVmLabelSure DEF CreateVm
<1>3. CASE \E p \in Procs : UpdateVmInfoCheck(p) \/ UpdateVmInfoPut(p)
  BY <1>3, CheckSure, PutSure
<1>4. CASE \E p \in Procs : Fetch(p)
  BY <1>4, FetchFirstReadSure, FetchNativeStatusSure, FetchSecondReadSure, FetchPublicIpSure,
     FetchThirdReadSure DEF Fetch
<1>5. CASE \E p \in Procs : Control(p)
  BY <1>5, ControlReadSure, ControlCallSure, ControlAfterSure, ControlPublicIpSure DEF Control
<1>6. CASE \E p \in Pollers : Poll(p)
  BY <1>6, PollSure
<1>7. CASE \E c \in Controllers, a \in Controls : Request(c, a)
  BY <1>7, RequestSure
<1>8. CASE DelMciVm \/ CspProgress \/ CacheExpires
  BY <1>8, EnvironmentSure
<1> QED
  BY <1>1, <1>2, <1>3, <1>4, <1>5, <1>6, <1>7, <1>8 DEF Next, Step

\* If no call fails, a VM shown Terminated (FetchVmStatus, core/infra/manageInfo.go) is
\* gone at the CSP, for any number of clients and requests that overlap, deletions
\* and cached answers included.  Only forced requests must not overlap with the
\* creation: one that met the record before the VM had a name writes that record back,
\* and CreateVm, which then does not ask the CSP, may take the VM for terminated.
THEOREM TerminatedCorrect == Smooth => (Spec => []TerminatedMeansGone)
<1>1. CASE Smooth
  <2>1. Init => Sure
    BY SureInit
  <2>2. Safe /\ Sure /\ [Next]_vars => Sure'
    BY <1>1, SureNext
  <2>3. Sure => TerminatedMeansGone
    BY DEF Sure, ShownGone, IsGone, TerminatedMeansGone
  <2> QED
    BY <2>1, <2>2, <2>3, SafeAlways, PTL DEF Spec
<1> QED
  BY <1>1

-----------------------------------------------------------------------------
(* A VM shown Suspended.  If clients wait for each other and for cached       *)
(* answers to expire, force nothing, and no call fails, one goroutine at a    *)
(* time is under way, and but for the moment between UpdateVmInfo and the call*)
(* to the CSP, the record tells what the VM is doing.                         *)

Steady == MaxFaults = 0 /\ Scope \subseteq {"create", "delete"}

Busy(p) == pc[p] \notin {"idle", "done"}

\* The record r tells the state c of the VM.
Tells(r, c) ==
    \/ r.action = "None" /\ r.status = c /\ c \in {"Running", "Suspended"}
    \/ r.action = "Create" /\ r.status = "Creating" /\ c \in {"Absent", "Running"}
    \/ r.action = "Suspend" /\ r.status = "Suspending" /\ c \in {"Suspending", "Suspended"}
    \/ r.action = "Resume" /\ r.status = "Resuming" /\ c \in {"Resuming", "Running"}
    \/ r.action = "Reboot" /\ r.status = "Rebooting" /\ c \in {"Rebooting", "Running"}
    \/ r.action = "Terminate" /\ r.status \in {"Terminating", "Terminated"} /\ c \in {"Terminating", "Gone"}

Under(r, a) == r.action = a /\ r.status = During(a)

Takes(c, a) == c \in {"Running", "Suspended"} /\ Accepts(c, a)

InControl(p) ==
    /\ pc[p] = "begin" => Takes(csp, act[p])
    /\ pc[p] = "intent" => Takes(csp, act[p]) /\ Under(want[p], act[p]) /\ Under(obj[p], act[p])
    /\ pc[p] = "call" => Takes(csp, act[p]) /\ Under(vm, act[p]) /\ Under(obj[p], act[p])
    /\ p \in Controllers /\ pc[p] \in FetchLabels \cup {"fetchSave", "after", "ipGet"} =>
           Tells(obj[p], csp)
    /\ pc[p] = "ipSave" => Tells(want[p], csp)

InFetch(p) ==
    /\ pc[p] = "fetchRead" => Tells(Refreshed(vm, seen[p].native), csp)
    /\ pc[p] \in {"fetchIp", "fetchCheck", "fetchSave"} => Tells(want[p], csp)

InCreate(p) ==
    IF p # Creator
    THEN pc[p] \notin {"none", "post", "crSave", "crFail", "crResult", "crEnd", "label"}
    ELSE /\ pc[p] # "crFail"
         /\ pc[p] \notin {"none", "post"} => csp = "Running"
         /\ pc[p] = "crSave" => Under(want[p], "Create")
         /\ pc[p] \in FetchLabels => Under(vm, "Create")
         /\ pc[p] = "fetchRead" => seen[p].native = "Running"
         /\ pc[p] \in {"fetchIp", "fetchCheck", "fetchSave"} => want[p].status = "Running"
         /\ pc[p] = "crResult" => ret = "Running"
         /\ pc[p] = "crEnd" => want[p].status = "Running" /\ want[p].action = "None"

At(p) == (pc[p] # "none" => exists) /\ InControl(p) /\ InFetch(p) /\ InCreate(p)

Calm ==
    /\ \A p, q \in Procs : Busy(p) /\ Busy(q) => p = q
    /\ cache = EmptyCache
    /\ (\A p \in Procs : pc[p] # "call") => Tells(vm, csp)
    /\ \A p \in Procs : Busy(p) => At(p)

-----------------------------------------------------------------------------
(* What the rules on statuses do to a record that tells the state. *)

LEMMA ReportedTells ==
    ASSUME NEW r \in VmRecord, NEW c \in CspStates \ {"Absent"}, NEW s \in Reports(c), Tells(r, c)
    PROVE  Tells(Refreshed(r, s), c)
<1>1. Refreshed(r, s).status = Corrected(r, s)
      /\ Refreshed(r, s).action = IF Corrected(r, s) = TargetOf(r.action) /\ r.action # "Terminate" THEN "None" ELSE r.action
  BY DEF Refreshed, Reached, VmRecord
<1>2. CASE r.action = "None" /\ r.status = c /\ c \in {"Running", "Suspended"}
  <2>1. s = c /\ Corrected(r, s) = c
    BY <1>2 DEF Reports, Corrected, OnTheWay
  <2> QED
    BY <1>1, <1>2, <2>1 DEF Tells, TargetOf
<1>3. CASE r.action = "Create" /\ r.status = "Creating" /\ c = "Running"
  <2>1. s = c /\ Corrected(r, s) = c
    BY <1>3 DEF Reports, Corrected, OnTheWay
  <2> QED
    BY <1>1, <1>3, <2>1 DEF Tells, TargetOf
<1>4. CASE r.action = "Suspend" /\ r.status = "Suspending" /\ c \in {"Suspending", "Suspended"}
  <2>1. Corrected(r, s) = c
    BY <1>4 DEF Reports, Corrected, OnTheWay, During
  <2> QED
    BY <1>1, <1>4, <2>1 DEF Tells, TargetOf
<1>5. CASE r.action = "Resume" /\ r.status = "Resuming" /\ c \in {"Resuming", "Running"}
  <2>1. Corrected(r, s) = c
    BY <1>5 DEF Reports, Corrected, OnTheWay, During
  <2> QED
    BY <1>1, <1>5, <2>1 DEF Tells, TargetOf
<1>6. CASE r.action = "Reboot" /\ r.status = "Rebooting" /\ c \in {"Rebooting", "Running"}
  <2>1. Corrected(r, s) = c
    BY <1>6 DEF Reports, Corrected, OnTheWay, During
  <2> QED
    BY <1>1, <1>6, <2>1 DEF Tells, TargetOf
<1>7. CASE r.action = "Terminate" /\ r.status \in {"Terminating", "Terminated"} /\ c \in {"Terminating", "Gone"}
  <2>1. Corrected(r, s) \in {"Terminating", "Terminated"}
    BY <1>7 DEF Reports, Corrected, OnTheWay, During
  <2> QED
    BY <1>1, <1>7, <2>1 DEF Tells, TargetOf
<1> QED
  BY <1>2, <1>3, <1>4, <1>5, <1>6, <1>7 DEF Tells

LEMMA TerminatedTells ==
    ASSUME NEW r \in VmRecord, NEW c, Tells(r, c), r.status = "Terminated"
    PROVE  Tells(Refreshed(r, "Undefined"), c)
<1>1. r.action = "Terminate" /\ c \in {"Terminating", "Gone"}
  BY DEF Tells
<1>2. Refreshed(r, "Undefined").status = "Terminated" /\ Refreshed(r, "Undefined").action = "Terminate"
  BY <1>1 DEF Refreshed, Reached, Corrected, VmRecord
<1> QED
  BY <1>1, <1>2 DEF Tells

LEMMA AllowedTakes ==
    ASSUME NEW r, NEW c, NEW a \in Controls, Tells(r, c), Allowed(r.status, a)
    PROVE  Takes(c, a)
<1>1. r.status \notin Transitional /\ r.status # "Terminated"
  BY DEF Allowed
<1>2. r.status = c /\ c \in {"Running", "Suspended"}
  BY <1>1 DEF Tells, Transitional
<1>3. CASE c = "Running"
  BY <1>2, <1>3 DEF Allowed, Takes, Accepts, TargetOf, Controls
<1>4. CASE c = "Suspended"
  BY <1>2, <1>4 DEF Allowed, Takes, Accepts
<1> QED
  BY <1>2, <1>3, <1>4

LEMMA UnderTells ==
    ASSUME NEW r, NEW a \in Controls, Under(r, a)
    PROVE  Tells(r, During(a))
BY DEF Under, Tells, During, Controls

LEMMA IntentUnder ==
    ASSUME NEW r \in VmRecord, NEW a
    PROVE  Under(Intent(r, a), a) /\ Intent(r, a).named = r.named
BY DEF Under, Intent, VmRecord

\* The address is no part of it.
LEMMA TellsSame ==
    ASSUME NEW r, NEW t, NEW c, Tells(r, c), t.status = r.status, t.action = r.action
    PROVE  Tells(t, c)
BY DEF Tells

LEMMA TellsOn ==
    ASSUME NEW r, CspProgress, Tells(r, csp)
    PROVE  Tells(r, csp')
BY DEF CspProgress, Tells

LEMMA TakesOn ==
    ASSUME NEW a, CspProgress
    PROVE  ~Takes(csp, a) /\ csp \notin {"Absent", "Running"}
BY DEF CspProgress, Takes

-----------------------------------------------------------------------------
LEMMA SteadyScope ==
    ASSUME Steady
    PROVE  /\ Smooth /\ "force" \notin Scope /\ "overlap" \notin Scope /\ "cache" \notin Scope
           /\ \A f, v : Cached(f, v) = cache
BY DEF Steady, Smooth, Cached

LEMMA CalmInit == Init => Calm
<1> SUFFICES ASSUME Init PROVE Calm
  OBVIOUS
<1>1. \A p \in Procs : p # Creator => pc[p] = "idle"
  BY DEF Init
<1>2. pc[Creator] \in {"none", "done"}
  BY CreatorIsProc DEF Init
<1>3. Tells(vm, csp)
  BY DEF Init, Tells, NewVm, RunningVm
<1>4. At(Creator) \/ pc[Creator] = "done"
  BY <1>2 DEF At, InControl, InFetch, InCreate, FetchLabels
<1>5. cache = EmptyCache
  BY DEF Init
<1> QED
  BY <1>1, <1>3, <1>4, <1>5 DEF Calm, Busy

\* A step of p, the only goroutine under way.
LEMMA CalmStep ==
    ASSUME Calm, NEW p \in Procs, OthersStay(p), \A q \in Procs : q # p => ~Busy(q),
           cache' = cache, pc'[p] # "call" => Tells(vm', csp'), pc'[p] \in {"idle", "done"} \/ At(p)'
    PROVE  Calm'
<1>1. \A q \in Procs : q # p => pc'[q] = pc[q] /\ pc[q] \in {"idle", "done"}
  BY DEF OthersStay, Busy
<1> QED
  BY <1>1 DEF Calm, Busy

LEMMA Alone ==
    ASSUME Calm, NEW p \in Procs, pc[p] \notin {"idle", "done"}
    PROVE  /\ At(p) /\ cache = EmptyCache
           /\ \A q \in Procs : q # p => ~Busy(q)
           /\ pc[p] # "call" => Tells(vm, csp)
BY DEF Calm, Busy

LEMMA AllQuiet ==
    ASSUME Calm, Quiet
    PROVE  Tells(vm, csp) /\ \A q \in Procs : ~Busy(q)
BY DEF Calm, Busy, Quiet

\* The record has a name but while CreateVm is at its beginning.
LEMMA NamedNow ==
    ASSUME Sure, Calm, NEW p \in Procs, pc[p] \notin {"idle", "done", "none", "post", "crSave"}
    PROVE  vm.named /\ exists
<1>1. exists
  BY Alone DEF At
<1>2. p # Creator => pc[Creator] \in {"idle", "done"}
  BY Alone, CreatorIsProc DEF Busy
<1> QED
  BY <1>1, <1>2 DEF Sure, Unnamed

LEMMA SavedCalm ==
    ASSUME Safe, Sure, Calm, NEW p \in Procs, pc[p] \in SaveLabels, Saved(p),
           vm' = want[p], exists' = TRUE, UNCHANGED <<csp, cache, seen>>
    PROVE  Calm'
<1>1. /\ At(p) /\ InControl(p) /\ InFetch(p) /\ InCreate(p)
      /\ \A q \in Procs : q # p => ~Busy(q)
      /\ Tells(vm, csp)
  BY Alone DEF SaveLabels, At
<1>2. Enter(p, AfterSave(p)) /\ pc[p] # "invalid"
  BY DEF Saved, Sure, Hand
<1>3. /\ OthersStay(p) /\ pc'[p] = AfterSave(p) /\ act'[p] \in {act[p], "None"}
      /\ pc'[p] # "idle" => obj'[p] = obj[p] /\ act'[p] = act[p]
  BY <1>2, EnterOwn, LocalsTyped DEF Safe, OthersStay, Saved, Enter
<1>4. CASE pc[p] = "crSave"
  <2>1. pc'[p] = "fetch" /\ p = Creator /\ csp = "Running" /\ Under(vm', "Create")
    BY <1>1, <1>3, <1>4 DEF AfterSave, InCreate
  <2>2. Tells(vm', csp')
    BY <2>1 DEF Under, Tells, During
  <2>3. p \notin Controllers
    BY <2>1, ProcessAssumption
  <2>4. At(p)'
    BY <2>1, <2>3 DEF At, InControl, InFetch, InCreate
  <2> QED
    BY <1>1, <1>3, <2>2, <2>4, CalmStep
<1>5. CASE pc[p] = "crEnd"
  <2>1. pc'[p] = "label" /\ p = Creator /\ csp = "Running" /\ vm'.status = "Running" /\ vm'.action = "None"
    BY <1>1, <1>3, <1>5 DEF AfterSave, InCreate
  <2>2. Tells(vm', csp')
    BY <2>1 DEF Tells
  <2>3. At(p)'
    BY <2>1 DEF At, InControl, InFetch, InCreate, FetchLabels
  <2> QED
    BY <1>1, <1>3, <2>2, <2>3, CalmStep
<1>6. CASE pc[p] = "intent"
  <2>1. pc'[p] = "call" /\ Takes(csp', act'[p]) /\ Under(vm', act'[p]) /\ Under(obj'[p], act'[p])
    BY <1>1, <1>3, <1>6 DEF AfterSave, InControl
  <2>2. p # Creator
    BY <1>6 DEF Sure, CreatorHand, CreatorLabels, FetchLabels
  <2>3. At(p)'
    BY <2>1, <2>2 DEF At, InControl, InFetch, InCreate, FetchLabels
  <2> QED
    BY <1>1, <1>3, <2>1, <2>3, CalmStep
<1>7. CASE pc[p] = "fetchSave"
  <2>1. pc'[p] = AfterFetch(p) /\ Tells(vm', csp')
    BY <1>1, <1>3, <1>7 DEF AfterSave, InFetch
  <2>2. CASE p = Creator
    <3>1. pc'[p] = "crResult" /\ csp = "Running" /\ ret' = "Running"
      BY <1>1, <1>7, <2>1, <2>2 DEF AfterFetch, Saved, Return, InCreate
    <3>2. At(p)'
      BY <2>2, <3>1 DEF At, InControl, InFetch, InCreate, FetchLabels
    <3> QED
      BY <1>1, <1>3, <2>1, <3>2, CalmStep
  <2>3. CASE p \in Controllers /\ p # Creator
    <3>1. pc'[p] = "after" /\ obj'[p] = obj[p]
      BY <1>3, <2>1, <2>3 DEF AfterFetch
    <3>2. Tells(obj'[p], csp')
      BY <1>1, <1>7, <2>3, <3>1 DEF InControl
    <3>3. At(p)'
      BY <2>3, <3>1, <3>2 DEF At, InControl, InFetch, InCreate, FetchLabels
    <3> QED
      BY <1>1, <1>3, <2>1, <3>3, CalmStep
  <2>4. CASE p \notin Controllers /\ p # Creator
    <3>1. pc'[p] = "idle"
      BY <2>1, <2>4 DEF AfterFetch
    <3> QED
      BY <1>1, <1>3, <2>1, <3>1, CalmStep
  <2> QED
    BY <2>2, <2>3, <2>4
<1>8. CASE pc[p] = "ipSave"
  <2>1. pc'[p] = "idle" /\ Tells(vm', csp')
    BY <1>1, <1>3, <1>8 DEF AfterSave, InControl
  <2> QED
    BY <1>1, <1>3, <2>1, CalmStep
<1>9. pc[p] # "crFail"
  BY <1>1 DEF InCreate
<1> QED
  BY <1>2, <1>4, <1>5, <1>6, <1>7, <1>8, <1>9 DEF SaveLabels

LEMMA CheckCalm ==
    ASSUME Safe, Sure, Calm, NEW p \in Procs, UpdateVmInfoCheck(p)
    PROVE  Calm'
<1>1. UNCHANGED <<exists, vm, csp, cache, seen>> /\ pc[p] \in SaveLabels
  BY DEF UpdateVmInfoCheck
<1>2. CASE UNCHANGED <<pc, act, obj, want, ret>>
  BY <1>1, <1>2 DEF Calm, Busy, At, InControl, InFetch, InCreate
<1>3. CASE ~(exists /\ vm # want[p]) /\ Saved(p)
  <2>1. exists
    BY <1>1, Alone DEF SaveLabels, At
  <2>2. exists = TRUE
    BY <2>1 DEF Safe, TypeInv, TypeOK, StoreType
  <2> QED
    BY <1>1, <1>3, <2>2, SavedCalm
<1> QED
  BY <1>2, <1>3 DEF UpdateVmInfoCheck

LEMMA PutCalm ==
    ASSUME Safe, Sure, Calm, Steady, NEW p \in Procs, UpdateVmInfoPut(p)
    PROVE  Calm'
<1>1. UNCHANGED <<csp, cache, seen>> /\ pc[p] \in SaveLabels /\ Saved(p) /\ vm' = want[p] /\ exists' = TRUE
  BY SteadyScope, NoFault, CreatorIsProc DEF Safe, UpdateVmInfoPut, TypeInv, TypeOK, MutexHeld
<1> QED
  BY <1>1, SavedCalm

-----------------------------------------------------------------------------
(* FetchVmStatus. *)

LEMMA FetchReturnCalm ==
    ASSUME Safe, Sure, Calm, NEW p \in Procs, NEW r, FetchReturn(p, r), pc[p] \in FetchLabels,
           UNCHANGED <<exists, vm, act, obj, csp, cache>>, p = Creator => r = "Running"
    PROVE  Calm'
<1>1. OthersStay(p) /\ pc'[p] = AfterFetch(p)
  BY LocalsTyped DEF Safe, FetchReturn, Goto, OthersStay
<1>2. /\ At(p) /\ InControl(p) /\ InCreate(p) /\ exists
      /\ \A q \in Procs : q # p => ~Busy(q)
      /\ Tells(vm, csp)
  BY Alone DEF FetchLabels, At
<1>3. CASE p = Creator
  <2>1. pc'[p] = "crResult" /\ csp = "Running" /\ ret' = "Running"
    BY <1>1, <1>2, <1>3 DEF AfterFetch, FetchReturn, Return, InCreate, FetchLabels
  <2>2. At(p)'
    BY <1>2, <1>3, <2>1 DEF At, InControl, InFetch, InCreate, FetchLabels
  <2> QED
    BY <1>1, <1>2, <2>2, CalmStep
<1>4. CASE p \in Controllers /\ p # Creator
  <2>1. pc'[p] = "after" /\ Tells(obj[p], csp)
    BY <1>1, <1>2, <1>4 DEF AfterFetch, InControl
  <2>2. At(p)'
    BY <1>2, <1>4, <2>1 DEF At, InControl, InFetch, InCreate, FetchLabels
  <2> QED
    BY <1>1, <1>2, <2>2, CalmStep
<1>5. CASE p \notin Controllers /\ p # Creator
  <2>1. pc'[p] = "idle"
    BY <1>1, <1>5 DEF AfterFetch
  <2> QED
    BY <1>1, <1>2, <2>1, CalmStep
<1> QED
  BY <1>3, <1>4, <1>5

\* A step inside FetchVmStatus.
LEMMA FetchOnCalm ==
    ASSUME Safe, Sure, Calm, NEW p \in Procs, pc[p] \in FetchLabels, OthersStay(p),
           UNCHANGED <<exists, vm, act, obj, csp, cache>>,
           pc'[p] \in {"fetchCsp", "fetchRead", "fetchIp", "fetchCheck", "fetchSave"},
           pc'[p] = "fetchRead" => Tells(Refreshed(vm, seen'[p].native), csp),
           pc'[p] \in {"fetchIp", "fetchCheck", "fetchSave"} => Tells(want'[p], csp),
           p = Creator /\ pc'[p] = "fetchRead" => seen'[p].native = "Running",
           p = Creator /\ pc'[p] \in {"fetchIp", "fetchCheck", "fetchSave"} => want'[p].status = "Running"
    PROVE  Calm'
<1>1. /\ At(p) /\ InControl(p) /\ InCreate(p) /\ exists
      /\ \A q \in Procs : q # p => ~Busy(q)
      /\ Tells(vm, csp)
  BY Alone DEF FetchLabels, At
<1>2. InControl(p)'
  BY <1>1 DEF InControl
<1>3. InFetch(p)'
  BY DEF InFetch
<1>4. InCreate(p)'
  <2>1. CASE p = Creator
    <3>1. csp = "Running" /\ Under(vm, "Create")
      BY <1>1, <2>1 DEF InCreate, FetchLabels
    <3> QED
      BY <2>1, <3>1 DEF InCreate
  <2>2. CASE p # Creator
    BY <2>2 DEF InCreate
  <2> QED
    BY <2>1, <2>2
<1>5. At(p)'
  BY <1>1, <1>2, <1>3, <1>4 DEF At
<1> QED
  BY <1>1, <1>5, CalmStep

LEMMA FetchFirstReadCalm ==
    ASSUME Safe, Sure, Calm, NEW p \in Procs, FetchFirstRead(p)
    PROVE  Calm'
<1>1. UNCHANGED <<exists, vm, act, obj, csp, cache>> /\ pc[p] \in FetchLabels /\ pc[p] = "fetch"
  BY DEF FetchFirstRead, FetchLabels
<1>2. exists /\ vm.named /\ InCreate(p) /\ Tells(vm, csp)
  BY <1>1, NamedNow, Alone DEF At
<1>3. p = Creator => vm.status = "Creating" /\ vm.action = "Create"
  BY <1>1, <1>2 DEF InCreate, Under, During
<1>4. CASE NeedNotAsk(vm)
  <2>1. p # Creator
    BY <1>3, <1>4 DEF NeedNotAsk
  <2> QED
    BY <1>1, <1>2, <1>4, <2>1, FetchReturnCalm DEF FetchFirstRead
<1>5. CASE ~NeedNotAsk(vm)
  <2>1. /\ seen' = [seen EXCEPT ![p] = [native |-> "Undefined", named |-> vm.named]]
        /\ Goto(p, IF vm.status # "Terminated" THEN "fetchCsp" ELSE "fetchRead")
        /\ UNCHANGED <<want, ret>>
    BY <1>2, <1>5 DEF FetchFirstRead
  <2>2. /\ OthersStay(p) /\ pc'[p] \in {"fetchCsp", "fetchRead"} /\ seen'[p].native = "Undefined"
        /\ pc'[p] = "fetchRead" => vm.status = "Terminated"
    BY <1>1, <2>1, LocalsTyped DEF Safe, Goto, OthersStay
  <2>3. pc'[p] = "fetchRead" => Tells(Refreshed(vm, seen'[p].native), csp)
    BY <1>2, <2>2, TerminatedTells, LocalsTyped DEF Safe
  <2> QED
    BY <1>1, <1>3, <2>2, <2>3, FetchOnCalm
<1> QED
  BY <1>4, <1>5

LEMMA FetchNativeStatusCalm ==
    ASSUME Safe, Sure, Calm, Steady, NEW p \in Procs, FetchNativeStatus(p)
    PROVE  Calm'
<1>1. UNCHANGED <<exists, vm, act, obj, csp, want, ret>> /\ pc[p] \in FetchLabels /\ pc[p] = "fetchCsp"
      /\ pc' = [pc EXCEPT ![p] = "fetchRead"]
  BY DEF FetchNativeStatus, FetchLabels, Goto
<1>2. InCreate(p) /\ Tells(vm, csp) /\ cache.status = "none" /\ csp \in CspStates \ {"Absent"}
  BY <1>1, Alone, LocalsTyped DEF At, EmptyCache, Safe, Made
<1>3. PICK s \in Reports(csp) : seen' = [seen EXCEPT ![p].native = s] /\ cache' = cache
  BY <1>2, NoFault, SteadyScope DEF FetchNativeStatus
<1>4. OthersStay(p) /\ pc'[p] = "fetchRead" /\ seen'[p].native = s
  BY <1>1, <1>3, LocalsTyped DEF Safe, OthersStay
<1>5. Tells(Refreshed(vm, s), csp)
  BY <1>2, ReportedTells, LocalsTyped DEF Safe
<1>6. p = Creator => s = "Running"
  BY <1>1, <1>2 DEF InCreate, Reports
<1> QED
  BY <1>1, <1>3, <1>4, <1>5, <1>6, FetchOnCalm

LEMMA FetchSecondReadCalm ==
    ASSUME Safe, Sure, Calm, NEW p \in Procs, FetchSecondRead(p)
    PROVE  Calm'
<1>1. UNCHANGED <<exists, vm, act, obj, csp, cache>> /\ pc[p] \in FetchLabels /\ pc[p] = "fetchRead"
  BY DEF FetchSecondRead, FetchLabels
<1>2. exists /\ InCreate(p) /\ Tells(Refreshed(vm, seen[p].native), csp)
  BY <1>1, NamedNow, Alone DEF At, InFetch
<1>3. /\ want' = [want EXCEPT ![p] = Refreshed(vm, seen[p].native)]
      /\ \E l \in {"fetchIp", "fetchCheck"} : Goto(p, l)
      /\ seen' = [seen EXCEPT ![p].native = "Undefined"]
  BY <1>2 DEF FetchSecondRead
<1>4. OthersStay(p) /\ pc'[p] \in {"fetchIp", "fetchCheck"} /\ want'[p] = Refreshed(vm, seen[p].native)
  BY <1>1, <1>3, LocalsTyped DEF Safe, Goto, OthersStay
<1>5. p = Creator => want'[p].status = "Running"
  <2>1. p = Creator => vm.status = "Creating" /\ vm.action = "Create" /\ seen[p].native = "Running"
    BY <1>1, <1>2 DEF InCreate, Under, During
  <2>2. p = Creator => Corrected(vm, seen[p].native) = "Running"
    BY <2>1 DEF Corrected, OnTheWay
  <2> QED
    BY <1>4, <2>2, LocalsTyped DEF Safe, Refreshed, VmRecord
<1> QED
  BY <1>1, <1>2, <1>4, <1>5, FetchOnCalm

LEMMA FetchPublicIpCalm ==
    ASSUME Safe, Sure, Calm, Steady, NEW p \in Procs, FetchPublicIp(p)
    PROVE  Calm'
<1>1. UNCHANGED <<exists, vm, act, obj, csp>> /\ pc[p] \in FetchLabels /\ pc[p] = "fetchIp"
  BY DEF FetchPublicIp, FetchLabels
<1>2. exists /\ vm.named /\ InCreate(p) /\ Tells(want[p], csp) /\ cache = EmptyCache
  BY <1>1, NamedNow, Alone DEF At, InFetch
<1>3. CASE PublicIpUnknown /\ FetchReturn(p, "error") /\ UNCHANGED cache
  <2>1. p # Creator
    BY <1>1, <1>2, <1>3, NoFault, SteadyScope DEF InCreate, PublicIpUnknown
  <2> QED
    BY <1>1, <1>3, <2>1, FetchReturnCalm
<1>4. CASE \E i \in IPs : PublicIpIs(i) /\ want' = [want EXCEPT ![p].ip = i]
                          /\ Goto(p, "fetchCheck") /\ UNCHANGED <<seen, ret>>
  <2>1. PICK i \in IPs : PublicIpIs(i) /\ want' = [want EXCEPT ![p].ip = i]
    BY <1>4
  <2>2. OthersStay(p) /\ pc'[p] = "fetchCheck"
    BY <1>1, <1>4, <2>1, LocalsTyped DEF Safe, Goto, OthersStay
  <2>3. want'[p].status = want[p].status /\ want'[p].action = want[p].action
    BY <2>1, LocalsTyped DEF Safe, VmRecord
  <2>4. cache' = cache
    BY <2>1, SteadyScope DEF PublicIpIs
  <2>5. Tells(want'[p], csp)
    BY <1>2, <2>3, TellsSame
  <2>6. p = Creator => want'[p].status = "Running"
    BY <1>1, <1>2, <2>3 DEF InCreate
  <2> QED
    BY <1>1, <2>2, <2>4, <2>5, <2>6, FetchOnCalm
<1> QED
  BY <1>3, <1>4 DEF FetchPublicIp

LEMMA FetchThirdReadCalm ==
    ASSUME Safe, Sure, Calm, NEW p \in Procs, FetchThirdRead(p)
    PROVE  Calm'
<1>1. UNCHANGED <<exists, vm, act, obj, csp, cache>> /\ pc[p] \in FetchLabels /\ pc[p] = "fetchCheck"
  BY DEF FetchThirdRead, FetchLabels, countVars
<1>2. InCreate(p) /\ Tells(want[p], csp)
  BY <1>1, Alone DEF At, InFetch
<1>3. p = Creator => want[p].status = "Running"
  BY <1>1, <1>2 DEF InCreate
<1>4. CASE FetchReturn(p, want[p].status)
  BY <1>1, <1>3, <1>4, FetchReturnCalm
<1>5. CASE Goto(p, "fetchSave") /\ seen' = [seen EXCEPT ![p] = Nothing] /\ UNCHANGED <<want, ret>>
  <2>1. OthersStay(p) /\ pc'[p] = "fetchSave" /\ want'[p] = want[p]
    BY <1>1, <1>5, LocalsTyped DEF Safe, Goto, OthersStay
  <2> QED
    BY <1>1, <1>2, <1>3, <2>1, FetchOnCalm
<1> QED
  BY <1>4, <1>5 DEF FetchThirdRead

-----------------------------------------------------------------------------
(* Requests, and CreateVm. *)

LEMMA PollCalm ==
    ASSUME Safe, Calm, Steady, NEW p \in Pollers, Poll(p)
    PROVE  Calm'
<1>1. p \in Procs /\ p # Creator /\ p \notin Controllers /\ exists
      /\ UNCHANGED <<exists, vm, csp, cache, localVars>>
  BY ProcessAssumption DEF Poll, Procs
<1>2. OthersStay(p) /\ pc'[p] = "fetch"
  BY <1>1, LocalsTyped DEF Safe, Poll, Goto, OthersStay, localVars
<1>3. Tells(vm, csp) /\ \A q \in Procs : ~Busy(q)
  BY AllQuiet, SteadyScope DEF Poll
<1>4. At(p)'
  BY <1>1, <1>2 DEF At, InControl, InFetch, InCreate
<1> QED
  BY <1>1, <1>2, <1>3, <1>4, CalmStep

LEMMA RequestCalm ==
    ASSUME Safe, Sure, Calm, Steady, NEW c \in Controllers, NEW a \in Controls, Request(c, a)
    PROVE  Calm'
<1>1. c \in Procs /\ c # Creator /\ exists
      /\ UNCHANGED <<exists, vm, csp, cache, obj, seen, want, ret>>
  BY ProcessAssumption DEF Request, Procs
<1>2. OthersStay(c) /\ pc'[c] = "begin" /\ act'[c] = a
  BY <1>1, LocalsTyped DEF Safe, Request, Goto, OthersStay
<1>3. Tells(vm, csp) /\ \A q \in Procs : ~Busy(q)
  BY AllQuiet, SteadyScope DEF Request
<1>4. Takes(csp, a)
  BY <1>3, AllowedTakes, SteadyScope DEF Request
<1>5. At(c)'
  BY <1>1, <1>2, <1>4 DEF At, InControl, InFetch, InCreate, FetchLabels
<1> QED
  BY <1>1, <1>2, <1>3, <1>5, CalmStep

LEMMA CreateVmObjectCalm ==
    ASSUME Safe, Calm, CreateVmObject
    PROVE  Calm'
<1>1. /\ Creator \in Procs /\ pc[Creator] = "none" /\ csp = "Absent"
      /\ UNCHANGED <<csp, cache, localVars>> /\ vm' = NewVm /\ exists'
  BY CreatorIsProc DEF CreateVmObject, Safe, Made
<1>2. OthersStay(Creator) /\ pc'[Creator] = "post"
  BY <1>1, LocalsTyped DEF Safe, CreateVmObject, Goto, OthersStay, localVars
<1>3. \A q \in Procs : q # Creator => ~Busy(q)
  BY <1>1, Alone
<1>4. Tells(vm', csp')
  BY <1>1, NewVmFacts DEF Tells
<1>5. At(Creator)'
  BY <1>1, <1>2 DEF At, InControl, InFetch, InCreate, FetchLabels
<1> QED
  BY <1>1, <1>2, <1>3, <1>4, <1>5, CalmStep

LEMMA CreateVmPostCalm ==
    ASSUME Safe, Sure, Calm, Steady, CreateVmPost
    PROVE  Calm'
<1>1. PICK i \in IPs : Submit(Creator, [obj[Creator] EXCEPT !.named = TRUE, !.ip = i], "crSave")
                       /\ csp' = "Running"
  BY NoFault, SteadyScope DEF CreateVmPost
<1> DEFINE rec == [obj[Creator] EXCEPT !.named = TRUE, !.ip = i]
<1>2. obj[Creator] = NewVm /\ NewVm \in VmRecord
  BY NewVmType DEF CreateVmPost, Sure, CreatorHand
<1>3. rec \in VmRecord /\ Under(rec, "Create")
  BY <1>2, NewVmFacts DEF VmRecord, Under, During
<1>4. UNCHANGED <<exists, vm, act, seen, ret, cache>> /\ pc[Creator] = "post" /\ csp = "Absent"
      /\ Creator \in Procs
  BY CreatorIsProc DEF CreateVmPost, Safe, Made
<1> HIDE DEF rec
<1>5. Submit(Creator, rec, "crSave")
  BY <1>1 DEF rec
<1>6. OthersStay(Creator) /\ pc'[Creator] = "crSave" /\ want'[Creator] = rec
  BY <1>3, <1>4, <1>5, SubmitOwn
<1>7. /\ exists /\ Tells(vm, csp)
      /\ \A q \in Procs : q # Creator => ~Busy(q)
  BY <1>4, Alone DEF At
<1>8. Tells(vm', csp')
  BY <1>1, <1>4, <1>7 DEF Tells
<1>9. At(Creator)'
  BY <1>1, <1>3, <1>4, <1>6, <1>7 DEF At, InControl, InFetch, InCreate, FetchLabels
<1> QED
  BY <1>4, <1>6, <1>7, <1>8, <1>9, CalmStep

LEMMA CreateVmResultCalm ==
    ASSUME Safe, Sure, Calm, CreateVmResult
    PROVE  Calm'
<1>1. /\ UNCHANGED <<exists, vm, act, seen, ret, cache, csp>> /\ pc[Creator] = "crResult"
      /\ Creator \in Procs /\ obj[Creator] \in VmRecord
  BY LocalsTyped, CreatorIsProc DEF CreateVmResult, Safe
<1>2. /\ exists /\ Tells(vm, csp) /\ ret = "Running" /\ csp = "Running"
      /\ \A q \in Procs : q # Creator => ~Busy(q)
  BY <1>1, Alone DEF At, InCreate
<1> DEFINE rec == [obj[Creator] EXCEPT !.status = ret, !.action = "None"]
<1>3. rec \in VmRecord /\ rec.status = "Running" /\ rec.action = "None"
  BY <1>1, <1>2 DEF VmRecord, Actions, Statuses, Stable
<1> HIDE DEF rec
<1>4. Submit(Creator, rec, "crEnd")
  BY <1>2 DEF CreateVmResult, rec
<1>5. OthersStay(Creator) /\ pc'[Creator] = "crEnd" /\ want'[Creator] = rec
  BY <1>1, <1>3, <1>4, SubmitOwn
<1>6. At(Creator)'
  BY <1>1, <1>2, <1>3, <1>5 DEF At, InControl, InFetch, InCreate, FetchLabels
<1> QED
  BY <1>1, <1>2, <1>5, <1>6, CalmStep

LEMMA CreateVmLabelCalm ==
    ASSUME Safe, Calm, Steady, CreateVmLabel
    PROVE  Calm'
<1>1. /\ UNCHANGED <<exists, vm, act, seen, ret, cache, csp, obj, want>> /\ pc[Creator] = "label"
      /\ Goto(Creator, "done") /\ Creator \in Procs
  BY NoFault, SteadyScope, CreatorIsProc DEF CreateVmLabel
<1>2. OthersStay(Creator) /\ pc'[Creator] = "done"
  BY <1>1, LocalsTyped DEF Safe, Goto, OthersStay
<1>3. Tells(vm, csp) /\ \A q \in Procs : q # Creator => ~Busy(q)
  BY <1>1, Alone
<1> QED
  BY <1>1, <1>2, <1>3, CalmStep

-----------------------------------------------------------------------------
(* ControlVmAsync. *)

LEMMA ControlReadCalm ==
    ASSUME Safe, Sure, Calm, NEW c \in Procs, ControlRead(c)
    PROVE  Calm'
<1>1. /\ pc[c] = "begin" /\ act[c] \in Controls /\ c # Creator
      /\ UNCHANGED <<exists, vm, csp, cache, seen, ret>>
  BY ControlKnows DEF ControlRead, Safe, TypeInv, ActKnown
<1>2. /\ exists /\ vm.named /\ Takes(csp, act[c]) /\ Tells(vm, csp)
      /\ \A q \in Procs : q # c => ~Busy(q)
  BY <1>1, NamedNow, Alone DEF At, InControl
<1>3. CASE Enter(c, "idle") /\ UNCHANGED want
  <2>1. OthersStay(c) /\ pc'[c] = "idle"
    BY <1>1, <1>3, EnterOwn DEF OthersStay
  <2> QED
    BY <1>1, <1>2, <2>1, CalmStep
<1>4. CASE Submit(c, Intent(vm, act[c]), "intent") /\ UNCHANGED act
  <2>1. OthersStay(c) /\ pc'[c] = "intent" /\ act'[c] = act[c]
        /\ want'[c] = Intent(vm, act[c]) /\ obj'[c] = Intent(vm, act[c])
    BY <1>1, <1>4, LocalsTyped DEF Safe, Submit, Goto, OthersStay
  <2>2. Under(want'[c], act'[c]) /\ Under(obj'[c], act'[c])
    BY <2>1, IntentUnder, LocalsTyped DEF Safe
  <2>3. At(c)'
    BY <1>1, <1>2, <2>1, <2>2 DEF At, InControl, InFetch, InCreate, FetchLabels
  <2> QED
    BY <1>1, <1>2, <2>1, <2>3, CalmStep
<1> QED
  BY <1>2, <1>3, <1>4 DEF ControlRead

LEMMA ControlCallCalm ==
    ASSUME Safe, Sure, Calm, Steady, NEW c \in Procs, ControlCall(c)
    PROVE  Calm'
<1>1. /\ pc[c] = "call" /\ act[c] \in Controls /\ c # Creator
      /\ UNCHANGED <<exists, vm, seen, want, ret>>
  BY ControlKnows DEF ControlCall, Safe, TypeInv, ActKnown
<1>2. /\ exists /\ Takes(csp, act[c]) /\ Under(vm, act[c]) /\ Under(obj[c], act[c])
      /\ cache = EmptyCache
      /\ \A q \in Procs : q # c => ~Busy(q)
  BY <1>1, Alone DEF At, InControl
<1>3. csp' = During(act[c]) /\ Enter(c, "fetch") /\ cache' = cache
  BY <1>2, NoFault, SteadyScope DEF ControlCall, AnsweredFromCache, EmptyCache, Takes, Cached
<1>4. OthersStay(c) /\ pc'[c] = "fetch" /\ obj'[c] = obj[c]
  BY <1>1, <1>3, EnterOwn DEF OthersStay, Enter
<1>5. Tells(vm', csp') /\ Tells(obj'[c], csp')
  BY <1>1, <1>2, <1>3, <1>4, UnderTells
<1>6. At(c)'
  BY <1>1, <1>2, <1>4, <1>5 DEF At, InControl, InFetch, InCreate
<1> QED
  BY <1>2, <1>3, <1>4, <1>5, <1>6, CalmStep

LEMMA ControlAfterCalm ==
    ASSUME Safe, Sure, Calm, NEW c \in Procs, ControlAfter(c)
    PROVE  Calm'
<1>1. pc[c] = "after" /\ c # Creator /\ c \in Controllers
      /\ UNCHANGED <<exists, vm, csp, cache, seen, want, ret>>
  BY ControlKnows DEF ControlAfter, countVars
<1>2. /\ exists /\ Tells(obj[c], csp) /\ Tells(vm, csp)
      /\ \A q \in Procs : q # c => ~Busy(q)
  BY <1>1, Alone DEF At, InControl
<1>3. PICK l \in {"idle", "ipGet"} : Enter(c, l)
  BY DEF ControlAfter
<1>4. OthersStay(c) /\ pc'[c] = l /\ (l # "idle" => obj'[c] = obj[c])
  BY <1>1, <1>3, EnterOwn DEF OthersStay, Enter
<1>5. l = "ipGet" => At(c)'
  BY <1>1, <1>2, <1>4 DEF At, InControl, InFetch, InCreate, FetchLabels
<1> QED
  BY <1>1, <1>2, <1>4, <1>5, CalmStep

LEMMA ControlPublicIpCalm ==
    ASSUME Safe, Sure, Calm, Steady, NEW c \in Procs, ControlPublicIp(c)
    PROVE  Calm'
<1>1. pc[c] = "ipGet" /\ c # Creator /\ c \in Controllers /\ UNCHANGED <<exists, vm, csp, seen, ret>>
  BY ControlKnows DEF ControlPublicIp
<1>2. /\ exists /\ Tells(obj[c], csp) /\ Tells(vm, csp)
      /\ \A q \in Procs : q # c => ~Busy(q)
  BY <1>1, Alone DEF At, InControl
<1>3. cache' = cache
  BY SteadyScope DEF ControlPublicIp, PublicIpIs
<1>4. CASE \E i \in IPs : Enter(c, "ipSave") /\ want' = [want EXCEPT ![c] = [obj[c] EXCEPT !.ip = i]]
  <2>1. PICK i \in IPs : Enter(c, "ipSave") /\ want' = [want EXCEPT ![c] = [obj[c] EXCEPT !.ip = i]]
    BY <1>4
  <2>2. OthersStay(c) /\ pc'[c] = "ipSave" /\ want'[c] = [obj[c] EXCEPT !.ip = i]
    BY <1>1, <2>1, EnterOwn, LocalsTyped DEF Safe, OthersStay
  <2>3. want'[c].status = obj[c].status /\ want'[c].action = obj[c].action
    BY <2>2, LocalsTyped DEF Safe, VmRecord
  <2>4. Tells(want'[c], csp')
    BY <1>1, <1>2, <2>3, TellsSame
  <2>5. At(c)'
    BY <1>1, <1>2, <2>2, <2>4 DEF At, InControl, InFetch, InCreate, FetchLabels
  <2> QED
    BY <1>1, <1>2, <1>3, <2>2, <2>5, CalmStep
<1>5. CASE Enter(c, "idle") /\ UNCHANGED want
  <2>1. OthersStay(c) /\ pc'[c] = "idle"
    BY <1>1, <1>5, EnterOwn DEF OthersStay
  <2> QED
    BY <1>1, <1>2, <1>3, <2>1, CalmStep
<1> QED
  BY <1>4, <1>5 DEF ControlPublicIp

-----------------------------------------------------------------------------
LEMMA EnvironmentCalm ==
    ASSUME Safe, Calm, Steady, DelMciVm \/ CspProgress \/ CacheExpires
    PROVE  Calm'
<1>1. UNCHANGED <<vm, pc, act, obj, seen, want, ret>>
  BY DEF DelMciVm, CspProgress, CacheExpires, localVars
<1>2. CASE DelMciVm
  <2>1. \A q \in Procs : ~Busy(q)
    BY <1>2, AllQuiet, SteadyScope DEF DelMciVm
  <2> QED
    BY <1>1, <1>2, <2>1 DEF DelMciVm, Calm, Busy
<1>3. CASE CspProgress
  <2>1. \A r : Tells(r, csp) => Tells(r, csp')
    BY <1>3, TellsOn
  <2>2. \A a : ~Takes(csp, a)
    BY <1>3, TakesOn
  <2>3. ASSUME NEW p \in Procs, Busy(p) PROVE At(p)'
    <3>1. At(p) /\ exists' = exists
      BY <1>3, <2>3 DEF Calm, CspProgress
    <3>2. InControl(p)'
      BY <1>1, <2>1, <2>2, <3>1 DEF At, InControl
    <3>3. InFetch(p)'
      BY <1>1, <2>1, <3>1 DEF At, InFetch
    <3>4. InCreate(p)'
      BY <1>1, <1>3, <3>1, TakesOn DEF At, InCreate
    <3> QED
      BY <1>1, <3>1, <3>2, <3>3, <3>4 DEF At
  <2>4. cache' = cache
    BY <1>3 DEF CspProgress
  <2> QED
    BY <1>1, <2>1, <2>3, <2>4 DEF Calm, Busy
<1>4. CASE CacheExpires
  BY <1>4 DEF CacheExpires, Calm, EmptyCache
<1> QED
  BY <1>2, <1>3, <1>4

LEMMA CalmNext == Safe /\ Sure /\ Calm /\ Steady /\ [Next]_vars => Calm'
<1> SUFFICES ASSUME Safe, Sure, Calm, Steady, [Next]_vars PROVE Calm'
  OBVIOUS
<1>1. CASE UNCHANGED vars
  BY <1>1 DEF vars, localVars, countVars, Calm, Busy, At, InControl, InFetch, InCreate
<1>2. CASE CreateVmObject \/ CreateVm
  BY <1>2, CreateVmObjectCalm, CreateVmPostCalm, CreateVmResultCalm, CreateVmLabelCalm DEF CreateVm
<1>3. CASE \E p \in Procs : UpdateVmInfoCheck(p) \/ UpdateVmInfoPut(p)
  BY <1>3, CheckCalm, PutCalm
<1>4. CASE \E p \in Procs : Fetch(p)
  BY <1>4, FetchFirstReadCalm, FetchNativeStatusCalm, FetchSecondReadCalm, FetchPublicIpCalm,
     FetchThirdReadCalm DEF Fetch
<1>5. CASE \E p \in Procs : Control(p)
  BY <1>5, ControlReadCalm, ControlCallCalm, ControlAfterCalm, ControlPublicIpCalm DEF Control
<1>6. CASE \E p \in Pollers : Poll(p)
  BY <1>6, PollCalm
<1>7. CASE \E c \in Controllers, a \in Controls : Request(c, a)
  BY <1>7, RequestCalm
<1>8. CASE DelMciVm \/ CspProgress \/ CacheExpires
  BY <1>8, EnvironmentCalm
<1> QED
  BY <1>1, <1>2, <1>3, <1>4, <1>5, <1>6, <1>7, <1>8 DEF Next, Step

\* Where FetchVmStatus stops asking ("stable until explicitly resumed",
\* core/infra/manageInfo.go), the VM is suspended: for any number of clients that take
\* turns and force nothing, and of requests, polls and deletions, if no call fails
\* and no answer outlives the request it was given to.
THEOREM SuspendedCorrect == Steady => (Spec => []SuspendedIsStable)
<1>1. CASE Steady
  <2>1. Init => Sure /\ Calm
    BY SureInit, CalmInit
  <2>2. Safe /\ Sure /\ Calm /\ [Next]_vars => Sure' /\ Calm'
    BY <1>1, SureNext, CalmNext, SteadyScope
  <2>3. Calm => SuspendedIsStable
    <3> SUFFICES ASSUME Calm, vm.status = "Suspended", vm.action = "None" PROVE csp = "Suspended"
      BY DEF SuspendedIsStable
    <3>1. \A p \in Procs : pc[p] # "call"
      <4> SUFFICES ASSUME NEW p \in Procs, pc[p] = "call" PROVE FALSE
        OBVIOUS
      <4>1. Under(vm, act[p]) /\ Takes(csp, act[p])
        BY Alone DEF At, InControl
      <4> QED
        BY <4>1 DEF Under, During
    <3>2. Tells(vm, csp)
      BY <3>1 DEF Calm
    <3> QED
      BY <3>2 DEF Tells
  <2> QED
    BY <2>1, <2>2, <2>3, SafeAlways, PTL DEF Spec
<1> QED
  BY <1>1
=============================================================================
