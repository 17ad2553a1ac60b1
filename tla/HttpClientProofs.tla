-------------------------- MODULE HttpClientProofs --------------------------
(* Theorems about HttpClient, for every finite set of callers and all limits. *)
EXTENDS HttpClient, FiniteSetTheorems, TLAPS

-----------------------------------------------------------------------------
(* Type correctness.  That the count stays within the limit rests on what the *)
(* callers loaded before they store.                                          *)

Locals == \A c \in Callers :
    /\ then[c] # "idle" => pc[c] \in {"done", "release"}
    /\ pc[c] = "release" => got[c] > 0
    /\ pc[c] = "take" => got[c] < ConcurrencyLimit
    /\ pc[c] = "wait" => retries[c] < RetryLimit

TypeInv == TypeOK /\ Locals

LEMMA ResetType == ASSUME NEW b \in Breakers PROVE Reset(b) \in Breakers
  BY DEF Reset, Breakers

LEMMA FailureType == ASSUME NEW b \in Breakers PROVE WithFailure(b) \in Breakers
  BY LimitAssumption DEF WithFailure, Breakers

LEMMA ClosedType == Closed \in Breakers
  BY DEF Closed, Breakers

LEMMA InitType == Init => TypeInv
<1> SUFFICES ASSUME Init PROVE TypeInv
  OBVIOUS
<1>1. 0 \in 0..ConcurrencyLimit /\ 0 \in 0..RetryLimit /\ 0 \in 0..MaxFailures
  BY LimitAssumption
<1>2. pc \in [Callers -> Labels] /\ then \in [Callers -> {"idle", "failure", "success"}]
  BY DEF Init, Labels
<1>3. /\ got \in [Callers -> 0..ConcurrencyLimit] /\ seen \in [Callers -> Breakers]
      /\ retries \in [Callers -> 0..RetryLimit]
  BY <1>1, ClosedType DEF Init
<1>4. TypeOK
  BY <1>1, <1>2, <1>3, ClosedType DEF Init, TypeOK
<1>5. Locals
  BY DEF Init, Locals
<1> QED
  BY <1>4, <1>5 DEF TypeInv

LEMMA StepType ==
  ASSUME TypeInv, NEW c \in Callers, Call(c) \/ Step(c)
  PROVE  TypeInv'
<1> USE DEF TypeInv
<1>t. TypeOK /\ Locals
  OBVIOUS
<1>1. CASE Call(c)
  BY <1>1 DEF Call, GoTo, TypeOK, Locals, Labels, storeVars, breakerVars, callVars
<1>2. CASE LookInCache(c)
  BY <1>2 DEF LookInCache, GoTo, TypeOK, Locals, Labels, storeVars, breakerVars, callVars
<1>3. CASE DropExpired(c)
  BY <1>3 DEF DropExpired, GoTo, TypeOK, Locals, Labels, storeVars, breakerVars, callVars
<1>4. CASE CheckCircuitBreaker(c)
  BY <1>4 DEF CheckCircuitBreaker, GoTo, TypeOK, Locals, Labels, storeVars, breakerVars, callVars
<1>5. CASE ResetBreaker(c)
  <2>1. Reset(seen[c]) \in Breakers
    BY ResetType DEF TypeOK
  <2> QED
    BY <1>5, <2>1, ClosedType DEF ResetBreaker, GoTo, Forget, TypeOK, Locals, Labels, storeVars,
                                  breakerVars, callVars
<1>6. CASE LoadCount(c)
  <2>1. pc' \in [Callers -> Labels] /\ got' \in [Callers -> 0..ConcurrencyLimit]
    BY <1>6 DEF LoadCount, GoTo, TypeOK, Labels
  <2>2. retries' \in [Callers -> 0..RetryLimit]
    BY <1>6, LimitAssumption DEF LoadCount, Forget, TypeOK
  <2>3. Locals'
    BY <1>6, LimitAssumption DEF LoadCount, GoTo, HasRoom, Forget, TypeOK, Locals
  <2> QED
    BY <1>6, <2>1, <2>2, <2>3 DEF LoadCount, TypeOK, storeVars, breakerVars
<1>7. CASE TakeSlot(c)
  <2>1. counter' \in 0..ConcurrencyLimit
    BY <1>7, LimitAssumption DEF TakeSlot, StoreCount, TypeOK, Locals
  <2>2. pc' \in [Callers -> Labels] /\ got' \in [Callers -> 0..ConcurrencyLimit]
    BY <1>7, LimitAssumption DEF TakeSlot, StoreCount, GoTo, Forget, TypeOK, Labels
  <2>3. raced' \in BOOLEAN
    BY <1>7, Zenon DEF TakeSlot, StoreCount
  <2>4. Locals'
    BY <1>7, LimitAssumption DEF TakeSlot, StoreCount, GoTo, Forget, TypeOK, Locals, callVars
  <2> QED
    BY <1>7, <2>1, <2>2, <2>3, <2>4 DEF TakeSlot, TypeOK, breakerVars, callVars
<1>8. CASE Waited(c)
  <2>1. pc[c] = "wait" /\ retries[c] \in Nat
    BY <1>8, LimitAssumption DEF Waited, TypeOK
  <2>2. pc' \in [Callers -> Labels]
    BY <1>8 DEF Waited, GoTo, TypeOK, Labels
  <2>3. Locals'
    BY <1>8 DEF Waited, GoTo, Forget, TypeOK, Locals
  <2>4. retries' \in [Callers -> 0..RetryLimit]
    BY <1>8, <2>1, LimitAssumption DEF Waited, Retried, Forget, TypeOK, Locals
  <2> QED
    BY <1>8, <2>2, <2>3, <2>4 DEF Waited, TypeOK, storeVars, breakerVars
<1>9. ASSUME NEW ok \in BOOLEAN, Answer(c, ok)
      PROVE  TypeInv'
  BY <1>9, LimitAssumption DEF Answer, AfterFailure, GoTo, TypeOK, Locals, Labels, storeVars,
                               breakerVars
<1>10. CASE RequestDone(c)
  <2>1. pc[c] = "done" /\ then[c] \in {"idle", "failure", "success"}
    BY <1>10 DEF RequestDone, TypeOK
  <2>2. pc' \in [Callers -> Labels] /\ got' \in [Callers -> 0..ConcurrencyLimit]
    BY <1>10, <2>1 DEF RequestDone, GoTo, TypeOK, Labels
  <2>3. Locals'
    BY <1>10, <2>1 DEF RequestDone, GoTo, Forget, TypeOK, Locals
  <2> QED
    BY <1>10, <2>2, <2>3 DEF RequestDone, Forget, TypeOK, storeVars, breakerVars
<1>11. CASE ReleaseSlot(c)
  <2>1. pc[c] = "release" /\ then[c] \in {"idle", "failure", "success"} /\ got[c] > 0
    BY <1>11 DEF ReleaseSlot, TypeOK, Locals
  <2>2. counter' \in 0..ConcurrencyLimit
    BY <1>11, <2>1, LimitAssumption DEF ReleaseSlot, StoreCount, TypeOK
  <2>3. pc' \in [Callers -> Labels] /\ got' \in [Callers -> 0..ConcurrencyLimit]
    BY <1>11, <2>1, LimitAssumption DEF ReleaseSlot, StoreCount, GoTo, Forget, TypeOK, Labels
  <2>4. raced' \in BOOLEAN
    BY <1>11, Zenon DEF ReleaseSlot, StoreCount
  <2>5. Locals'
    BY <1>11, <2>1 DEF ReleaseSlot, StoreCount, GoTo, Forget, TypeOK, Locals
  <2> QED
    BY <1>11, <2>2, <2>3, <2>4, <2>5 DEF ReleaseSlot, Forget, TypeOK, breakerVars
<1>12. CASE LoadBreaker(c)
  BY <1>12 DEF LoadBreaker, GoTo, TypeOK, Locals, Labels, storeVars, breakerVars, callVars
<1>13. CASE RecordCircuitBreakerFailure(c)
  <2>1. WithFailure(seen[c]) \in Breakers
    BY FailureType DEF TypeOK
  <2> QED
    BY <1>13, <2>1, ClosedType DEF RecordCircuitBreakerFailure, Return, GoTo, Forget, TypeOK,
                                   Locals, Labels, storeVars, callVars
<1>14. CASE RecordCircuitBreakerSuccess(c)
  <2>1. Reset(seen[c]) \in Breakers
    BY ResetType DEF TypeOK
  <2> QED
    BY <1>14, <2>1, ClosedType DEF RecordCircuitBreakerSuccess, GoTo, Forget, TypeOK, Locals,
                                   Labels, storeVars, callVars
<1>15. CASE StoreAnswer(c)
  BY <1>15 DEF StoreAnswer, Return, GoTo, TypeOK, Locals, Labels, storeVars, breakerVars, callVars
<1> QED
  BY <1>1, <1>2, <1>3, <1>4, <1>5, <1>6, <1>7, <1>8, <1>9, <1>10, <1>11, <1>12, <1>13, <1>14,
     <1>15 DEF Step

LEMMA NextType == TypeInv /\ [Next]_vars => TypeInv'
<1> SUFFICES ASSUME TypeInv, [Next]_vars PROVE TypeInv'
  OBVIOUS
<1>1. CASE Expire
  BY <1>1 DEF Expire, TypeInv, TypeOK, Locals, storeVars, breakerVars, callVars
<1>2. CASE Cool
  BY <1>2 DEF Cool, TypeInv, TypeOK, Locals, storeVars, callVars
<1>3. CASE UNCHANGED vars
  BY <1>3 DEF vars, TypeInv, TypeOK, Locals, storeVars, breakerVars, callVars
<1> QED
  BY <1>1, <1>2, <1>3, StepType DEF Next

LEMMA TypeInvHolds == Spec => []TypeInv
  BY InitType, NextType, PTL DEF Spec

\* The count of slots stays between zero and the limit, whatever the races
\* between its loads and its stores (client.go:249 to 273).
THEOREM TypeCorrect == Spec => []TypeOK
<1>1. TypeInv => TypeOK
  BY DEF TypeInv
<1> QED
  BY <1>1, TypeInvHolds, PTL

-----------------------------------------------------------------------------
(* The slots.  A step changes at most the slot of its own caller; the count   *)
(* changes with it unless one of the races happens.                           *)

SlotInv == TypeInv /\ SlotsMatch /\ FullMeansInUse

LEMMA HoldersFinite == IsFiniteSet(Holders) /\ Cardinality(Holders) \in Nat
<1>1. Holders \subseteq Callers
  BY DEF Holders
<1>2. IsFiniteSet(Holders)
  BY <1>1, CallerAssumption, FS_Subset
<1> QED
  BY <1>2, FS_CardinalityType

\* What neither takes a slot nor gives one back.
SlotsKept == Holders' = Holders /\ counter' = counter /\ raced' = raced

LEMMA KeptSlots ==
  ASSUME TypeInv, NEW c \in Callers,
         \/ Call(c) \/ LookInCache(c) \/ DropExpired(c) \/ CheckCircuitBreaker(c)
         \/ ResetBreaker(c) \/ LoadCount(c) \/ Waited(c) \/ (\E ok \in BOOLEAN : Answer(c, ok))
         \/ LoadBreaker(c) \/ RecordCircuitBreakerFailure(c) \/ RecordCircuitBreakerSuccess(c)
         \/ StoreAnswer(c)
  PROVE  SlotsKept
<1> USE DEF SlotsKept, Holders, TypeInv, TypeOK, Locals, GoTo, Return, Forget, storeVars, callVars
<1>1. CASE Call(c)
  BY <1>1 DEF Call
<1>2. CASE LookInCache(c)
  BY <1>2 DEF LookInCache
<1>3. CASE DropExpired(c)
  BY <1>3 DEF DropExpired
<1>4. CASE CheckCircuitBreaker(c)
  BY <1>4 DEF CheckCircuitBreaker
<1>5. CASE ResetBreaker(c)
  BY <1>5 DEF ResetBreaker
<1>6. CASE LoadCount(c)
  BY <1>6 DEF LoadCount
<1>7. CASE Waited(c)
  BY <1>7 DEF Waited
<1>8. CASE \E ok \in BOOLEAN : Answer(c, ok)
  BY <1>8 DEF Answer, AfterFailure
<1>9. CASE LoadBreaker(c)
  BY <1>9 DEF LoadBreaker
<1>10. CASE RecordCircuitBreakerFailure(c)
  BY <1>10 DEF RecordCircuitBreakerFailure
<1>11. CASE RecordCircuitBreakerSuccess(c)
  BY <1>11 DEF RecordCircuitBreakerSuccess
<1>12. CASE StoreAnswer(c)
  BY <1>12 DEF StoreAnswer
<1> QED
  BY <1>1, <1>2, <1>3, <1>4, <1>5, <1>6, <1>7, <1>8, <1>9, <1>10, <1>11, <1>12

LEMMA KeptSlotInv ==
  ASSUME SlotsMatch, FullMeansInUse, SlotsKept
  PROVE  (SlotsMatch /\ FullMeansInUse)'
  BY DEF SlotsKept, SlotsMatch, FullMeansInUse

LEMMA TakenSlot ==
  ASSUME SlotInv, NEW c \in Callers, TakeSlot(c)
  PROVE  (SlotsMatch /\ FullMeansInUse)'
<1>1. c \notin Holders /\ c \in Holders' /\ Holders' = Holders \cup {c}
  BY DEF TakeSlot, GoTo, Holders, SlotInv, TypeInv, TypeOK, Locals, callVars
<1>2. Cardinality(Holders') = Cardinality(Holders) + 1
  BY <1>1, HoldersFinite, FS_AddElement
<1>3. ~raced' => ~raced /\ counter' = counter + 1
  BY DEF TakeSlot, StoreCount
<1> QED
  BY <1>1, <1>2, <1>3 DEF SlotInv, SlotsMatch, FullMeansInUse

LEMMA ReleasedSlot ==
  ASSUME SlotInv, NEW c \in Callers, ReleaseSlot(c)
  PROVE  (SlotsMatch /\ FullMeansInUse)'
<1>1. pc[c] = "release" /\ got[c] \in 1..ConcurrencyLimit /\ then[c] \in {"idle", "failure", "success"}
  BY LimitAssumption DEF ReleaseSlot, SlotInv, TypeInv, TypeOK, Locals
<1>2. counter' = got[c] - 1
  BY DEF ReleaseSlot, StoreCount
<1>3. FullMeansInUse'
  BY <1>1, <1>2, LimitAssumption DEF FullMeansInUse
<1>4. ASSUME ~raced' PROVE counter' = Cardinality(Holders')
  <2>1. ~raced /\ counter = got[c] /\ then[c] # "idle"
    BY <1>1, <1>4 DEF ReleaseSlot, StoreCount
  <2>2. c \in Holders /\ Holders' = Holders \ {c}
    BY <1>1, <2>1 DEF ReleaseSlot, GoTo, Forget, Holders, SlotInv, TypeInv, TypeOK
  <2>3. Cardinality(Holders') = Cardinality(Holders) - 1
    BY <2>2, HoldersFinite, FS_RemoveElement
  <2> QED
    BY <1>2, <2>1, <2>3 DEF SlotInv, SlotsMatch
<1> QED
  BY <1>3, <1>4 DEF SlotsMatch

\* requestDone finds a count of zero only after a race.
LEMMA DoneSlot ==
  ASSUME SlotInv, NEW c \in Callers, RequestDone(c)
  PROVE  (SlotsMatch /\ FullMeansInUse)'
<1>1. counter' = counter /\ raced' = raced /\ pc[c] = "done" /\ counter \in Nat
  BY LimitAssumption DEF RequestDone, storeVars, SlotInv, TypeInv, TypeOK
<1>2. CASE counter > 0 \/ then[c] = "idle"
  <2>1. Holders' = Holders
    BY <1>1, <1>2 DEF RequestDone, GoTo, Forget, Holders, SlotInv, TypeInv, TypeOK
  <2> QED
    BY <1>1, <2>1, KeptSlotInv DEF SlotsKept, SlotInv
<1>3. CASE counter = 0 /\ then[c] # "idle"
  <2>1. c \in Holders
    BY <1>1, <1>3 DEF Holders
  <2>2. raced
    BY <1>3, <2>1, HoldersFinite, FS_EmptySet DEF SlotInv, SlotsMatch
  <2> QED
    BY <1>1, <1>3, <2>2, LimitAssumption DEF SlotsMatch, FullMeansInUse
<1> QED
  BY <1>1, <1>2, <1>3

LEMMA InitSlots == Init => SlotInv
<1> SUFFICES ASSUME Init PROVE SlotInv
  OBVIOUS
<1>1. Holders = {} /\ counter = 0
  BY DEF Init, Holders
<1> QED
  BY <1>1, InitType, FS_EmptySet, LimitAssumption DEF SlotInv, SlotsMatch, FullMeansInUse

LEMMA NextSlots == SlotInv /\ [Next]_vars => SlotInv'
<1> SUFFICES ASSUME SlotInv, [Next]_vars PROVE SlotInv'
  OBVIOUS
<1>1. TypeInv'
  BY NextType DEF SlotInv
<1>2. ASSUME NEW c \in Callers, Call(c) \/ Step(c)
      PROVE  (SlotsMatch /\ FullMeansInUse)'
  <2>1. CASE TakeSlot(c)
    BY <2>1, TakenSlot
  <2>2. CASE ReleaseSlot(c)
    BY <2>2, ReleasedSlot
  <2>3. CASE RequestDone(c)
    BY <2>3, DoneSlot
  <2>4. CASE ~(TakeSlot(c) \/ ReleaseSlot(c) \/ RequestDone(c))
    BY <1>2, <2>4, KeptSlots, KeptSlotInv DEF Step, SlotInv
  <2> QED
    BY <2>1, <2>2, <2>3, <2>4
<1>3. CASE Expire \/ Cool \/ UNCHANGED vars
  <2>1. SlotsKept
    BY <1>3 DEF Expire, Cool, vars, storeVars, callVars, SlotsKept, Holders
  <2> QED
    BY <1>1, <2>1, KeptSlotInv DEF SlotInv
<1> QED
  BY <1>1, <1>2, <1>3 DEF Next, SlotInv

LEMMA SlotInvHolds == Spec => []SlotInv
  BY InitSlots, NextSlots, PTL DEF Spec

\* Without one of the two races the count is the number of callers that have a
\* slot (client.go:249 to 273, 389).
THEOREM SlotsCorrect == Spec => []SlotsMatch
<1>1. SlotInv => SlotsMatch
  BY DEF SlotInv
<1> QED
  BY <1>1, SlotInvHolds, PTL

\* Whatever the races, a key whose count is at the limit has a request under way
\* that will bring it below: the key is not blocked for good.
THEOREM FullCorrect == Spec => []FullMeansInUse
<1>1. SlotInv => FullMeansInUse
  BY DEF SlotInv
<1> QED
  BY <1>1, SlotInvHolds, PTL

-----------------------------------------------------------------------------
(* The breaker.  A failure that is not yet recorded still counts for the      *)
(* caller that will record it, so that storing a stale copy plus one stays    *)
(* within the failures there were.                                            *)

Pending == {c \in Callers : \/ pc[c] \in {"done", "release"} /\ then[c] = "failure"
                            \/ pc[c] \in {"failure", "storeFailure"}}

Earned(b, pending, failures) ==
    /\ b.open <=> b.failures >= FailureThreshold
    /\ b.failures + pending <= failures

AllEarned(pending, failures) ==
    /\ Earned(breaker, pending, failures)
    /\ \A c \in Callers : Earned(seen[c], pending, failures)

\* The same of the next state.
AllEarnedNext(pending, failures) ==
    /\ Earned(breaker', pending, failures)
    /\ \A c \in Callers : Earned(seen'[c], pending, failures)

BreakerInv == TypeInv /\ AllEarned(Cardinality(Pending), failed)

LEMMA PendingFinite == IsFiniteSet(Pending) /\ Cardinality(Pending) \in Nat
<1>1. Pending \subseteq Callers
  BY DEF Pending
<1>2. IsFiniteSet(Pending)
  BY <1>1, CallerAssumption, FS_Subset
<1> QED
  BY <1>2, FS_CardinalityType

LEMMA EarnedFewer ==
  ASSUME NEW b \in Breakers, NEW p \in Nat, NEW q \in Nat, NEW n \in Nat, NEW m \in Nat,
         q + n <= p + m, Earned(b, p, n)
  PROVE  Earned(b, q, m)
<1>1. b.failures \in Nat
  BY DEF Breakers
<1> QED
  BY <1>1 DEF Earned

LEMMA EarnedClosed ==
  ASSUME NEW b \in Breakers, NEW p \in Nat, NEW n \in Nat, Earned(b, p, n)
  PROVE  Earned(Closed, p, n) /\ Earned(Reset(b), p, n)
<1>1. b.failures \in Nat
  BY DEF Breakers
<1>2. Reset(b).failures = 0 /\ Reset(b).open = FALSE
  BY DEF Reset, Breakers
<1> QED
  BY <1>1, <1>2, LimitAssumption DEF Earned, Closed

LEMMA EarnedFailure ==
  ASSUME NEW b \in Breakers, NEW p \in Nat, NEW n \in Nat, Earned(b, p + 1, n)
  PROVE  Earned(WithFailure(b), p, n)
<1>1. b.failures \in Nat
  BY DEF Breakers
<1>2. /\ WithFailure(b).failures = b.failures + 1
      /\ WithFailure(b).open = (b.open \/ b.failures + 1 >= FailureThreshold)
  BY DEF WithFailure
<1>3. WithFailure(b).failures + p <= n
  BY <1>1, <1>2 DEF Earned
<1>4. b.failures >= FailureThreshold => b.failures + 1 >= FailureThreshold
  BY <1>1, LimitAssumption
<1>5. b.open <=> b.failures >= FailureThreshold
  BY DEF Earned
<1>6. WithFailure(b).open <=> WithFailure(b).failures >= FailureThreshold
  BY <1>2, <1>4, <1>5, Zenon
<1> QED
  BY <1>3, <1>6 DEF Earned

\* The failures on their way to the breaker and those there were stay the same.
PendingKept == Pending' = Pending /\ failed' = failed

LEMMA KeptPending ==
  ASSUME TypeInv, NEW c \in Callers,
         \/ Call(c) \/ LookInCache(c) \/ DropExpired(c) \/ CheckCircuitBreaker(c)
         \/ ResetBreaker(c) \/ LoadCount(c) \/ TakeSlot(c) \/ Waited(c) \/ RequestDone(c)
         \/ ReleaseSlot(c) \/ LoadBreaker(c) \/ RecordCircuitBreakerSuccess(c) \/ StoreAnswer(c)
  PROVE  PendingKept
<1> USE DEF PendingKept, Pending, TypeInv, TypeOK, Locals, GoTo, Return, Forget, callVars
<1>1. CASE Call(c)
  BY <1>1 DEF Call
<1>2. CASE LookInCache(c)
  BY <1>2 DEF LookInCache
<1>3. CASE DropExpired(c)
  BY <1>3 DEF DropExpired
<1>4. CASE CheckCircuitBreaker(c)
  BY <1>4 DEF CheckCircuitBreaker
<1>5. CASE ResetBreaker(c)
  BY <1>5 DEF ResetBreaker
<1>6. CASE LoadCount(c)
  BY <1>6 DEF LoadCount
<1>7. CASE TakeSlot(c)
  BY <1>7 DEF TakeSlot
<1>8. CASE Waited(c)
  BY <1>8 DEF Waited
<1>9. CASE RequestDone(c)
  BY <1>9 DEF RequestDone
<1>10. CASE ReleaseSlot(c)
  BY <1>10 DEF ReleaseSlot
<1>11. CASE LoadBreaker(c)
  BY <1>11 DEF LoadBreaker
<1>12. CASE RecordCircuitBreakerSuccess(c)
  BY <1>12 DEF RecordCircuitBreakerSuccess
<1>13. CASE StoreAnswer(c)
  BY <1>13 DEF StoreAnswer
<1> QED
  BY <1>1, <1>2, <1>3, <1>4, <1>5, <1>6, <1>7, <1>8, <1>9, <1>10, <1>11, <1>12, <1>13

\* What such a step may do to the breaker and the copies of it.
BreakerMoves(c) ==
    /\ breaker' \in {breaker, Reset(seen[c])}
    /\ \A d \in Callers : seen'[d] \in {seen[d], breaker, Closed}

LEMMA MovesBreaker ==
  ASSUME TypeInv, NEW c \in Callers,
         \/ Call(c) \/ LookInCache(c) \/ DropExpired(c) \/ CheckCircuitBreaker(c)
         \/ ResetBreaker(c) \/ LoadCount(c) \/ TakeSlot(c) \/ Waited(c) \/ RequestDone(c)
         \/ ReleaseSlot(c) \/ LoadBreaker(c) \/ RecordCircuitBreakerSuccess(c) \/ StoreAnswer(c)
         \/ (\E ok \in BOOLEAN : Answer(c, ok))
  PROVE  BreakerMoves(c)
<1> USE DEF BreakerMoves, TypeInv, TypeOK, Forget, breakerVars
<1>1. CASE CheckCircuitBreaker(c)
  BY <1>1 DEF CheckCircuitBreaker
<1>2. CASE ResetBreaker(c)
  BY <1>2 DEF ResetBreaker
<1>3. CASE LoadBreaker(c)
  BY <1>3 DEF LoadBreaker
<1>4. CASE RecordCircuitBreakerSuccess(c)
  BY <1>4 DEF RecordCircuitBreakerSuccess
<1>5. CASE \/ Call(c) \/ LookInCache(c) \/ DropExpired(c) \/ LoadCount(c) \/ TakeSlot(c)
           \/ Waited(c) \/ RequestDone(c) \/ ReleaseSlot(c) \/ StoreAnswer(c)
           \/ (\E ok \in BOOLEAN : Answer(c, ok))
  BY <1>5 DEF Call, LookInCache, DropExpired, LoadCount, TakeSlot, Waited, RequestDone,
              ReleaseSlot, StoreAnswer, Answer
<1> QED
  BY <1>1, <1>2, <1>3, <1>4, <1>5

LEMMA MovedBreaker ==
  ASSUME BreakerInv, NEW c \in Callers, BreakerMoves(c), NEW q \in Nat, NEW m \in Nat,
         q + failed <= Cardinality(Pending) + m
  PROVE  AllEarnedNext(q, m)
<1> DEFINE p == Cardinality(Pending)
<1>1. /\ breaker \in Breakers /\ failed \in Nat /\ p \in Nat
      /\ \A d \in Callers : seen[d] \in Breakers
  BY PendingFinite, LimitAssumption DEF BreakerInv, TypeInv, TypeOK
<1>2. Earned(breaker, p, failed) /\ \A d \in Callers : Earned(seen[d], p, failed)
  BY DEF BreakerInv, AllEarned
<1>3. q + failed <= p + m
  OBVIOUS
<1> HIDE DEF p
<1>4. Earned(breaker, q, m) /\ \A d \in Callers : Earned(seen[d], q, m)
  BY <1>1, <1>2, <1>3, EarnedFewer
<1>5. Earned(Closed, q, m) /\ Earned(Reset(seen[c]), q, m)
  BY <1>1, <1>4, EarnedClosed
<1>6. Earned(breaker', q, m) /\ \A d \in Callers : Earned(seen'[d], q, m)
  BY <1>4, <1>5 DEF BreakerMoves
<1> QED
  BY <1>6 DEF AllEarnedNext

\* In the step's own terms.
LEMMA EarnedNext ==
  ASSUME AllEarnedNext(Cardinality(Pending'), failed')
  PROVE  AllEarned(Cardinality(Pending), failed)'
  BY DEF AllEarnedNext, AllEarned, Earned

LEMMA AnsweredPending ==
  ASSUME BreakerInv, NEW c \in Callers, NEW ok \in BOOLEAN, Answer(c, ok)
  PROVE  AllEarned(Cardinality(Pending), failed)'
<1>1. BreakerMoves(c)
  BY MovesBreaker DEF BreakerInv
<1>2. pc[c] = "sent" /\ c \notin Pending /\ failed \in Nat
  BY LimitAssumption DEF Answer, Pending, BreakerInv, TypeInv, TypeOK
<1>3. CASE ok
  <2>1. Pending' = Pending /\ failed' = failed
    BY <1>2, <1>3 DEF Answer, GoTo, Pending, BreakerInv, TypeInv, TypeOK
  <2> QED
    <3>1. AllEarnedNext(Cardinality(Pending), failed)
      BY <1>1, <1>2, PendingFinite, MovedBreaker
    <3> QED
      BY <2>1, <3>1, EarnedNext
<1>4. CASE ~ok
  <2>1. Pending' = Pending \cup {c} /\ failed' = failed + 1
    BY <1>2, <1>4 DEF Answer, AfterFailure, GoTo, Pending, BreakerInv, TypeInv, TypeOK
  <2>2. Cardinality(Pending') = Cardinality(Pending) + 1
    BY <1>2, <2>1, PendingFinite, FS_AddElement
  <2> DEFINE q == Cardinality(Pending) + 1
             m == failed + 1
  <2>3. q \in Nat /\ m \in Nat /\ q + failed <= Cardinality(Pending) + m
    BY <1>2, PendingFinite
  <2> HIDE DEF q, m
  <2>4. AllEarnedNext(q, m)
    BY <1>1, <2>3, MovedBreaker
  <2> QED
    BY <2>1, <2>2, <2>4, EarnedNext DEF q, m
<1> QED
  BY <1>3, <1>4

LEMMA RecordedFailure ==
  ASSUME BreakerInv, NEW c \in Callers, RecordCircuitBreakerFailure(c)
  PROVE  AllEarned(Cardinality(Pending), failed)'
<1> DEFINE p == Cardinality(Pending)
           q == Cardinality(Pending')
<1>1. /\ failed' = failed /\ failed \in Nat /\ breaker' = WithFailure(seen[c])
      /\ \A d \in Callers : seen'[d] \in {seen[d], Closed} /\ seen[d] \in Breakers
      /\ seen[c] \in Breakers
  BY LimitAssumption DEF RecordCircuitBreakerFailure, Forget, callVars, BreakerInv, TypeInv, TypeOK
<1>2. c \in Pending /\ Pending' = Pending \ {c}
  BY DEF RecordCircuitBreakerFailure, Return, GoTo, Pending, callVars, BreakerInv, TypeInv, TypeOK,
         Locals
<1>3. p \in Nat /\ q \in Nat /\ p = q + 1
  <2>1. q = p - 1 /\ IsFiniteSet(Pending')
    BY <1>2, PendingFinite, FS_RemoveElement
  <2> QED
    BY <2>1, FS_CardinalityType, PendingFinite
<1>4. \A d \in Callers : Earned(seen[d], p, failed)
  BY DEF BreakerInv, AllEarned
<1> HIDE DEF p, q
<1>5. Earned(WithFailure(seen[c]), q, failed)
  BY <1>1, <1>3, <1>4, EarnedFailure
<1>6. \A d \in Callers : Earned(seen[d], q, failed)
  BY <1>1, <1>3, <1>4, EarnedFewer
<1>7. Earned(Closed, q, failed)
  BY <1>1, <1>3, <1>6, EarnedClosed
<1>8. Earned(breaker', q, failed') /\ \A d \in Callers : Earned(seen'[d], q, failed')
  BY <1>1, <1>5, <1>6, <1>7
<1> QED
  BY <1>8, EarnedNext DEF AllEarnedNext, q

LEMMA InitBreaker == Init => BreakerInv
<1> SUFFICES ASSUME Init PROVE BreakerInv
  OBVIOUS
<1>1. Pending = {} /\ failed = 0 /\ breaker = Closed /\ \A c \in Callers : seen[c] = Closed
  BY DEF Init, Pending
<1>2. Earned(Closed, 0, 0)
  BY LimitAssumption DEF Earned, Closed
<1> QED
  BY <1>1, <1>2, InitType, FS_EmptySet DEF BreakerInv, AllEarned

LEMMA NextBreaker == BreakerInv /\ [Next]_vars => BreakerInv'
<1> SUFFICES ASSUME BreakerInv, [Next]_vars PROVE BreakerInv'
  OBVIOUS
<1>1. TypeInv'
  BY NextType DEF BreakerInv
<1>2. failed \in Nat /\ Cardinality(Pending) \in Nat
  BY PendingFinite, LimitAssumption DEF BreakerInv, TypeInv, TypeOK
<1>3. ASSUME NEW c \in Callers, Call(c) \/ Step(c)
      PROVE  AllEarned(Cardinality(Pending), failed)'
  <2>1. CASE RecordCircuitBreakerFailure(c)
    BY <2>1, RecordedFailure
  <2>2. CASE \E ok \in BOOLEAN : Answer(c, ok)
    BY <2>2, AnsweredPending
  <2>3. CASE ~(RecordCircuitBreakerFailure(c) \/ \E ok \in BOOLEAN : Answer(c, ok))
    <3>1. PendingKept /\ BreakerMoves(c)
      BY <1>3, <2>3, KeptPending, MovesBreaker DEF Step, BreakerInv
    <3>2. AllEarnedNext(Cardinality(Pending), failed)
      BY <1>2, <3>1, MovedBreaker
    <3> QED
      BY <3>1, <3>2, EarnedNext DEF PendingKept
  <2> QED
    BY <2>1, <2>2, <2>3
<1>4. ASSUME Expire \/ Cool \/ UNCHANGED vars
      PROVE  AllEarned(Cardinality(Pending), failed)'
  <2>1. breaker' = breaker /\ seen' = seen /\ Pending' = Pending /\ failed' = failed
    BY <1>4 DEF Expire, Cool, vars, breakerVars, callVars, Pending
  <2> QED
    BY <2>1 DEF BreakerInv, AllEarned, Earned
<1> QED
  BY <1>1, <1>3, <1>4 DEF Next, BreakerInv

LEMMA BreakerInvHolds == Spec => []BreakerInv
  BY InitBreaker, NextBreaker, PTL DEF Spec

\* The breaker is open exactly when it has counted enough failures, and counts
\* none that did not happen, however stores overtake each other (client.go:193
\* to 246).
THEOREM BreakerCorrect == Spec => []BreakerEarned
<1>1. BreakerInv => BreakerEarned
  <2> SUFFICES ASSUME BreakerInv, NEW b \in {breaker} \cup {seen[c] : c \in Callers}
               PROVE  (b.open <=> b.failures >= FailureThreshold) /\ b.failures <= failed
    BY DEF BreakerEarned
  <2>1. b \in Breakers /\ Earned(b, Cardinality(Pending), failed)
    BY DEF BreakerInv, AllEarned, TypeInv, TypeOK
  <2>2. failed \in Nat /\ Cardinality(Pending) \in Nat /\ b.failures \in Nat
    BY <2>1, PendingFinite, LimitAssumption DEF BreakerInv, TypeInv, TypeOK, Breakers
  <2> QED
    BY <2>1, <2>2 DEF Earned
<1> QED
  BY <1>1, BreakerInvHolds, PTL
=============================================================================
