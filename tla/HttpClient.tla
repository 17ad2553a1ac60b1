----------------------------- MODULE HttpClient -----------------------------
(***************************************************************************)
(* GET requests to CB-Spider and the like (ExecuteHttpRequest of           *)
(* core/common/client/client.go), for one request key: the answers kept    *)
(* for a while in clientCache, the limit of requests under way in          *)
(* clientRequestCounter, and the breaker in clientCircuitBreakers that     *)
(* refuses requests after repeated failures.                               *)
(*                                                                         *)
(* The three are sync.Maps: a Load or a Store is atomic, the update made   *)
(* of the two is not, so each of them is a step here, with what was loaded *)
(* kept in got and seen in between.  Other methods than GET use neither.   *)
(***************************************************************************)
EXTENDS Naturals, FiniteSets

CONSTANTS
    Callers,          \* goroutines that call ExecuteHttpRequest
    ConcurrencyLimit, \* concurrencyLimit
    RetryLimit,       \* retryLimit
    FailureThreshold, \* circuitBreakerFailureThreshold
    MaxFailures       \* bound on requests that fail

ASSUME LimitAssumption ==
    /\ ConcurrencyLimit \in Nat \ {0} /\ RetryLimit \in Nat
    /\ FailureThreshold \in Nat \ {0} /\ MaxFailures \in Nat
ASSUME CallerAssumption == IsFiniteSet(Callers)

VARIABLES
    cache,   \* clientCache: no answer, one that is fresh, one that has expired
    counter, \* clientRequestCounter
    breaker, \* clientCircuitBreakers
    recent,  \* its LastFailure is not yet circuitBreakerOpenDuration ago
    pc,      \* where each caller is
    then,    \* where it goes on after requestDone
    got,     \* the count it loaded
    seen,    \* the breaker it loaded
    retries, \* retryCount
    failed,  \* history: requests that failed
    raced    \* history: a count was stored over a newer one, or a slot was
             \* released that its caller did not have

storeVars == <<counter, raced>>
breakerVars == <<breaker, recent>>
callVars == <<then, retries, failed>>
vars == <<cache, storeVars, breakerVars, pc, got, seen, callVars>>

Breakers == [failures : Nat, open : BOOLEAN]
Closed == [failures |-> 0, open |-> FALSE]
Labels == {"idle", "look", "drop", "check", "reset", "limit", "take", "wait", "sent",
           "done", "release", "failure", "storeFailure", "success", "storeSuccess",
           "storeAnswer"}

Init ==
    /\ cache = "none" /\ counter = 0
    /\ breaker = Closed /\ recent = FALSE
    /\ pc = [c \in Callers |-> "idle"] /\ then = [c \in Callers |-> "idle"]
    /\ got = [c \in Callers |-> 0] /\ seen = [c \in Callers |-> Closed]
    /\ retries = [c \in Callers |-> 0]
    /\ failed = 0 /\ raced = FALSE

GoTo(c, label) == pc' = [pc EXCEPT ![c] = label]
Return(c) == GoTo(c, "idle")

\* A local of c is set back to its first value when c has no use for it any more.
Forget(f, c, zero) == [f EXCEPT ![c] = zero]

-----------------------------------------------------------------------------
(* The cache and the breaker, before anything is sent.                       *)

Call(c) ==
    /\ pc[c] = "idle"
    /\ GoTo(c, "look")
    /\ UNCHANGED <<cache, storeVars, breakerVars, got, seen, callVars>>

LookInCache(c) ==
    /\ pc[c] = "look"
    /\ GoTo(c, CASE cache = "fresh" -> "idle" [] cache = "expired" -> "drop" [] OTHER -> "check")
    /\ UNCHANGED <<cache, storeVars, breakerVars, got, seen, callVars>>

\* Deletes whatever answer there is by now.
DropExpired(c) ==
    /\ pc[c] = "drop"
    /\ cache' = "none"
    /\ GoTo(c, "check")
    /\ UNCHANGED <<storeVars, breakerVars, got, seen, callVars>>

CheckCircuitBreaker(c) ==
    /\ pc[c] = "check"
    /\ IF breaker.open /\ ~recent
         THEN GoTo(c, "reset") /\ seen' = [seen EXCEPT ![c] = breaker]
         ELSE GoTo(c, IF breaker.open THEN "idle" ELSE "limit") /\ UNCHANGED seen
    /\ UNCHANGED <<cache, storeVars, breakerVars, got, callVars>>

ResetOpenOnly(b) == [b EXCEPT !.open = FALSE]
Reset(b) == [b EXCEPT !.failures = 0, !.open = FALSE]

ResetBreaker(c) ==
    /\ pc[c] = "reset"
    /\ breaker' = Reset(seen[c])
    /\ seen' = Forget(seen, c, Closed)
    /\ GoTo(c, "limit")
    /\ UNCHANGED <<cache, storeVars, recent, got, callVars>>

-----------------------------------------------------------------------------
(* The slots: limitConcurrentRequests, requestDone and the waiting.          *)

HasRoom(n) == n < ConcurrencyLimit

LoadCount(c) ==
    /\ pc[c] = "limit"
    /\ IF HasRoom(counter)
         THEN GoTo(c, "take") /\ got' = [got EXCEPT ![c] = counter]
         ELSE GoTo(c, IF retries[c] >= RetryLimit THEN "idle" ELSE "wait") /\ UNCHANGED got
    /\ retries' = IF pc'[c] = "wait" THEN retries ELSE Forget(retries, c, 0)
    /\ UNCHANGED <<cache, storeVars, breakerVars, seen, then, failed>>

StoreCount(c, n) ==
    /\ counter' = n
    /\ raced' = (raced \/ counter # got[c] \/ (pc[c] = "release" /\ then[c] = "idle"))
    /\ got' = Forget(got, c, 0)

TakeSlot(c) ==
    /\ pc[c] = "take"
    /\ StoreCount(c, got[c] + 1)
    /\ GoTo(c, "sent")
    /\ UNCHANGED <<cache, breakerVars, seen, callVars>>

RetriedForEver(n) == n
Retried(n) == n + 1

\* After the sleep: an answer, expired or not, or another try.
Waited(c) ==
    /\ pc[c] = "wait"
    /\ IF cache # "none"
         THEN /\ GoTo(c, "done")
              /\ retries' = Forget(retries, c, 0)
         ELSE /\ GoTo(c, "limit")
              /\ retries' = [retries EXCEPT ![c] = Retried(@)]
    /\ UNCHANGED <<cache, storeVars, breakerVars, got, seen, then, failed>>

NoReleaseOnFailure == "failure"
AfterFailure == "done"

\* The request comes back, as an error or with the answer.
Answer(c, ok) ==
    /\ pc[c] = "sent"
    /\ ok \/ failed < MaxFailures
    /\ GoTo(c, IF ok THEN "done" ELSE AfterFailure)
    /\ then' = [then EXCEPT ![c] = IF ok THEN "success" ELSE "failure"]
    /\ failed' = IF ok THEN failed ELSE failed + 1
    /\ UNCHANGED <<cache, storeVars, breakerVars, got, seen, retries>>

RequestDone(c) ==
    /\ pc[c] = "done"
    /\ IF counter > 0
         THEN GoTo(c, "release") /\ got' = [got EXCEPT ![c] = counter]
         ELSE GoTo(c, then[c]) /\ UNCHANGED got
    /\ then' = IF counter > 0 THEN then ELSE Forget(then, c, "idle")
    /\ UNCHANGED <<cache, storeVars, breakerVars, seen, retries, failed>>

ReleaseSlot(c) ==
    /\ pc[c] = "release"
    /\ StoreCount(c, got[c] - 1)
    /\ GoTo(c, then[c])
    /\ then' = Forget(then, c, "idle")
    /\ UNCHANGED <<cache, breakerVars, seen, retries, failed>>

-----------------------------------------------------------------------------
(* What becomes of the breaker and the cache.                                *)

LoadBreaker(c) ==
    /\ pc[c] \in {"failure", "success"}
    /\ IF pc[c] = "failure" \/ breaker.failures > 0
         THEN /\ GoTo(c, IF pc[c] = "failure" THEN "storeFailure" ELSE "storeSuccess")
              /\ seen' = [seen EXCEPT ![c] = breaker]
         ELSE GoTo(c, "storeAnswer") /\ UNCHANGED seen
    /\ UNCHANGED <<cache, storeVars, breakerVars, got, callVars>>

WithFailure(b) ==
    LET n == b.failures + 1
    IN [failures |-> n, open |-> b.open \/ n >= FailureThreshold]

RecordCircuitBreakerFailure(c) ==
    /\ pc[c] = "storeFailure"
    /\ breaker' = WithFailure(seen[c])
    /\ seen' = Forget(seen, c, Closed)
    /\ recent' = TRUE
    /\ Return(c)
    /\ UNCHANGED <<cache, storeVars, got, callVars>>

RecordCircuitBreakerSuccess(c) ==
    /\ pc[c] = "storeSuccess"
    /\ breaker' = Reset(seen[c])
    /\ seen' = Forget(seen, c, Closed)
    /\ GoTo(c, "storeAnswer")
    /\ UNCHANGED <<cache, storeVars, recent, got, callVars>>

StoreAnswer(c) ==
    /\ pc[c] = "storeAnswer"
    /\ cache' = "fresh"
    /\ Return(c)
    /\ UNCHANGED <<storeVars, breakerVars, got, seen, callVars>>

-----------------------------------------------------------------------------
(* Time.                                                                     *)

Expire ==
    /\ cache = "fresh" /\ cache' = "expired"
    /\ UNCHANGED <<storeVars, breakerVars, pc, got, seen, callVars>>

Cool ==
    /\ recent /\ recent' = FALSE
    /\ UNCHANGED <<cache, storeVars, breaker, pc, got, seen, callVars>>

Step(c) ==
    \/ LookInCache(c)
    \/ DropExpired(c)
    \/ CheckCircuitBreaker(c)
    \/ ResetBreaker(c)
    \/ LoadCount(c)
    \/ TakeSlot(c)
    \/ Waited(c)
    \/ \E ok \in BOOLEAN : Answer(c, ok)
    \/ RequestDone(c)
    \/ ReleaseSlot(c)
    \/ LoadBreaker(c)
    \/ RecordCircuitBreakerFailure(c)
    \/ RecordCircuitBreakerSuccess(c)
    \/ StoreAnswer(c)

Next ==
    \/ \E c \in Callers : Call(c) \/ Step(c)
    \/ Expire
    \/ Cool

Spec == Init /\ [][Next]_vars

\* Goroutines run on, a sleep ends, and a request comes back, if only because
\* the client's timeout is over.
FairSpec == Spec /\ \A c \in Callers : WF_vars(Step(c))

-----------------------------------------------------------------------------
(* Properties.                                                               *)

\* The types; the count never exceeds the limit and never falls below zero.
TypeOK ==
    /\ cache \in {"none", "fresh", "expired"}
    /\ counter \in 0..ConcurrencyLimit
    /\ breaker \in Breakers /\ recent \in BOOLEAN
    /\ pc \in [Callers -> Labels]
    /\ then \in [Callers -> {"idle", "failure", "success"}]
    /\ got \in [Callers -> 0..ConcurrencyLimit]
    /\ seen \in [Callers -> Breakers]
    /\ retries \in [Callers -> 0..RetryLimit]
    /\ failed \in 0..MaxFailures /\ raced \in BOOLEAN

\* The callers between taking a slot and giving it back.
Holders == {c \in Callers : \/ pc[c] = "sent"
                            \/ pc[c] \in {"done", "release"} /\ then[c] # "idle"}

\* The count is that of the callers that have a slot, so that no more of them
\* than the limit are under way and none is left counted for good (client.go:249
\* to 273), unless one of the two races in it has happened: a count stored over
\* one that another caller stored meanwhile, or a slot released by a caller that
\* found an answer while it waited for one (client.go:389).
SlotsMatch == ~raced => counter = Cardinality(Holders)

\* A key is never blocked for good: whatever the races do to the count, it is at
\* the limit only while some request has a slot, whose release brings it below
\* (client.go:249 to 273).
FullMeansInUse == counter = ConcurrencyLimit => Holders # {}

\* However its loads and stores interleave, the breaker is open exactly when it
\* has counted the failures for that, and it has never counted more failures
\* than there were (client.go:193 to 246): a stale copy that a caller stores may
\* open it again but can not make it refuse for nothing.
BreakerEarned == \A b \in {breaker} \cup {seen[c] : c \in Callers} :
    /\ b.open <=> b.failures >= FailureThreshold
    /\ b.failures <= failed

\* Every call returns: a caller that finds the limit reached gives up after its
\* retries, even when the slots it waits for never come back (client.go:372).
CallReturns == \A c \in Callers : pc[c] # "idle" ~> pc[c] = "idle"
=============================================================================
