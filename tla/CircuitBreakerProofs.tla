------------------------ MODULE CircuitBreakerProofs ------------------------
(***************************************************************************)
(* Proofs about CircuitBreaker for any number of threads, any threshold,   *)
(* and any deadline shorter than the cooldown.                             *)
(***************************************************************************)
EXTENDS CircuitBreaker, FiniteSetTheorems, TLAPS

(* A call let through while the breaker was closed is at least as old as   *)
(* the trip, so the deadline ends it before the cooldown is over.          *)
ClosedCallsOld ==
    \A t \in Threads : Tripped /\ call[t] = "closed" => sinceOpen <= age[t]

(* While a probe is in flight the breaker stays half-open for it alone. *)
ProbeOwnsBreaker ==
    \A t \in Threads : call[t] = "probe" => probing /\ Tripped /\ ~Cooling

OneProbe ==
    \A t, u \in Threads : call[t] = "probe" /\ call[u] = "probe" => t = u

IInv == TypeOK /\ ClosedCallsOld /\ ProbeOwnsBreaker /\ OneProbe /\ ProbeFlagTruthful

-----------------------------------------------------------------------------
(* The breaker starts closed. *)
LEMMA BreakerInit == Init => TypeOK
<1> USE BreakerAssumption
<1> SUFFICES ASSUME Init PROVE TypeOK
  OBVIOUS
<1>1. failures \in 0..(Threshold + 1) /\ sinceOpen \in 0..Cooldown
  BY DEF Init
<1>2. /\ call \in [Threads -> Calls] /\ age \in [Threads -> 0..Deadline]
      /\ fare \in [Threads -> {"none", "quoted", "fallback", "raised"}]
  BY DEF Init, Calls
<1>3. probing \in BOOLEAN /\ up \in BOOLEAN
  BY DEF Init
<1>4. outages \in 0..Outages /\ oddErrors \in 0..OddErrors
  BY DEF Init
<1> QED
  BY <1>1, <1>2, <1>3, <1>4 DEF TypeOK

(* The breaker's counts and every thread's call are well typed. *)
THEOREM BreakerTypeCorrect == Spec => []TypeOK
<1> USE BreakerAssumption
<1>1. Init => TypeOK
  BY BreakerInit
<1>2. TypeOK /\ [Next]_vars => TypeOK'
  <2> SUFFICES ASSUME TypeOK, [Next]_vars PROVE TypeOK'
    OBVIOUS
  <2> USE DEF TypeOK, Calls
  <2>1. ASSUME NEW t \in Threads, StartRpc(t) PROVE TypeOK'
    BY <2>1 DEF StartRpc, AllowClosed, AllowProbe, breaker, world
  <2>2. ASSUME NEW t \in Threads, FallBackAtOnce(t) PROVE TypeOK'
    BY <2>2 DEF FallBackAtOnce, Refuse, Returns, breaker, world
  <2>3. ASSUME NEW t \in Threads, RpcAnswers(t) PROVE TypeOK'
    <3>1. failures' \in 0..(Threshold + 1) /\ sinceOpen' \in 0..Cooldown
      BY <2>3 DEF RpcAnswers, OnSuccess
    <3>2. probing' \in BOOLEAN
      BY <2>3 DEF RpcAnswers, OnSuccess
    <3>3. /\ call' \in [Threads -> Calls] /\ age' \in [Threads -> 0..Deadline]
          /\ fare' \in [Threads -> {"none", "quoted", "fallback", "raised"}]
      BY <2>3 DEF RpcAnswers, Returns
    <3> QED
      BY <2>3, <3>1, <3>2, <3>3 DEF RpcAnswers, world
  <2>4. ASSUME NEW t \in Threads, RpcFails(t) PROVE TypeOK'
    <3>1. failures' \in 0..(Threshold + 1) /\ sinceOpen' \in 0..Cooldown
      BY <2>4 DEF RpcFails, OnFailure
    <3>2. probing' \in BOOLEAN
      BY <2>4 DEF RpcFails, OnFailure
    <3>3. /\ call' \in [Threads -> Calls] /\ age' \in [Threads -> 0..Deadline]
          /\ fare' \in [Threads -> {"none", "quoted", "fallback", "raised"}]
      BY <2>4 DEF RpcFails, Returns
    <3> QED
      BY <2>4, <3>1, <3>2, <3>3 DEF RpcFails, world
  <2>5. ASSUME NEW t \in Threads, RaisesOther(t) PROVE TypeOK'
    BY <2>5 DEF RaisesOther, Returns, breaker
  <2>6. CASE Tick
    BY <2>6 DEF Tick, world
  <2>7. CASE PricingDown
    <3>1. outages' \in 0..Outages
      BY <2>7 DEF PricingDown
    <3>2. up' \in BOOLEAN
      BY <2>7 DEF PricingDown
    <3> QED
      BY <2>7, <3>1, <3>2 DEF PricingDown, breaker, clients
  <2>8. CASE PricingUp
    BY <2>8 DEF PricingUp, breaker, clients
  <2>9. CASE UNCHANGED vars
    BY <2>9 DEF vars, breaker, clients, world
  <2> QED
    BY <2>1, <2>2, <2>3, <2>4, <2>5, <2>6, <2>7, <2>8, <2>9
       DEF Next, Ask, Finish
<1> QED
  BY <1>1, <1>2, PTL DEF Spec

-----------------------------------------------------------------------------
(* Once the breaker is half-open no call of the closed days is left. *)
LEMMA NoClosedCallLeft ==
    ASSUME TypeOK, ClosedCallsOld, Tripped, ~Cooling,
           NEW t \in Threads
    PROVE  call[t] # "closed"
BY BreakerAssumption DEF TypeOK, ClosedCallsOld, Cooling

LEMMA BreakerInductive == Spec => []IInv
<1> USE BreakerAssumption
<1>1. Init => IInv
  <2> SUFFICES ASSUME Init PROVE IInv
    OBVIOUS
  <2>1. TypeOK
    BY BreakerInit
  <2>2. \A t \in Threads : call[t] = "none"
    BY DEF Init
  <2>3. probing = FALSE
    BY DEF Init
  <2> QED
    BY <2>1, <2>2, <2>3
       DEF IInv, ClosedCallsOld, ProbeOwnsBreaker, OneProbe, ProbeFlagTruthful
<1>2. IInv /\ TypeOK' /\ [Next]_vars => IInv'
  <2> SUFFICES ASSUME IInv, TypeOK', [Next]_vars PROVE IInv'
    OBVIOUS
  <2> USE DEF IInv, ClosedCallsOld, ProbeOwnsBreaker, OneProbe,
              ProbeFlagTruthful, Tripped, Cooling
  <2>1. ASSUME NEW t \in Threads, StartRpc(t) PROVE IInv'
    <3>1. CASE AllowClosed /\ call' = [call EXCEPT ![t] = "closed"]
      BY <2>1, <3>1 DEF StartRpc, AllowClosed, TypeOK, breaker, world
    <3>2. CASE AllowProbe /\ call' = [call EXCEPT ![t] = "probe"]
      BY <2>1, <3>2 DEF StartRpc, AllowProbe, TypeOK, world
    <3> QED
      BY <2>1, <3>1, <3>2 DEF StartRpc
  <2>2. ASSUME NEW t \in Threads, FallBackAtOnce(t) PROVE IInv'
    BY <2>2 DEF FallBackAtOnce, Refuse, Returns, TypeOK, breaker, world
  <2>3. ASSUME NEW t \in Threads, RpcAnswers(t) PROVE IInv'
    BY <2>3, NoClosedCallLeft
       DEF RpcAnswers, OnSuccess, Returns, TypeOK, Calls, world
  <2>4. ASSUME NEW t \in Threads, RpcFails(t) PROVE IInv'
    BY <2>4, NoClosedCallLeft
       DEF RpcFails, OnFailure, Returns, TypeOK, Calls, world
  <2>5. ASSUME NEW t \in Threads, RaisesOther(t) PROVE IInv'
    BY <2>5 DEF RaisesOther, Returns, TypeOK, breaker
  <2>6. CASE Tick
    BY <2>6 DEF Tick, TypeOK, world
  <2>7. CASE PricingDown
    BY <2>7 DEF PricingDown, breaker, clients
  <2>8. CASE PricingUp
    BY <2>8 DEF PricingUp, breaker, clients
  <2>9. CASE UNCHANGED vars
    BY <2>9 DEF vars, breaker, clients, world
  <2> QED
    BY <2>1, <2>2, <2>3, <2>4, <2>5, <2>6, <2>7, <2>8, <2>9
       DEF Next, Ask, Finish
<1> QED
  BY <1>1, <1>2, BreakerTypeCorrect, PTL DEF Spec

-----------------------------------------------------------------------------
(* ONE request discovers that pricing is back (CircuitBreaker.allow), for  *)
(* any number of threads, odd exceptions included.                         *)
THEOREM OneCallWhenHalfOpen == Spec => []HalfOpenOneCall
<1>1. IInv => HalfOpenOneCall
  <2> SUFFICES ASSUME IInv, Tripped, ~Cooling
               PROVE  Cardinality(InFlight) <= 1
    BY DEF HalfOpenOneCall
  <2>1. \A t \in InFlight : t \in Threads /\ call[t] = "probe"
    BY NoClosedCallLeft DEF IInv, InFlight, TypeOK, Calls
  <2>2. \A t, u \in InFlight : t = u
    BY <2>1 DEF IInv, OneProbe
  <2>3. CASE InFlight = {}
    BY <2>3, FS_EmptySet
  <2>4. CASE InFlight # {}
    <3>1. PICK t \in InFlight : InFlight = {t}
      BY <2>2, <2>4
    <3> QED
      BY <3>1, FS_Singleton
  <2> QED
    BY <2>3, <2>4
<1> QED
  BY <1>1, BreakerInductive, PTL

(* The flag follows the probe as long as every failure is an RpcError. *)
THEOREM FlagFollowsProbe == Spec => []ProbeFlagTruthful
<1>1. IInv => ProbeFlagTruthful
  BY DEF IInv
<1> QED
  BY <1>1, BreakerInductive, PTL
=============================================================================
