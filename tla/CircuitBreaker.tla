--------------------------- MODULE CircuitBreaker ---------------------------
(***************************************************************************)
(* PricingClient.quote and its CircuitBreaker (dispatch/pricing_client.py).*)
(* Several threads ask one client for fares while pricing goes down and    *)
(* comes back.  Each method of the breaker runs under its lock and is one  *)
(* step; the RPC between allow and on_success or on_failure is not.        *)
(*                                                                         *)
(* Time is counted in ticks.  The breaker compares its failure count with  *)
(* the threshold and the time since opened_at with the cooldown, never     *)
(* more, so both counts stop one past the last value they tell apart.      *)
(*                                                                         *)
(* Operators named Faulty... are no part of the specification.  Each is a  *)
(* definition with a plausible defect, kept beside the right one to show   *)
(* that a property notices it.                                             *)
(***************************************************************************)
EXTENDS Integers, FiniteSets

CONSTANTS
    Threads,    \* threads that share one PricingClient
    Threshold,  \* BREAKER_THRESHOLD
    Cooldown,   \* BREAKER_COOLDOWN_S, in ticks
    Deadline,   \* QUOTE_DEADLINE_S, in ticks
    Outages,    \* bound: how often pricing goes down
    OddErrors   \* bound: how many exceptions other than RpcError

ASSUME BreakerAssumption ==
    /\ Threshold \in Nat \ {0}
    /\ Deadline \in Nat /\ Cooldown \in Nat
    /\ Deadline < Cooldown      \* 0.25 s and 10 s
    /\ Outages \in Nat /\ OddErrors \in Nat

VARIABLES
    failures,   \* _failures
    sinceOpen,  \* monotonic() - _opened_at
    probing,    \* _probing
    call,       \* call[t]: the RPC thread t waits for, and why it was let through
    age,        \* how long it has waited
    fare,       \* what t's last quote returned
    up,         \* whether pricing answers
    outages, oddErrors

breaker == <<failures, sinceOpen, probing>>
clients == <<call, age, fare>>
world   == <<up, outages, oddErrors>>
vars    == <<breaker, clients, world>>

Calls == {"none", "closed", "probe"}

TypeOK ==
    /\ failures \in 0..(Threshold + 1)
    /\ sinceOpen \in 0..Cooldown
    /\ probing \in BOOLEAN
    /\ call \in [Threads -> Calls]
    /\ age \in [Threads -> 0..Deadline]
    /\ fare \in [Threads -> {"none", "quoted", "fallback", "raised"}]
    /\ up \in BOOLEAN
    /\ outages \in 0..Outages /\ oddErrors \in 0..OddErrors

Init ==
    /\ failures = 0 /\ sinceOpen = Cooldown /\ probing = FALSE
    /\ call = [t \in Threads |-> "none"]
    /\ age = [t \in Threads |-> 0]
    /\ fare = [t \in Threads |-> "none"]
    /\ up = TRUE /\ outages = 0 /\ oddErrors = 0

-----------------------------------------------------------------------------
(* The breaker                                                             *)

Tripped == failures >= Threshold
Cooling == Tripped /\ sinceOpen < Cooldown

(* The three answers of allow. *)
AllowClosed == ~Tripped /\ UNCHANGED breaker

(* Faulty: a probe does not keep others out. *)
FaultyAllowProbe ==
    /\ Tripped /\ ~Cooling
    /\ probing' = TRUE
    /\ UNCHANGED <<failures, sinceOpen>>

AllowProbe ==
    /\ Tripped /\ ~Cooling /\ ~probing
    /\ probing' = TRUE
    /\ UNCHANGED <<failures, sinceOpen>>

Refuse == Tripped /\ (Cooling \/ probing) /\ UNCHANGED breaker

(* Faulty: the count survives a success. *)
FaultyOnSuccess ==
    /\ probing' = FALSE
    /\ UNCHANGED <<failures, sinceOpen>>

OnSuccess ==
    /\ failures' = 0
    /\ probing' = FALSE
    /\ UNCHANGED sinceOpen

(* Faulty: a failed probe stays the probe. *)
FaultyOnFailureProbing ==
    /\ failures' = IF failures > Threshold THEN failures ELSE failures + 1
    /\ sinceOpen' = IF failures + 1 = Threshold THEN 0 ELSE sinceOpen
    /\ UNCHANGED probing

(* opened_at is set when the count reaches the threshold, and only then. *)
OnFailure ==
    /\ failures' = IF failures > Threshold THEN failures ELSE failures + 1
    /\ sinceOpen' = IF failures + 1 = Threshold THEN 0 ELSE sinceOpen
    /\ probing' = FALSE

-----------------------------------------------------------------------------
(* PricingClient.quote                                                     *)

Returns(t, what) ==
    /\ call' = [call EXCEPT ![t] = "none"]
    /\ age' = [age EXCEPT ![t] = 0]
    /\ fare' = [fare EXCEPT ![t] = what]

StartRpc(t) ==
    /\ call[t] = "none"
    /\ \/ AllowClosed /\ call' = [call EXCEPT ![t] = "closed"]
       \/ AllowProbe /\ call' = [call EXCEPT ![t] = "probe"]
    /\ UNCHANGED <<age, fare, world>>

(* The circuit is open, or somebody else is the probe: no network call. *)
FallBackAtOnce(t) ==
    /\ call[t] = "none"
    /\ Refuse
    /\ Returns(t, "fallback")
    /\ UNCHANGED world

RpcAnswers(t) ==
    /\ call[t] # "none" /\ up
    /\ OnSuccess
    /\ Returns(t, "quoted")
    /\ UNCHANGED world

(* RpcError: refused, or DEADLINE_EXCEEDED. *)
RpcFails(t) ==
    /\ call[t] # "none" /\ ~up
    /\ OnFailure
    /\ Returns(t, "fallback")
    /\ UNCHANGED world

(* Any other exception leaves quote without telling the breaker. *)
RaisesOther(t) ==
    /\ call[t] # "none" /\ oddErrors < OddErrors
    /\ oddErrors' = oddErrors + 1
    /\ Returns(t, "raised")
    /\ UNCHANGED <<breaker, up, outages>>

(* Faulty: an RPC without a deadline. *)
FaultyTick ==
    /\ age' = [t \in Threads |-> IF call[t] = "none" THEN 0 ELSE age[t] + 1]
    /\ sinceOpen' = IF sinceOpen < Cooldown THEN sinceOpen + 1 ELSE sinceOpen
    /\ UNCHANGED <<failures, probing, call, fare, world>>

(* No RPC outlives its deadline. *)
Tick ==
    /\ \A t \in Threads : call[t] # "none" => age[t] < Deadline
    /\ age' = [t \in Threads |-> IF call[t] = "none" THEN 0 ELSE age[t] + 1]
    /\ sinceOpen' = IF sinceOpen < Cooldown THEN sinceOpen + 1 ELSE sinceOpen
    /\ UNCHANGED <<failures, probing, call, fare, world>>

PricingDown ==
    /\ up /\ outages < Outages
    /\ up' = FALSE /\ outages' = outages + 1
    /\ UNCHANGED <<breaker, clients, oddErrors>>

PricingUp ==
    /\ ~up /\ up' = TRUE
    /\ UNCHANGED <<breaker, clients, outages, oddErrors>>

Finish(t) == RpcAnswers(t) \/ RpcFails(t)
Ask       == \E t \in Threads : StartRpc(t) \/ FallBackAtOnce(t)

Next ==
    \/ Ask
    \/ \E t \in Threads : Finish(t) \/ RaisesOther(t)
    \/ Tick \/ PricingDown \/ PricingUp

Spec == Init /\ [][Next]_vars

(* An RPC ends, time passes, and some matcher goes on asking for fares.    *)
(* Nothing makes pricing recover.                                          *)
Fairness ==
    /\ \A t \in Threads : WF_vars(Finish(t))
    /\ WF_vars(\E t \in Threads : StartRpc(t))
    /\ WF_vars(Tick)

FairSpec == Spec /\ Fairness

-----------------------------------------------------------------------------
(* Properties                                                              *)

InFlight == {t \in Threads : call[t] # "none"}

(* Once the cooldown is over, at most one call is in flight however many   *)
(* threads there are: ONE request discovers that pricing is back.  It takes*)
(* the deadline being shorter than the cooldown, or a call let through     *)
(* before the trip would still run and reset the probe's flag.             *)
HalfOpenOneCall == Tripped /\ ~Cooling => Cardinality(InFlight) <= 1

(* The flag _probing is up exactly while a probe is in flight, unless some *)
(* exception passed the breaker by.                                        *)
ProbeFlagTruthful ==
    oddErrors = 0 => (probing <=> \E t \in Threads : call[t] = "probe")

(* A failed probe opens the circuit "again for another cooldown".          *)
FailedProbeReopens ==
    [][\A t \in Threads :
          call[t] = "probe" /\ RpcFails(t) => Cooling']_vars

(* When pricing is up for good, and no exception has passed the breaker by,*)
(* the breaker closes for good, however its callers' answers overlap.      *)
HealsUnlessOdd == <>[](up /\ oddErrors = 0) => <>[](~Tripped)
=============================================================================
