------------------------------ MODULE Pricing ------------------------------
(***************************************************************************)
(* PricingClient.quote as a rider meets it: the breaker decides which of   *)
(* the two fares he gets, the one of the service or the one the client     *)
(* computes without it.                                                    *)
(***************************************************************************)
EXTENDS CircuitBreaker, Fares

(* A pricing outage never makes a ride dearer: whoever was given a fallback*)
(* fare, by an open circuit or a failed call, pays at most what the service*)
(* would have asked (_fallback, "err in the direction that does not harm   *)
(* the customer").                                                         *)
FallbackNeverDearer ==
    (\E t \in Threads : fare[t] = "fallback") => FallbackBelowQuote

(* Whoever was quoted a fare by the service pays at least the unsurged fare*)
(* and at most three times as much, whatever the demand job left in Redis. *)
SurgeBounded ==
    (\E t \in Threads : fare[t] = "quoted") => QuoteClamped
=============================================================================
