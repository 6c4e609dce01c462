------------------------------- MODULE Fares -------------------------------
(***************************************************************************)
(* The two ways to price one ride: PricingService.Quote (pricing/server.py)*)
(* and PricingClient._fallback (dispatch/pricing_client.py), which must    *)
(* not cost a rider more than the service he could not reach.              *)
(*                                                                         *)
(* Money is integer cents, and // is \div.  A price per kilometre goes     *)
(* through floats: int(2050 / 1000.0 * 140) is 286, not 287.  Both sides   *)
(* evaluate the same expression, so PerKm is a parameter, and the results  *)
(* hold for any function of distance and rate.                             *)
(*                                                                         *)
(* Operators named Faulty... are no part of the specification.  Each is a  *)
(* definition with a plausible defect, kept beside the right one to show   *)
(* that a property notices it.                                             *)
(***************************************************************************)
EXTENDS Integers

CONSTANTS
    Legs,           \* distances between pickup and driver, in metres
    SurgeKeys,      \* integers the demand job may store under surge:<cell>
    NoSurge,        \* the key is missing, or holds garbage
    PerKm(_, _)     \* int(metres / 1000.0 * cents)

ASSUME FaresAssumption ==
    /\ Legs \subseteq Nat
    /\ \A m, p \in Legs : PerKm(140, m + p) \in Nat /\ PerKm(60, p) \in Nat
    /\ SurgeKeys \subseteq Int
    /\ NoSurge \notin Int

AtLeast(lo, x) == IF x < lo THEN lo ELSE x
AtMost(hi, x)  == IF x > hi THEN hi ELSE x

-----------------------------------------------------------------------------
(* Faulty: the stored value is used as it is. *)
FaultySurgeBps(key) == IF key = NoSurge THEN 10000 ELSE key

(* 10000 is 1.0x; clamped to [1.0x, 3.0x], and 1.0x when unknown. *)
SurgeBps(key) ==
    IF key = NoSurge THEN 10000 ELSE AtLeast(10000, AtMost(30000, key))

Base(m, pick) == 250 + PerKm(140, m + pick) + PerKm(60, pick)

Surged(cents, bps) == (cents * bps) \div 10000

Quote(m, pick, key) == AtLeast(500, Surged(Base(m, pick), SurgeBps(key)))

(* Faulty: the driver's approach is charged a second time, at the full rate. *)
FaultyFallback(m, pick) ==
    AtLeast(500, 250 + PerKm(140, m + pick) + PerKm(140, pick))

Fallback(m, pick) == AtLeast(500, 250 + PerKm(140, m + pick))

-----------------------------------------------------------------------------
(* What the demand job may have left in Redis.                             *)
Stored == SurgeKeys \cup {NoSurge}

(* The fallback costs at most what the service would have asked, whatever  *)
(* the ride and the surge.                                                 *)
FallbackBelowQuote ==
    \A m, pick \in Legs, key \in Stored : Fallback(m, pick) <= Quote(m, pick, key)

(* Surge neither lowers a fare nor more than triples it, whatever integer  *)
(* or garbage is stored in Redis.                                          *)
QuoteClamped ==
    \A m, pick \in Legs, key \in Stored :
        LET calm == Quote(m, pick, NoSurge)
            now  == Quote(m, pick, key)
        IN  calm <= now /\ now <= 3 * calm
=============================================================================
