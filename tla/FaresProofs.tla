---------------------------- MODULE FaresProofs ----------------------------
(* The fare properties for every distance, every stored surge and every     *)
(* way the floats may round.                                                *)
EXTENDS Pricing, TLAPS

(* Basis points that _surge_bps may return. *)
SurgeRange == 10000..30000

(* A surge is one of a clamped range, whatever the job stored. *)
LEMMA SurgeClamped ==
    ASSUME NEW key \in Stored
    PROVE  SurgeBps(key) \in SurgeRange
<1>1. CASE key = NoSurge
  BY <1>1 DEF SurgeBps, SurgeRange
<1>2. CASE key # NoSurge
  <2>1. key \in Int
    BY <1>2, FaresAssumption DEF Stored
  <2>2. SurgeBps(key) = AtLeast(10000, AtMost(30000, key))
    BY <1>2 DEF SurgeBps
  <2>3. AtMost(30000, key) \in Int /\ AtMost(30000, key) <= 30000
    BY <2>1 DEF AtMost
  <2>4. \A x \in Int : x <= 30000 => AtLeast(10000, x) \in SurgeRange
    BY DEF AtLeast, SurgeRange
  <2> QED
    BY <2>2, <2>3, <2>4
<1> QED
  BY <1>1, <1>2

(* Flooring a product with a surge of 1.0x to 3.0x. *)
LEMMA SurgedBase ==
    \A c \in Nat : \A bps \in SurgeRange :
        Surged(c, bps) \in Nat /\ c <= Surged(c, bps) /\ Surged(c, bps) <= 3 * c
<1> SUFFICES ASSUME NEW c \in Nat, NEW bps \in SurgeRange
             PROVE  /\ Surged(c, bps) \in Nat
                    /\ c <= Surged(c, bps) /\ Surged(c, bps) <= 3 * c
  OBVIOUS
<1> DEFINE x == c * bps
<1>1. x \in Nat /\ c * 10000 <= x /\ x <= c * 30000
  BY DEF SurgeRange
<1> HIDE DEF x
<1>2. x \div 10000 \in Nat /\ c <= x \div 10000 /\ x \div 10000 <= 3 * c
  BY <1>1
<1> QED
  BY <1>2 DEF x, Surged

LEMMA BaseIsNat ==
    ASSUME NEW m \in Legs, NEW pick \in Legs
    PROVE  /\ Base(m, pick) \in Nat
           /\ PerKm(140, m + pick) \in Nat
           /\ PerKm(60, pick) \in Nat
<1>1. PerKm(140, m + pick) \in Nat /\ PerKm(60, pick) \in Nat
  BY FaresAssumption
<1> QED
  BY <1>1 DEF Base

(* The fallback leaves out the approach and the surge, and both fares have  *)
(* the same minimum.                                                        *)
LEMMA FallbackCheap == FallbackBelowQuote
<1> SUFFICES ASSUME NEW m \in Legs, NEW pick \in Legs, NEW key \in Stored
             PROVE  Fallback(m, pick) <= Quote(m, pick, key)
  BY DEF FallbackBelowQuote
<1> DEFINE b == Base(m, pick)
           s == SurgeBps(key)
<1>1. s \in SurgeRange
  BY SurgeClamped
<1>2. b \in Nat
  BY BaseIsNat
<1> HIDE DEF b, s
<1>3. Surged(b, s) \in Nat /\ b <= Surged(b, s)
  BY <1>1, <1>2, SurgedBase
<1>4. 250 + PerKm(140, m + pick) <= b
  BY BaseIsNat DEF Base, b
<1>5. \A q \in Nat : b <= q =>
          AtLeast(500, 250 + PerKm(140, m + pick)) <= AtLeast(500, q)
  BY <1>2, <1>4, BaseIsNat DEF AtLeast
<1>6. Fallback(m, pick) <= AtLeast(500, Surged(b, s))
  BY <1>3, <1>5 DEF Fallback
<1> QED
  BY <1>6 DEF Quote, b, s

(* The clamp holds for every integer in Redis (PricingService._surge_bps). *)
LEMMA ClampHolds == QuoteClamped
<1> SUFFICES ASSUME NEW m \in Legs, NEW pick \in Legs, NEW key \in Stored
             PROVE  /\ Quote(m, pick, NoSurge) <= Quote(m, pick, key)
                    /\ Quote(m, pick, key) <= 3 * Quote(m, pick, NoSurge)
  BY DEF QuoteClamped
<1> DEFINE b == Base(m, pick)
           s == SurgeBps(key)
<1>1. s \in SurgeRange
  BY SurgeClamped
<1>2. b \in Nat
  BY BaseIsNat
<1>4. SurgeBps(NoSurge) = 10000
  BY DEF SurgeBps
<1> HIDE DEF b, s
<1>3. /\ Surged(b, s) \in Nat
      /\ b <= Surged(b, s) /\ Surged(b, s) <= 3 * b
  BY <1>1, <1>2, SurgedBase
<1>5. Surged(b, 10000) = b
  BY <1>2 DEF Surged
<1>6. \A q \in Nat : b <= q /\ q <= 3 * b =>
          /\ AtLeast(500, b) <= AtLeast(500, q)
          /\ AtLeast(500, q) <= 3 * AtLeast(500, b)
  BY <1>2 DEF AtLeast
<1>7. /\ AtLeast(500, b) <= AtLeast(500, Surged(b, s))
      /\ AtLeast(500, Surged(b, s)) <= 3 * AtLeast(500, b)
  BY <1>3, <1>6
<1> QED
  BY <1>4, <1>5, <1>7 DEF Quote, b, s

(* A pricing outage never makes a ride dearer (PricingClient._fallback), on *)
(* whatever path the breaker sends a thread there.                          *)
THEOREM OutageNeverDearer == Spec => []FallbackNeverDearer
<1>1. FallbackNeverDearer
  BY FallbackCheap DEF FallbackNeverDearer
<1> QED
  BY <1>1, PTL

(* Surge never runs away (PricingService._surge_bps).                       *)
THEOREM SurgeNeverRunsAway == Spec => []SurgeBounded
<1>1. SurgeBounded
  BY ClampHolds DEF SurgeBounded
<1> QED
  BY <1>1, PTL
=============================================================================
