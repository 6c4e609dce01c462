----------------------------- MODULE MCPricing -----------------------------
(* The breaker and both fares it chooses between, on small instances.       *)
(*                                                                          *)
(* Distances around the minimum fare, around whole cents and kilometres,    *)
(* and a long way off; surges on both sides of both clamps.                 *)
EXTENDS Pricing

SomeLegs ==
    {0, 7, 8, 499, 500, 1000, 1333, 1785, 1786, 1787, 2050, 9999, 150001}

SomeSurges == {-5, 0, 1, 9999, 10000, 10001, 13500, 29999, 30000, 30001, 999999}

(* The floats at their worst: a product that should be a positive whole     *)
(* number of cents always comes out just below it.                          *)
PerKmBelow(cents, metres) ==
    IF metres * cents > 0 /\ (metres * cents) % 1000 = 0
    THEN (metres * cents) \div 1000 - 1
    ELSE (metres * cents) \div 1000
=============================================================================
