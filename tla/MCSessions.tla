----------------------------- MODULE MCSessions -----------------------------
(* Symmetry for the instances of Sessions, whose properties are safety.     *)
EXTENDS Sessions

Symmetric ==
    Permutations(Threads) \cup Permutations(Conns) \cup Permutations(Drivers) \cup Permutations(Keys)
=============================================================================
