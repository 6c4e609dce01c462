----------------------------- MODULE MCDispatch -----------------------------
(***************************************************************************)
(* Small instances of Dispatch for TLC.                                    *)
(***************************************************************************)
EXTENDS DispatchProperties, TLC

(* n drivers in any order, each once. *)
Rankings(n) ==
    {s \in [1..n -> Drivers] : \A i, j \in 1..n : s[i] = s[j] => i = j}

(* Any answer at all: nobody near, or a driver twice, once for the cell he  *)
(* left and once for the cell he is in.                                     *)
AnyRanking ==
    [t \in Trips |-> UNION {[1..n -> Drivers] : n \in 0..Cardinality(Drivers)}]

FullRanking == [t \in Trips |-> Rankings(Cardinality(Drivers))]

(* Every rider sees the same drivers in the same order. *)
SameRanking ==
    [t \in Trips |-> {CHOOSE s \in Rankings(Cardinality(Drivers)) : TRUE}]

Once(kinds) == [k \in FailureKinds |-> IF k \in kinds THEN 1 ELSE 0]

ErrorBudget    == Once({"db_error"})
ReplayBudget   == Once({"ack_lost", "db_error", "api_died"})
AckLost        == Once({"ack_lost"})
RecoveryBudget ==
    Once({"sigkill", "sigterm", "db_error", "ack_lost", "queue_lost"})
SweepBudget    == Once({"sigkill", "db_error", "sweep_failed"})
KillBudget     == Once({"sigkill"})

Symmetric ==
    Permutations(Matchers) \cup Permutations(Drivers) \cup
    Permutations(Handlers) \cup Permutations(Keys) \cup Permutations(Callers)
=============================================================================
