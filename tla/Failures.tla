------------------------------ MODULE Failures ------------------------------
(***************************************************************************)
(* The failures the environment may inject, each kind with its own budget. *)
(* A budget of 0 means that the kind of failure does not happen.           *)
(***************************************************************************)
EXTENDS Integers

FailureKinds ==
    { "sigkill",      \* a matcher dies where it stands
      "sigterm",      \* a matcher is asked to stop and drains
      "db_error",     \* a MySQL call raises, nothing committed
      "ack_lost",     \* a MySQL call raises although it committed
      "queue_lost",   \* Redis loses the pending list
      "api_died",     \* a request handler dies or raises
      "sweep_failed"  \* a sweep of the reaper raises, or its process restarts
    }

CONSTANT Budget     \* bound: how many failures of each kind a behaviour has

ASSUME FailuresAssumption == Budget \in [FailureKinds -> Nat]

VARIABLE failures   \* how many of each kind have happened

FailuresTypeOK == failures \in [FailureKinds -> Nat]
FailuresInit   == failures = [k \in FailureKinds |-> 0]

Fail(kind) ==
    /\ failures[kind] < Budget[kind]
    /\ failures' = [failures EXCEPT ![kind] = @ + 1]

NoFailure == UNCHANGED failures
=============================================================================
