------------------------------ MODULE Dispatch ------------------------------
(***************************************************************************)
(* The marketplace as it runs: request handlers, matchers, the reaper and  *)
(* the callers of TripStore.advance over one MySQL database and one Redis  *)
(* list.  Each step is one committed statement or one queue operation of   *)
(* one process, or a failure.                                              *)
(***************************************************************************)
EXTENDS RideApi, Reaper

CONSTANTS
    Callers,        \* callers of store.get and store.advance
    AdvanceTargets  \* the states they ask for

ASSUME DispatchAssumption == AdvanceTargets \subseteq TripStates

VARIABLE view       \* view[c]: the copy of a trips row that caller c read

vars ==
    <<storeVars, queue, matcherVars, apiVars, reaperVars, ageVars, view, failures>>

NoView ==
    [trip |-> NoTrip, state |-> "absent", version |-> 0, driver |-> NoDriver]

View == [trip : Trips, state : TripStates,
         version : Nat, driver : Drivers \cup {NoDriver}]

TypeOK ==
    /\ StoreTypeOK /\ MatcherTypeOK /\ ApiTypeOK /\ ReaperTypeOK
    /\ FailuresTypeOK
    /\ queue \in Seq(Trips)
    /\ view \in [Callers -> View \cup {NoView}]

Init ==
    /\ StoreInit /\ MatcherInit /\ ApiInit /\ ReaperInit /\ FailuresInit
    /\ queue = <<>>
    /\ view = [c \in Callers |-> NoView]

-----------------------------------------------------------------------------
(* The trip after matching.  No process of the repository calls advance;   *)
(* the callers are whoever reports pickups, completions and cancellations. *)

(* store.get; a trip in a terminal state admits no further call. *)
ReadTrip(c, t) ==
    /\ view[c] = NoView
    /\ state[t] # "absent" /\ ~IsTerminal(state[t])
    /\ view' = [view EXCEPT ![c] =
                  [trip |-> t, state |-> state[t],
                   version |-> version[t], driver |-> driver[t]]]
    /\ UNCHANGED <<storeVars, queue>> /\ NoFailure

(* store.advance: assert_transition on the copy, then the guarded UPDATE.  *)
AdvanceTrip(c, dst) ==
    /\ view[c] # NoView
    /\ CanTransition(view[c].state, dst)
    /\ UpdateState(view[c].trip, view[c].version, view[c].driver, dst)
    /\ view' = [view EXCEPT ![c] = NoView]
    /\ UNCHANGED queue /\ NoFailure

(* ConcurrentUpdate: rolled back, the caller is left with a stale copy. *)
AdvanceConflict(c) ==
    /\ view[c] # NoView
    /\ ~VersionMatches(view[c].trip, view[c].version)
    /\ view' = [view EXCEPT ![c] = NoView]
    /\ UNCHANGED <<storeVars, queue>> /\ NoFailure

CallerStep(c) ==
    \/ \E t \in Trips : ReadTrip(c, t)
    \/ \E dst \in AdvanceTargets : AdvanceTrip(c, dst)
    \/ AdvanceConflict(c)

-----------------------------------------------------------------------------
(* The whole                                                               *)

RequestArrives ==
    /\ \E h \in Handlers, k \in Keys : RequestRide(h, k)
    /\ KeepAges /\ UNCHANGED <<matcherVars, reaperVars, view>>

HandlerMoves(h) ==
    HandlerStep(h) /\ KeepAges /\ UNCHANGED <<matcherVars, reaperVars, view>>
MatcherMoves(m) ==
    MatcherStep(m) /\ KeepAges /\ UNCHANGED <<apiVars, reaperVars, view>>
ReaperMoves == ReaperStep /\ KeepAges /\ UNCHANGED <<apiVars, view>>
CallerMoves(c) ==
    CallerStep(c) /\ KeepAges /\ UNCHANGED <<matcherVars, apiVars, reaperVars>>

TripAges == GrowOld(minted) /\ KeepAges /\ UNCHANGED <<apiVars, view>>
ClaimAges ==
    (\E c \in claims : ClaimGrowsOld(c)) /\ UNCHANGED <<apiVars, view>>

TimePasses == TripAges \/ ClaimAges

(* Redis restarts without its list. *)
QueueLost ==
    /\ queue # <<>> /\ Fail("queue_lost")
    /\ queue' = <<>>
    /\ UNCHANGED <<storeVars, matcherVars, apiVars, reaperVars, view>>

ProcessFails ==
    /\ \/ \E m \in Matchers : MatcherFails(m) /\ UNCHANGED <<apiVars, reaperVars, view>>
       \/ \E h \in Handlers : HandlerDies(h) /\ UNCHANGED <<matcherVars, reaperVars, view>>
       \/ SweepFails /\ UNCHANGED <<apiVars, view>>
       \/ QueueLost
    /\ KeepAges

Next ==
    \/ RequestArrives
    \/ \E h \in Handlers : HandlerMoves(h)
    \/ \E m \in Matchers : MatcherMoves(m)
    \/ ReaperMoves
    \/ \E c \in Callers : CallerMoves(c)
    \/ TimePasses
    \/ ProcessFails

Spec == Init /\ [][Next]_vars

(* Running processes keep running and the clock keeps going; requests,     *)
(* callers and failures owe nobody a step.                                 *)
Fairness ==
    /\ \A h \in Handlers : WF_vars(HandlerMoves(h))
    /\ \A m \in Matchers : WF_vars(MatcherMoves(m))
    /\ WF_vars(ReaperMoves)
    /\ WF_vars(TimePasses)

FairSpec == Spec /\ Fairness
=============================================================================
