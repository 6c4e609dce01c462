---------------------------- MODULE Marketplace ----------------------------
(***************************************************************************)
(* What dispatch promises, without saying how: trips move by the table of  *)
(* dispatch/domain.py, a trip is given its driver once, when it is         *)
(* matched, and only a driver on no live trip is ever given.               *)
(***************************************************************************)
EXTENDS TripLifecycle

CONSTANTS Trips, Drivers, NoDriver

VARIABLES state, driver

marketVars == <<state, driver>>

OnLiveTrip(d) == \E t \in Trips : state[t] \in LiveStates /\ driver[t] = d

MarketInit ==
    /\ state = [t \in Trips |-> "absent"]
    /\ driver = [t \in Trips |-> NoDriver]

Open(t) ==
    /\ state[t] = "absent"
    /\ state' = [state EXCEPT ![t] = "requested"]
    /\ UNCHANGED driver

Match(t, d) ==
    /\ CanTransition(state[t], "matched")
    /\ ~OnLiveTrip(d)
    /\ state' = [state EXCEPT ![t] = "matched"]
    /\ driver' = [driver EXCEPT ![t] = d]

Move(t, dst) ==
    /\ dst # "matched" /\ CanTransition(state[t], dst)
    /\ state' = [state EXCEPT ![t] = dst]
    /\ UNCHANGED driver

MarketNext ==
    \E t \in Trips :
        \/ Open(t)
        \/ \E d \in Drivers : Match(t, d)
        \/ \E dst \in TripStates : Move(t, dst)

MarketSpec == MarketInit /\ [][MarketNext]_marketVars
=============================================================================
