--------------------------- MODULE TripLifecycle ---------------------------
(***************************************************************************)
(* The trip state machine of dispatch/domain.py.  A transition that is not *)
(* listed in Allowed does not exist.                                       *)
(***************************************************************************)

TripStates == {"requested", "matched", "en_route", "complete", "cancelled"}

Allowed ==
    { <<"requested", "matched">>, <<"requested", "cancelled">>,
      <<"matched", "en_route">>,  <<"matched", "cancelled">>,
      <<"en_route", "complete">>, <<"en_route", "cancelled">> }

CanTransition(src, dst) == <<src, dst>> \in Allowed

IsTerminal(s) == \A dst \in TripStates : ~CanTransition(s, dst)

(* The states in which a trip occupies its driver. *)
LiveStates == {"matched", "en_route"}
=============================================================================
