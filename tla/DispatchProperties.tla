------------------------- MODULE DispatchProperties -------------------------
(***************************************************************************)
(* What dispatch must and must never do.                                   *)
(***************************************************************************)
EXTENDS Dispatch

Live(t) == state[t] \in LiveStates

(* A claim nobody will ever act on: its trip is not live and no running    *)
(* matcher works under it.                                                 *)
Orphaned(c) == c \in claims /\ ~WorkedOn(c) /\ ~Live(c[2])

(* The drivers none of whose claims grew old under a running matcher. *)
Spared == Drivers \ stalled

(* A matcher failed, or MySQL did, at some point of the behaviour. *)
MatchingFailed ==
    \E k \in {"sigkill", "db_error", "ack_lost"} : failures[k] > 0

-----------------------------------------------------------------------------
(* Safety                                                                  *)

(* No driver is on two live trips at once: INVARIANT 1 of chaos/verify.py, *)
(* the promise of the claims ledger.                                       *)
NoDoubleBooking ==
    \A t, u \in Trips :
        Live(t) /\ Live(u) /\ driver[t] = driver[u] /\ driver[t] # NoDriver
            => t = u

(* A driver on a live trip stays claimed for that very trip until it ends: *)
(* release_driver, which names no trip, never deletes another trip's claim.*)
LiveTripKeepsItsClaim ==
    \A t \in Trips : Live(t) /\ driver[t] # NoDriver => <<driver[t], t>> \in claims

(* A matcher between claim and release really owns the claim, however the  *)
(* reaper, other matchers and callers interleave (matcher.py, "From here   *)
(* we HOLD the claim").                                                    *)
MatcherHoldsItsClaim ==
    \A m \in Matchers : mpc[m] \in Holding => <<Tried(m), job[m]>> \in claims

(* The sweep for orphaned claims goes by age, and a match that outlasts    *)
(* the age loses its claim.  It never hurts another: on a driver whose     *)
(* claim never grew old under a running matcher, a live trip keeps its     *)
(* claim until it ends and a matcher owns the claim it believes it holds.  *)
SweepsSparePromptMatches ==
    /\ \A t \in Trips :
          Live(t) /\ driver[t] \in Spared => <<driver[t], t>> \in claims
    /\ \A m \in Matchers :
          mpc[m] \in Holding /\ Tried(m) \in Spared => <<Tried(m), job[m]>> \in claims

(* As long as no matcher and no MySQL call failed, every claim is either   *)
(* being worked under or backs a live trip: every path of match_once and   *)
(* advance gives the driver back, cancellations and replays included.      *)
NoLeakWithoutFailure ==
    ~MatchingFailed =>
        \A c \in claims :
            WorkedOn(c) \/ (Live(c[2]) /\ driver[c[2]] = c[1])

(* All answers to requests that carry one idempotency key name one trip,   *)
(* and it is the only row with that key.                                   *)
OneTripPerKey ==
    \A k \in Keys :
        LET rows == {t \in Trips : state[t] # "absent" /\ idemKey[t] = k}
        IN  replies[k] \subseteq rows /\ Cardinality(rows) <= 1

(* A refused INSERT always finds the row that refused it: the RuntimeError *)
(* of create_trip is never raised.                                         *)
CollisionHasRow == \A h \in Handlers : apc[h] = "lookup" => KeyTaken(akey[h])

(* The hint never precedes the fact: an id on the queue, or in a matcher's *)
(* hands, is the id of a row (api.py, "the durable write first").          *)
HintsNameRows ==
    /\ \A i \in DOMAIN queue : state[queue[i]] # "absent"
    /\ \A m \in Matchers : job[m] # NoTrip => state[job[m]] # "absent"

-----------------------------------------------------------------------------
(* Action properties                                                       *)

(* A row moves only along the table of domain.py, although every caller    *)
(* checks the table against its own copy of the row.                       *)
TripsFollowTable ==
    [][\A t \in Trips : state'[t] # state[t] =>
          \/ state[t] = "absent" /\ state'[t] = "requested"
          \/ CanTransition(state[t], state'[t])]_vars

(* Once a trip has a driver it keeps that driver: no redelivery, retry or  *)
(* second matcher ever assigns another.                                    *)
RiderKeepsDriver ==
    [][\A t \in Trips : driver[t] # NoDriver => driver'[t] = driver[t]]_vars

(* The trips table behaves as the abstract marketplace. *)
Market == INSTANCE Marketplace

ImplementsMarketplace == Market!MarketSpec

-----------------------------------------------------------------------------
(* Liveness, under FairSpec                                                *)

(* Every REQUESTED trip is eventually matched or cancelled (given drivers):*)
(* INVARIANT 4 of chaos/verify.py.                                         *)
EventuallyServed ==
    \A t \in Trips : (state[t] = "requested") ~> (state[t] # "requested")

(* The only thing that can leave a rider waiting for ever is an orphaned   *)
(* claim for that trip; lost queues, dead handlers, dead matchers and      *)
(* candidates lost to other trips are all recovered from.                  *)
StrandedOnlyByOrphan ==
    \A t \in Trips :
        (state[t] = "requested")
            ~> \/ state[t] # "requested"
               \/ \E d \in Drivers : Orphaned(<<d, t>>)

(* A hint lost with Redis or with a matcher comes back: a trip past the    *)
(* stranded age is sooner or later on the queue, in a matcher's hands or   *)
(* no longer REQUESTED (queue.py, "the reaper rebuilds it").               *)
QueueRebuilt ==
    \A t \in Trips :
        (state[t] = "requested" /\ t <= cutoff)
            ~> \/ state[t] # "requested"
               \/ \E i \in DOMAIN queue : queue[i] = t
               \/ \E m \in Matchers : job[m] = t

(* A driver claimed for a trip nobody works on is eventually released      *)
(* (reaper.py, sweep_orphaned_claims).                                     *)
OrphansReleased ==
    \A d \in Drivers :
        LET Orphan == \E t \in Trips : Orphaned(<<d, t>>) IN Orphan ~> ~Orphan
=============================================================================
