----------------------------- MODULE TripStore -----------------------------
(***************************************************************************)
(* The durable state: the tables trips and driver_claims of schema.sql and *)
(* the committed statements of dispatch/store.py.  Every operation of the  *)
(* store is one short transaction, so each statement below is one atomic   *)
(* step of whichever process issues it.                                    *)
(*                                                                         *)
(* The trips table is kept by column.  Trip ids are numbered in the order  *)
(* of created_ms, which is all that the code ever uses of their value.     *)
(* driver_id and fare_cents are always written by the same UPDATE, so the  *)
(* column driver stands for both.                                          *)
(*                                                                         *)
(* Operators named Faulty... are no part of the specification.  Each is a  *)
(* definition with a plausible defect, kept beside the right one to show   *)
(* that a property notices it.                                             *)
(***************************************************************************)
EXTENDS Integers, FiniteSets, TripLifecycle

CONSTANTS
    MaxTrips,   \* bound: how many trip ids a behaviour may mint
    Drivers,    \* driver ids
    Keys,       \* idempotency keys
    NoDriver,   \* NULL in trips.driver_id
    NoKey       \* idempotency_key of a row that does not exist

ASSUME StoreAssumption ==
    /\ MaxTrips \in Nat
    /\ NoDriver \notin Drivers
    /\ NoKey \notin Keys

Trips  == 1..MaxTrips
NoTrip == 0

VARIABLES
    state,      \* trips.state, "absent" when there is no such row
    driver,     \* trips.driver_id (with fare_cents)
    version,    \* trips.version, the optimistic lock
    idemKey,    \* trips.idempotency_key
    claims      \* the rows <<driver_id, trip_id>> of driver_claims

tripRows  == <<state, driver, version, idemKey>>
storeVars == <<state, driver, version, idemKey, claims>>

StoreTypeOK ==
    /\ state \in [Trips -> TripStates \cup {"absent"}]
    /\ driver \in [Trips -> Drivers \cup {NoDriver}]
    /\ version \in [Trips -> Nat]
    /\ idemKey \in [Trips -> Keys \cup {NoKey}]
    /\ claims \subseteq (Drivers \X Trips)

StoreInit ==
    /\ state = [t \in Trips |-> "absent"]
    /\ driver = [t \in Trips |-> NoDriver]
    /\ version = [t \in Trips |-> 0]
    /\ idemKey = [t \in Trips |-> NoKey]
    /\ claims = {}

-----------------------------------------------------------------------------
(* create_trip: the INSERT is refused on the primary key and on            *)
(* uk_trips_idem.                                                          *)

KeyTaken(k) == \E t \in Trips : state[t] # "absent" /\ idemKey[t] = k

(* Faulty: schema.sql without uk_trips_idem. *)
FaultyInsertRefused(t, k) == state[t] # "absent"

InsertRefused(t, k) == state[t] # "absent" \/ KeyTaken(k)

InsertTrip(t, k) ==
    /\ ~InsertRefused(t, k)
    /\ state' = [state EXCEPT ![t] = "requested"]
    /\ idemKey' = [idemKey EXCEPT ![t] = k]
    /\ UNCHANGED <<driver, version, claims>>

-----------------------------------------------------------------------------
(* driver_claims: the primary key is driver_id, uk_claims_trip is trip_id. *)

(* Faulty: driver_claims keyed by trip only. *)
FaultyClaimRefused(d, t) == \E c \in claims : c[2] = t

ClaimRefused(d, t) == \E c \in claims : c[1] = d \/ c[2] = t

InsertClaim(d, t) ==
    /\ ~ClaimRefused(d, t)
    /\ claims' = claims \cup {<<d, t>>}
    /\ UNCHANGED tripRows

(* release_driver names the driver only, whoever's trip the claim is for.  *)
DeleteClaim(d) ==
    /\ claims' = {c \in claims : c[1] # d}
    /\ UNCHANGED tripRows

-----------------------------------------------------------------------------
(* save_match and advance: UPDATE ... WHERE trip_id = t AND version = v.   *)

(* Faulty: the WHERE clause names the trip only. *)
FaultyVersionMatches(t, v) == TRUE

VersionMatches(t, v) == version[t] = v

(* Faulty: save_match forgets the version test. *)
FaultyUpdateMatch(t, v, d) ==
    /\ state' = [state EXCEPT ![t] = "matched"]
    /\ driver' = [driver EXCEPT ![t] = d]
    /\ version' = [version EXCEPT ![t] = @ + 1]
    /\ UNCHANGED <<idemKey, claims>>

UpdateMatch(t, v, d) ==
    /\ VersionMatches(t, v)
    /\ state' = [state EXCEPT ![t] = "matched"]
    /\ driver' = [driver EXCEPT ![t] = d]
    /\ version' = [version EXCEPT ![t] = @ + 1]
    /\ UNCHANGED <<idemKey, claims>>

(* Faulty: a cancelled trip keeps its driver; the version is not bumped. *)
FaultyUpdateStateKeeps(t, v, d, dst) ==
    /\ VersionMatches(t, v)
    /\ state' = [state EXCEPT ![t] = dst]
    /\ version' = [version EXCEPT ![t] = @ + 1]
    /\ claims' = IF dst = "complete" THEN claims \ {<<d, t>>} ELSE claims
    /\ UNCHANGED <<driver, idemKey>>

FaultyUpdateStateNoBump(t, v, d, dst) ==
    /\ VersionMatches(t, v)
    /\ state' = [state EXCEPT ![t] = dst]
    /\ claims' = IF IsTerminal(dst) THEN claims \ {<<d, t>>} ELSE claims
    /\ UNCHANGED <<driver, version, idemKey>>

(* d is the driver in the caller's copy of the row; the claim goes in the  *)
(* same transaction, and only the row for this very trip.                  *)
UpdateState(t, v, d, dst) ==
    /\ VersionMatches(t, v)
    /\ state' = [state EXCEPT ![t] = dst]
    /\ version' = [version EXCEPT ![t] = @ + 1]
    /\ claims' = IF dst \in {"complete", "cancelled"} /\ d # NoDriver
                 THEN claims \ {<<d, t>>}
                 ELSE claims
    /\ UNCHANGED <<driver, idemKey>>
=============================================================================
