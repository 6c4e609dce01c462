------------------------------ MODULE RideApi ------------------------------
(***************************************************************************)
(* POST /rides of dispatch/api.py: concurrent request handlers, each       *)
(* carrying a client's idempotency key.  A client whose request failed or  *)
(* was answered may send the same key again.                               *)
(***************************************************************************)
EXTENDS TripStore, PendingQueue, Failures

CONSTANT Handlers   \* request handlers (threads of the api pods)

VARIABLES
    apc,        \* where each handler stands
    akey,       \* the key of its request
    atrip,      \* the trip id it generated
    minted,     \* how many ids new_trip_id has returned
    replies     \* replies[k]: the trip ids clients were told for key k

apiVars == <<apc, akey, atrip, minted, replies>>

ApiTypeOK ==
    /\ apc \in [Handlers -> {"idle", "create", "lookup", "push"}]
    /\ akey \in [Handlers -> Keys \cup {NoKey}]
    /\ atrip \in [Handlers -> Trips \cup {NoTrip}]
    /\ minted \in 0..MaxTrips
    /\ replies \in [Keys -> SUBSET Trips]
    /\ \A h \in Handlers :
          apc[h] # "idle" => akey[h] \in Keys /\ atrip[h] \in Trips

ApiInit ==
    /\ apc = [h \in Handlers |-> "idle"]
    /\ akey = [h \in Handlers |-> NoKey]
    /\ atrip = [h \in Handlers |-> NoTrip]
    /\ minted = 0
    /\ replies = [k \in Keys |-> {}]

Return(h) ==
    /\ apc' = [apc EXCEPT ![h] = "idle"]
    /\ akey' = [akey EXCEPT ![h] = NoKey]
    /\ atrip' = [atrip EXCEPT ![h] = NoTrip]

Reply(h, t) == replies' = [replies EXCEPT ![akey[h]] = @ \cup {t}]

(* Faulty: ids that repeat; the hint pushed before the durable write. *)
FaultyRequestRideId(h, k) ==
    /\ apc[h] = "idle" /\ minted < MaxTrips
    /\ minted' = minted + 1
    /\ apc' = [apc EXCEPT ![h] = "create"]
    /\ akey' = [akey EXCEPT ![h] = k]
    /\ atrip' = [atrip EXCEPT ![h] = IF minted = 0 THEN 1 ELSE minted]
    /\ UNCHANGED <<replies, queue, storeVars>> /\ NoFailure

FaultyRequestRideHint(h, k) ==
    /\ apc[h] = "idle" /\ minted < MaxTrips
    /\ minted' = minted + 1
    /\ apc' = [apc EXCEPT ![h] = "create"]
    /\ akey' = [akey EXCEPT ![h] = k]
    /\ atrip' = [atrip EXCEPT ![h] = minted + 1]
    /\ Push(minted + 1)
    /\ UNCHANGED <<replies, storeVars>> /\ NoFailure

(* A request arrives; the handler builds a Trip with a fresh id. *)
RequestRide(h, k) ==
    /\ apc[h] = "idle" /\ minted < MaxTrips
    /\ minted' = minted + 1
    /\ apc' = [apc EXCEPT ![h] = "create"]
    /\ akey' = [akey EXCEPT ![h] = k]
    /\ atrip' = [atrip EXCEPT ![h] = minted + 1]
    /\ UNCHANGED <<replies, queue, storeVars>> /\ NoFailure

CreateTrip(h) ==
    /\ apc[h] = "create"
    /\ InsertTrip(atrip[h], akey[h])
    /\ apc' = [apc EXCEPT ![h] = "push"]
    /\ UNCHANGED <<akey, atrip, minted, replies, queue>> /\ NoFailure

(* IntegrityError, rolled back; the row is looked up on a new connection. *)
CreateCollides(h) ==
    /\ apc[h] = "create"
    /\ InsertRefused(atrip[h], akey[h])
    /\ apc' = [apc EXCEPT ![h] = "lookup"]
    /\ UNCHANGED <<akey, atrip, minted, replies, queue, storeVars>> /\ NoFailure

(* get_by_idempotency_key; 200 for a replay, which is not enqueued. *)
Replay(h) ==
    /\ apc[h] = "lookup"
    /\ \E t \in Trips :
          state[t] # "absent" /\ idemKey[t] = akey[h] /\ Reply(h, t)
    /\ Return(h)
    /\ UNCHANGED <<minted, queue, storeVars>> /\ NoFailure

(* 202: the hint second, after the durable write. *)
Accept(h) ==
    /\ apc[h] = "push"
    /\ Push(atrip[h])
    /\ Reply(h, atrip[h])
    /\ Return(h)
    /\ UNCHANGED <<minted, storeVars>> /\ NoFailure

(* The pod dies, or MySQL or Redis raises: the client gets an error.  A    *)
(* create whose commit was not acknowledged is a death at "push".          *)
HandlerDies(h) ==
    /\ apc[h] # "idle" /\ Fail("api_died")
    /\ Return(h)
    /\ UNCHANGED <<minted, replies, queue, storeVars>>

HandlerStep(h) == CreateTrip(h) \/ CreateCollides(h) \/ Replay(h) \/ Accept(h)
=============================================================================
