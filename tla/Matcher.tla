------------------------------ MODULE Matcher ------------------------------
(***************************************************************************)
(* The matcher processes of dispatch/matcher.py and run_matcher.py.  Each  *)
(* drains the pending queue one trip at a time: read the trip, ask the geo *)
(* index for candidates, claim one, price the ride, save the match.        *)
(*                                                                         *)
(* The actions constrain the store, the queue, the failures and the        *)
(* matchers' own variables; module Dispatch frames the rest of the state.  *)
(*                                                                         *)
(* Pricing has no step of its own: quote touches no shared state, so its   *)
(* duration is the time between Claim and Save, and an exception out of it *)
(* takes the same path as one out of save_match.                           *)
(***************************************************************************)
EXTENDS TripStore, PendingQueue, Failures

CONSTANTS
    Matchers,           \* matcher processes
    Nearby,             \* Nearby[t]: the answers geo.nearby may give for t
    MaxClaimAttempts    \* MAX_CLAIM_ATTEMPTS

ASSUME MatcherAssumption ==
    /\ Nearby \in [Trips -> SUBSET Seq(Drivers)]
    /\ MaxClaimAttempts \in Nat \ {0}

VARIABLES
    mpc,    \* where each matcher stands
    job,    \* the trip it works on
    seen,   \* the version it read: its copy of the row is REQUESTED at seen
    cands   \* the candidates left to try, the one being tried first

matcherVars == <<mpc, job, seen, cands>>

Holding == {"held", "conflict", "abort"}  \* between claim and release or save
Busy    == {"load", "claim", "requeue"} \cup Holding

MatcherTypeOK ==
    /\ mpc \in [Matchers -> {"down", "idle"} \cup Busy]
    /\ job \in [Matchers -> Trips \cup {NoTrip}]
    /\ seen \in [Matchers -> Nat]
    /\ cands \in [Matchers -> Seq(Drivers)]
    /\ \A m \in Matchers :
          /\ mpc[m] \in Busy => job[m] \in Trips
          /\ mpc[m] \in Holding \cup {"claim"} => cands[m] # <<>>

MatcherInit ==
    /\ mpc = [m \in Matchers |-> "idle"]
    /\ job = [m \in Matchers |-> NoTrip]
    /\ seen = [m \in Matchers |-> 0]
    /\ cands = [m \in Matchers |-> <<>>]

(* The driver a matcher is trying or holding. *)
Tried(m) == Head(cands[m])

(* candidates[:MAX_CLAIM_ATTEMPTS] *)
FirstAttempts(s) ==
    SubSeq(s, 1, IF Len(s) < MaxClaimAttempts THEN Len(s) ELSE MaxClaimAttempts)

(* The matcher's locals die with the call (or the process); it is then at pc. *)
Leave(m, pc) ==
    /\ mpc' = [mpc EXCEPT ![m] = pc]
    /\ job' = [job EXCEPT ![m] = NoTrip]
    /\ seen' = [seen EXCEPT ![m] = 0]
    /\ cands' = [cands EXCEPT ![m] = <<>>]

Goto(m, pc) ==
    /\ mpc' = [mpc EXCEPT ![m] = pc]
    /\ UNCHANGED <<job, seen, cands>>

(* Faulty: the trip id is dropped with the other locals. *)
FaultyEscape(m) == Leave(m, "requeue")

(* An exception left match_once: run_forever will push the id back. *)
Escape(m) ==
    /\ mpc' = [mpc EXCEPT ![m] = "requeue"]
    /\ seen' = [seen EXCEPT ![m] = 0]
    /\ cands' = [cands EXCEPT ![m] = <<>>]
    /\ UNCHANGED job

-----------------------------------------------------------------------------
(* run_forever and the process around it                                   *)

Take(m) ==
    /\ mpc[m] = "idle"
    /\ \E t \in Trips : Pop(t) /\ job' = [job EXCEPT ![m] = t]
    /\ mpc' = [mpc EXCEPT ![m] = "load"]
    /\ UNCHANGED <<seen, cands, storeVars>> /\ NoFailure

Requeue(m) ==
    /\ mpc[m] = "requeue"
    /\ Push(job[m])
    /\ Leave(m, "idle")
    /\ UNCHANGED storeVars /\ NoFailure

(* SIGTERM only sets a flag, and the flag is only read between trips. *)
Drain(m) ==
    /\ mpc[m] = "idle" /\ Fail("sigterm")
    /\ Goto(m, "down")
    /\ UNCHANGED <<queue, storeVars>>

(* SIGKILL, OOM, node loss; also the push of Requeue raising, which leaves *)
(* run_forever and ends the process.                                       *)
Kill(m) ==
    /\ mpc[m] # "down" /\ Fail("sigkill")
    /\ Leave(m, "down")
    /\ UNCHANGED <<queue, storeVars>>

(* Kubernetes restarts the container. *)
Start(m) ==
    /\ mpc[m] = "down"
    /\ Goto(m, "idle")
    /\ UNCHANGED <<queue, storeVars>> /\ NoFailure

-----------------------------------------------------------------------------
(* match_once                                                              *)

(* store.get and the idempotence guard: a trip that is gone or has left    *)
(* REQUESTED is nobody's work.                                             *)
LoadDone(m) ==
    /\ mpc[m] = "load"
    /\ state[job[m]] # "requested"
    /\ Leave(m, "idle")
    /\ UNCHANGED <<queue, storeVars>> /\ NoFailure

(* Faulty: no idempotence guard. *)
FaultyLoad(m) ==
    /\ mpc[m] = "load"
    /\ \E s \in Nearby[job[m]] \ {<<>>} :
          /\ mpc' = [mpc EXCEPT ![m] = "claim"]
          /\ seen' = [seen EXCEPT ![m] = version[job[m]]]
          /\ cands' = [cands EXCEPT ![m] = FirstAttempts(s)]
    /\ UNCHANGED <<job, queue, storeVars>> /\ NoFailure

(* The trip is REQUESTED: ask geo.nearby.  No candidate means giving the   *)
(* trip up without putting it back.                                        *)
Load(m) ==
    /\ mpc[m] = "load"
    /\ state[job[m]] = "requested"
    /\ \E s \in Nearby[job[m]] :
          \/ s = <<>> /\ Leave(m, "idle")
          \/ /\ s # <<>>
             /\ mpc' = [mpc EXCEPT ![m] = "claim"]
             /\ seen' = [seen EXCEPT ![m] = version[job[m]]]
             /\ cands' = [cands EXCEPT ![m] = FirstAttempts(s)]
             /\ UNCHANGED job
    /\ UNCHANGED <<queue, storeVars>> /\ NoFailure

Claim(m) ==
    /\ mpc[m] = "claim"
    /\ InsertClaim(Tried(m), job[m])
    /\ Goto(m, "held")
    /\ UNCHANGED queue /\ NoFailure

(* Faulty: the loop falls through to quote with the last candidate. *)
FaultyClaimLost(m) ==
    /\ mpc[m] = "claim"
    /\ ClaimRefused(Tried(m), job[m])
    /\ IF Len(cands[m]) = 1
       THEN Goto(m, "held")
       ELSE /\ cands' = [cands EXCEPT ![m] = Tail(@)]
            /\ UNCHANGED <<mpc, job, seen>>
    /\ UNCHANGED <<queue, storeVars>> /\ NoFailure

(* DriverAlreadyClaimed, raised for either unique key: try the next one. *)
ClaimLost(m) ==
    /\ mpc[m] = "claim"
    /\ ClaimRefused(Tried(m), job[m])
    /\ IF Len(cands[m]) = 1
       THEN Leave(m, "idle")
       ELSE /\ cands' = [cands EXCEPT ![m] = Tail(@)]
            /\ UNCHANGED <<mpc, job, seen>>
    /\ UNCHANGED <<queue, storeVars>> /\ NoFailure

(* Faulty: the driver is released in a finally block. *)
FaultySave(m) ==
    /\ mpc[m] = "held"
    /\ UpdateMatch(job[m], seen[m], Tried(m))
    /\ Goto(m, "conflict")
    /\ UNCHANGED queue /\ NoFailure

Save(m) ==
    /\ mpc[m] = "held"
    /\ UpdateMatch(job[m], seen[m], Tried(m))
    /\ Leave(m, "idle")
    /\ UNCHANGED queue /\ NoFailure

(* ConcurrentUpdate: no row had the version we read. *)
SaveConflict(m) ==
    /\ mpc[m] = "held"
    /\ ~VersionMatches(job[m], seen[m])
    /\ Goto(m, "conflict")
    /\ UNCHANGED <<queue, storeVars>> /\ NoFailure

(* release_driver in either handler; ConcurrentUpdate returns, any other   *)
(* exception is raised again.                                              *)
Release(m) ==
    /\ mpc[m] \in {"conflict", "abort"}
    /\ DeleteClaim(Tried(m))
    /\ IF mpc[m] = "conflict" THEN Leave(m, "idle") ELSE Escape(m)
    /\ UNCHANGED queue /\ NoFailure

-----------------------------------------------------------------------------
(* What an exception does at each point of match_once                      *)

(* Before a claim, and out of claim_driver itself: nothing to undo. *)
RaiseUnheld(m) ==
    /\ mpc[m] \in {"load", "claim"} /\ Fail("db_error")
    /\ Escape(m)
    /\ UNCHANGED <<queue, storeVars>>

(* claim_driver committed and raised: the call is outside the try block. *)
ClaimUnacked(m) ==
    /\ mpc[m] = "claim" /\ Fail("ack_lost")
    /\ InsertClaim(Tried(m), job[m])
    /\ Escape(m)
    /\ UNCHANGED queue

(* Out of quote (other than RpcError) or of save_match: except Exception. *)
RaiseHeld(m) ==
    /\ mpc[m] = "held" /\ Fail("db_error")
    /\ Goto(m, "abort")
    /\ UNCHANGED <<queue, storeVars>>

SaveUnacked(m) ==
    /\ mpc[m] = "held" /\ Fail("ack_lost")
    /\ UpdateMatch(job[m], seen[m], Tried(m))
    /\ Goto(m, "abort")
    /\ UNCHANGED queue

(* The release raises inside the handler: the claim row stays. *)
ReleaseFails(m) ==
    /\ mpc[m] \in {"conflict", "abort"} /\ Fail("db_error")
    /\ Escape(m)
    /\ UNCHANGED <<queue, storeVars>>

(* The release lands and the call raises, or the re-read after it does. *)
ReleaseUnacked(m) ==
    /\ \/ mpc[m] \in {"conflict", "abort"} /\ Fail("ack_lost")
       \/ mpc[m] = "conflict" /\ Fail("db_error")
    /\ DeleteClaim(Tried(m))
    /\ Escape(m)
    /\ UNCHANGED queue

-----------------------------------------------------------------------------
MatcherStep(m) ==
    \/ Take(m) \/ Requeue(m) \/ Start(m)
    \/ LoadDone(m) \/ Load(m) \/ Claim(m) \/ ClaimLost(m)
    \/ Save(m) \/ SaveConflict(m) \/ Release(m)

MatcherFails(m) ==
    \/ Drain(m) \/ Kill(m)
    \/ RaiseUnheld(m) \/ ClaimUnacked(m) \/ RaiseHeld(m) \/ SaveUnacked(m)
    \/ ReleaseFails(m) \/ ReleaseUnacked(m)
=============================================================================
