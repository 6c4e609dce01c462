------------------------------- MODULE Reaper -------------------------------
(***************************************************************************)
(* dispatch/reaper.py: two sweeps on a timer.  sweep_stranded_trips pushes *)
(* the ids of old REQUESTED trips back on the queue;                       *)
(* sweep_orphaned_claims releases the drivers of old claims whose trip is  *)
(* not live.                                                               *)
(*                                                                         *)
(* sweep_orphaned_claims opens its cursor on store._conn, and the TripStore*)
(* of this repository, pooled since its load test, has no such attribute:  *)
(* the sweep raises AttributeError before it reads anything, and           *)
(* run_forever swallows it.  HasConn = FALSE is that code.  HasConn = TRUE *)
(* gives the reaper a store with the attribute it was written for, to      *)
(* check what the two sweeps achieve when both run.                        *)
(*                                                                         *)
(* Ages: a trip is old once created_ms is STRANDED_TRIP_MS behind, so the  *)
(* old trips are those up to an advancing cutoff.  A claim may become      *)
(* older than ORPHANED_CLAIM_MS at any time, under a running matcher too:  *)
(* a match waits for pools, locks and pricing, and nothing bounds it.      *)
(***************************************************************************)
EXTENDS Matcher

CONSTANTS
    SweepLimit,     \* LIMIT of stale_matched_trips
    BacklogCap,     \* bound: no sweep starts over a longer queue
    HasConn         \* whether the store has the attribute _conn

ASSUME ReaperAssumption ==
    /\ SweepLimit \in Nat /\ BacklogCap \in Nat
    /\ HasConn \in BOOLEAN

VARIABLES
    cutoff,     \* trips 1..cutoff are older than STRANDED_TRIP_MS
    rpc,        \* where the reaper stands
    stranded,   \* trips selected and not yet pushed
    orphans,    \* drivers selected and not yet released
    aged,       \* claims older than ORPHANED_CLAIM_MS
    stalled     \* history, for properties only: drivers whose claim grew
                \* old while a running matcher was working under it

ageVars    == <<aged, stalled>>
reaperVars == <<cutoff, rpc, stranded, orphans>>

ReaperTypeOK ==
    /\ cutoff \in 0..MaxTrips
    /\ rpc \in {"sleep", "push", "release"}
    /\ stranded \subseteq Trips
    /\ orphans \subseteq Drivers
    /\ aged \subseteq claims
    /\ stalled \subseteq Drivers

ReaperInit ==
    /\ cutoff = 0 /\ rpc = "sleep" /\ stranded = {} /\ orphans = {}
    /\ aged = {} /\ stalled = {}

(* Faulty: what the name of stale_matched_trips says. *)
FaultyOldRequested == {t \in Trips : t <= cutoff /\ state[t] = "matched"}

OldRequested == {t \in Trips : t <= cutoff /\ state[t] = "requested"}

(* Faulty: LIMIT and OFFSET confused. *)
FaultyStaleMatchedTrips ==
    {t \in OldRequested : Cardinality({u \in OldRequested : u < t}) >= SweepLimit}

(* ORDER BY created_ms LIMIT n *)
StaleMatchedTrips ==
    {t \in OldRequested : Cardinality({u \in OldRequested : u < t}) < SweepLimit}

WorkedOn(c) ==
    \E m \in Matchers : mpc[m] \in Holding /\ <<Tried(m), job[m]>> = c

(* Faulty: only dead trips, as in INVARIANT 3 of chaos/verify.py; any age. *)
FaultyOrphanedOfDead == {c \in aged : IsTerminal(state[c[2]])}

FaultyOrphanedYoung == {c \in claims : state[c[2]] \notin LiveStates}

OrphanedClaims == {c \in aged : state[c[2]] \notin LiveStates}

-----------------------------------------------------------------------------
(* Time: one more claim is ORPHANED_CLAIM_MS old, which only a sweep with  *)
(* a connection would notice.                                              *)
ClaimGrowsOld(c) ==
    /\ HasConn /\ c \in claims \ aged
    /\ aged' = aged \cup {c}
    /\ stalled' = IF WorkedOn(c) THEN stalled \cup {c[1]} ELSE stalled
    /\ UNCHANGED <<reaperVars, queue, storeVars, matcherVars>>
    /\ NoFailure

(* Every other step; a row that is inserted again is young again. *)
KeepAges == aged' = aged \cap claims' /\ UNCHANGED stalled

(* One more trip id is STRANDED_TRIP_MS old. *)
GrowOld(mintedSoFar) ==
    /\ cutoff < mintedSoFar
    /\ cutoff' = cutoff + 1
    /\ UNCHANGED <<rpc, stranded, orphans, queue, storeVars, matcherVars>>
    /\ NoFailure

SweepStrandedTrips ==
    /\ rpc = "sleep" /\ Len(queue) <= BacklogCap
    /\ rpc' = "push"
    /\ stranded' = StaleMatchedTrips
    /\ UNCHANGED <<cutoff, orphans, queue, storeVars, matcherVars>>
    /\ NoFailure

PushStranded(t) ==
    /\ rpc = "push" /\ t \in stranded
    /\ \A u \in stranded : t <= u
    /\ Push(t)
    /\ stranded' = stranded \ {t}
    /\ UNCHANGED <<cutoff, rpc, orphans, storeVars, matcherVars>>
    /\ NoFailure

SweepOrphanedClaims ==
    /\ rpc = "push" /\ stranded = {}
    /\ orphans' = IF HasConn THEN {c[1] : c \in OrphanedClaims} ELSE {}
    /\ rpc' = IF orphans' = {} THEN "sleep" ELSE "release"
    /\ UNCHANGED <<cutoff, stranded, queue, storeVars, matcherVars>>
    /\ NoFailure

(* Faulty: the release is skipped, as if by a swallowed exception. *)
FaultyReleaseOrphan(d) ==
    /\ rpc = "release" /\ d \in orphans
    /\ orphans' = orphans \ {d}
    /\ rpc' = IF orphans' = {} THEN "sleep" ELSE "release"
    /\ UNCHANGED <<cutoff, stranded, queue, storeVars, matcherVars>>
    /\ NoFailure

ReleaseOrphan(d) ==
    /\ rpc = "release" /\ d \in orphans
    /\ DeleteClaim(d)
    /\ orphans' = orphans \ {d}
    /\ rpc' = IF orphans' = {} THEN "sleep" ELSE "release"
    /\ UNCHANGED <<cutoff, stranded, queue, matcherVars>>
    /\ NoFailure

(* An exception ends the sweep, or the process restarts: either way the    *)
(* selection is forgotten and the next sweep starts from the tables.       *)
SweepFails ==
    /\ rpc # "sleep" /\ Fail("sweep_failed")
    /\ rpc' = "sleep" /\ stranded' = {} /\ orphans' = {}
    /\ UNCHANGED <<cutoff, queue, storeVars, matcherVars>>

ReaperStep ==
    \/ SweepStrandedTrips
    \/ \E t \in Trips : PushStranded(t)
    \/ SweepOrphanedClaims
    \/ \E d \in Drivers : ReleaseOrphan(d)
=============================================================================
