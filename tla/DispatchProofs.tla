--------------------------- MODULE DispatchProofs ---------------------------
(***************************************************************************)
(* Proofs about Dispatch for any number of trips, drivers, keys, matchers, *)
(* handlers and callers, any answers of the geo index and any budget of    *)
(* failures.  The booking theorems hold until MySQL first raises out of a  *)
(* statement it committed; where the reaper can read claims (HasConn) they *)
(* speak of the drivers none of whose claims grew old under a running      *)
(* matcher, and where it cannot, as in this repository, of all drivers.    *)
(***************************************************************************)
EXTENDS DispatchTypes

-----------------------------------------------------------------------------
(* The inductive invariant.                                                *)

(* The two unique keys of driver_claims. *)
ClaimsUnique ==
    \A c, e \in claims : c[1] = e[1] \/ c[2] = e[2] => c = e

(* Before its match a trip has no driver. *)
UnmatchedHasNoDriver ==
    \A t \in Trips : state[t] \in {"absent", "requested"} => driver[t] = NoDriver

(* A matcher's copy is of a REQUESTED row, and is stale or still right. *)
MatcherCopy ==
    \A m \in Matchers :
        mpc[m] \in {"claim", "held"} =>
            /\ seen[m] <= version[job[m]]
            /\ seen[m] = version[job[m]] => state[job[m]] = "requested"

(* So is a caller's copy of a row. *)
CallerCopy ==
    \A c \in Callers :
        LET v == view[c] IN
        v # NoView =>
            /\ v.version <= version[v.trip]
            /\ v.version = version[v.trip] =>
                  v.state = state[v.trip] /\ v.driver = driver[v.trip]

(* The rest is said of spared drivers only: a claim that grew old under a  *)
(* running matcher may be swept, and its driver is anybody's from then on. *)

(* On a live trip he has the claim for it. *)
LiveKept ==
    \A t \in Trips :
        Live(t) /\ driver[t] \in Spared => <<driver[t], t>> \in claims

(* A matcher that holds him owns the claim. *)
HeldKept ==
    \A m \in Matchers :
        mpc[m] \in Holding /\ Tried(m) \in Spared => <<Tried(m), job[m]>> \in claims

(* He is not yet on the trip he is held for. *)
HeldNotDriving ==
    \A m \in Matchers :
        mpc[m] \in Holding /\ Tried(m) \in Spared =>
            ~(Live(job[m]) /\ driver[job[m]] = Tried(m))

(* No two matchers hold him. *)
HoldersDiffer ==
    \A m, n \in Matchers :
        /\ mpc[m] \in Holding /\ mpc[n] \in Holding
        /\ Tried(m) = Tried(n) /\ Tried(m) \in Spared
        => m = n

(* Selected for release, he is claimed, idle and in nobody's hands. *)
OrphansIdle ==
    \A d \in orphans \cap Spared :
        /\ \E t \in Trips : <<d, t>> \in claims
        /\ \A t \in Trips : Live(t) => driver[t] # d
        /\ \A m \in Matchers : mpc[m] \in Holding => Tried(m) # d

Booking ==
    /\ ClaimsUnique
    /\ UnmatchedHasNoDriver
    /\ MatcherCopy
    /\ CallerCopy
    /\ LiveKept
    /\ HeldKept
    /\ HeldNotDriving
    /\ HoldersDiffer
    /\ OrphansIdle

(* An old claim of his has no matcher behind it: a matcher's claim is new  *)
(* when it is made, and its growing old under him makes him stalled.       *)
AgedIdle == \A c \in aged : c[1] \in Spared => ~WorkedOn(c)

IInv == TypeOK /\ AgedIdle /\ Booking

(* So far no MySQL call that raised had committed. *)
Acked == failures["ack_lost"] = 0

(* The one thing asked of MySQL: a call that raises never has committed. *)
NoAckLoss == Budget["ack_lost"] = 0

-----------------------------------------------------------------------------
(* What each way of leaving a control point does to the other matchers.    *)

Same(n) ==
    /\ mpc'[n] = mpc[n] /\ job'[n] = job[n]
    /\ seen'[n] = seen[n] /\ cands'[n] = cands[n]

OthersSame(m) == \A n \in Matchers : n # m => Same(n)

LEMMA LeaveOthers ==
    ASSUME MatcherTypeOK, NEW m \in Matchers, NEW pc, Leave(m, pc)
    PROVE  OthersSame(m) /\ mpc'[m] = pc
  BY DEF MatcherTypeOK, Leave, OthersSame, Same

LEMMA GotoOthers ==
    ASSUME MatcherTypeOK, NEW m \in Matchers, NEW pc, Goto(m, pc)
    PROVE  OthersSame(m) /\ mpc'[m] = pc /\ job' = job /\ seen' = seen /\ cands' = cands
  BY DEF MatcherTypeOK, Goto, OthersSame, Same

LEMMA EscapeOthers ==
    ASSUME MatcherTypeOK, NEW m \in Matchers, Escape(m)
    PROVE  OthersSame(m) /\ mpc'[m] = "requeue"
  BY DEF MatcherTypeOK, Escape, OthersSame, Same

LEMMA AllSame ==
    ASSUME UNCHANGED matcherVars
    PROVE  \A n \in Matchers : Same(n)
  BY DEF matcherVars, Same

-----------------------------------------------------------------------------
(* Failures are only ever counted up, one at a time.                       *)

LEMMA FailCounts ==
    ASSUME FailuresTypeOK, NEW k \in FailureKinds, Fail(k)
    PROVE  /\ failures[k] \in Nat /\ failures'[k] = failures[k] + 1
           /\ failures[k] < Budget[k] /\ failures'[k] # 0
           /\ \A j \in FailureKinds : j # k => failures'[j] = failures[j]
  BY DEF FailuresTypeOK, Fail

LEMMA FailsOrNot == [Next]_vars => NoFailure \/ \E k \in FailureKinds : Fail(k)
  <1> SUFFICES ASSUME [Next]_vars PROVE NoFailure \/ \E k \in FailureKinds : Fail(k)
    OBVIOUS
  <1>1. CASE RequestArrives
    BY <1>1 DEF RequestArrives, RequestRide
  <1>2. ASSUME NEW h \in Handlers, HandlerMoves(h) PROVE NoFailure
    BY <1>2 DEF HandlerMoves, HandlerStep, CreateTrip, CreateCollides, Replay, Accept
  <1>3. ASSUME NEW m \in Matchers, MatcherMoves(m) PROVE NoFailure
    BY <1>3 DEF MatcherMoves, MatcherStep, Take, Requeue, Start, LoadDone, Load,
                Claim, ClaimLost, Save, SaveConflict, Release
  <1>4. CASE ReaperMoves
    BY <1>4 DEF ReaperMoves, ReaperStep, SweepStrandedTrips, PushStranded,
                SweepOrphanedClaims, ReleaseOrphan
  <1>5. ASSUME NEW c \in Callers, CallerMoves(c) PROVE NoFailure
    BY <1>5 DEF CallerMoves, CallerStep, ReadTrip, AdvanceTrip, AdvanceConflict
  <1>6. CASE TimePasses
    BY <1>6 DEF TimePasses, TripAges, GrowOld, ClaimAges, ClaimGrowsOld
  <1>7. CASE ProcessFails
    BY <1>7 DEF ProcessFails, MatcherFails, Drain, Kill, RaiseUnheld, ClaimUnacked,
                RaiseHeld, SaveUnacked, ReleaseFails, ReleaseUnacked,
                HandlerDies, SweepFails, QueueLost, FailureKinds
  <1>8. CASE UNCHANGED vars
    BY <1>8 DEF vars, NoFailure
  <1> QED
    BY <1>1, <1>2, <1>3, <1>4, <1>5, <1>6, <1>7, <1>8 DEF Next

LEMMA FailuresGrow ==
    ASSUME TypeOK, [Next]_vars
    PROVE  \A k \in FailureKinds : failures'[k] = 0 => failures[k] = 0
  <1>1. CASE NoFailure
    BY <1>1 DEF NoFailure
  <1>2. ASSUME NEW j \in FailureKinds, Fail(j)
        PROVE  \A k \in FailureKinds : failures'[k] = 0 => failures[k] = 0
    BY <1>2, FailCounts DEF TypeOK
  <1> QED
    BY <1>1, <1>2, FailsOrNot

-----------------------------------------------------------------------------
(* An old claim acquires no matcher.                                       *)

LEMMA InitAged == Init => AgedIdle
  BY DEF Init, ReaperInit, AgedIdle

(* A step of m concerns no other matcher, and after it m holds what it held*)
(* before, or a driver who was free.                                       *)
LEMMA HeldOrFree ==
    ASSUME MatcherTypeOK, NEW m \in Matchers, MatcherStep(m) \/ MatcherFails(m)
    PROVE  /\ OthersSame(m)
           /\ mpc'[m] \in Holding =>
                 /\ job'[m] = job[m] /\ cands'[m] = cands[m]
                 /\ mpc[m] \in Holding \/ ~ClaimRefused(Tried(m), job[m])
  <1> USE DEF Holding
  <1>1. CASE Take(m)
    BY <1>1 DEF Take, MatcherTypeOK, OthersSame, Same
  <1>2. CASE Requeue(m) \/ LoadDone(m) \/ Save(m) \/ Kill(m)
    BY <1>2, LeaveOthers DEF Requeue, LoadDone, Save, Kill
  <1>3. CASE Start(m) \/ Drain(m)
    BY <1>3, GotoOthers DEF Start, Drain
  <1>4. CASE Load(m)
    <2>1. CASE Leave(m, "idle")
      BY <2>1, LeaveOthers
    <2>2. CASE /\ mpc' = [mpc EXCEPT ![m] = "claim"]
               /\ seen' = [seen EXCEPT ![m] = version[job[m]]]
               /\ UNCHANGED job
               /\ \E s \in Nearby[job[m]] :
                     cands' = [cands EXCEPT ![m] = FirstAttempts(s)]
      BY <2>2 DEF MatcherTypeOK, OthersSame, Same
    <2> QED
      BY <1>4, <2>1, <2>2 DEF Load
  <1>5. CASE Claim(m)
    BY <1>5, GotoOthers DEF Claim, InsertClaim
  <1>6. CASE ClaimLost(m)
    <2>1. CASE Leave(m, "idle")
      BY <2>1, LeaveOthers
    <2>2. CASE cands' = [cands EXCEPT ![m] = Tail(@)] /\ UNCHANGED <<mpc, job, seen>>
      BY <1>6, <2>2 DEF ClaimLost, MatcherTypeOK, OthersSame, Same
    <2> QED
      BY <1>6, <2>1, <2>2 DEF ClaimLost
  <1>7. CASE SaveConflict(m) \/ RaiseHeld(m) \/ SaveUnacked(m)
    BY <1>7, GotoOthers DEF SaveConflict, RaiseHeld, SaveUnacked
  <1>8. CASE Release(m)
    BY <1>8, LeaveOthers, EscapeOthers DEF Release
  <1>9. CASE RaiseUnheld(m) \/ ClaimUnacked(m) \/ ReleaseFails(m) \/ ReleaseUnacked(m)
    BY <1>9, EscapeOthers DEF RaiseUnheld, ClaimUnacked, ReleaseFails, ReleaseUnacked
  <1> QED
    BY <1>1, <1>2, <1>3, <1>4, <1>5, <1>6, <1>7, <1>8, <1>9 DEF MatcherStep, MatcherFails

(* So a matcher works under an existing claim only if it did before. *)
LEMMA NobodyTakesOver ==
    ASSUME MatcherTypeOK, NEW m \in Matchers, MatcherStep(m) \/ MatcherFails(m),
           NEW c \in claims, WorkedOn(c)'
    PROVE  WorkedOn(c)
  <1>1. PICK n \in Matchers : mpc'[n] \in Holding /\ <<Head(cands'[n]), job'[n]>> = c
    BY DEF WorkedOn, Tried
  <1>2. job'[n] = job[n] /\ cands'[n] = cands[n]
    BY <1>1, HeldOrFree DEF OthersSame, Same
  <1>3. ASSUME n = m, ~ClaimRefused(Tried(m), job[m]) PROVE FALSE
    BY <1>1, <1>2, <1>3 DEF ClaimRefused, Tried
  <1>4. mpc[n] \in Holding
    BY <1>1, <1>3, HeldOrFree DEF OthersSame, Same
  <1> QED
    BY <1>1, <1>2, <1>4 DEF WorkedOn, Tried

(* A claim grows old under nobody, or its driver is spared no longer. *)
LEMMA StepAged == TypeOK /\ AgedIdle /\ [Next]_vars => AgedIdle'
  <1> SUFFICES ASSUME TypeOK, AgedIdle, [Next]_vars,
                      NEW c \in aged', c[1] \in Spared', WorkedOn(c)'
               PROVE  FALSE
    BY DEF AgedIdle
  <1>0. MatcherTypeOK /\ aged \subseteq claims
    BY DEF TypeOK, ReaperTypeOK
  <1>a. ASSUME c \in aged, stalled \subseteq stalled', WorkedOn(c) PROVE FALSE
    BY <1>a DEF AgedIdle, Spared
  <1>b. ASSUME UNCHANGED matcherVars PROVE WorkedOn(c)
    BY <1>b DEF WorkedOn, Tried, matcherVars
  <1>c. ASSUME KeepAges PROVE c \in aged /\ c \in claims /\ stalled \subseteq stalled'
    BY <1>0, <1>c DEF KeepAges
  <1>1. CASE KeepAges /\ UNCHANGED matcherVars
    BY <1>1, <1>a, <1>b, <1>c
  <1>2. ASSUME KeepAges, NEW m \in Matchers, MatcherStep(m) \/ MatcherFails(m) PROVE FALSE
    BY <1>0, <1>2, <1>a, <1>c, NobodyTakesOver
  <1>3. CASE ClaimAges
    <2>1. PICK e \in claims : ClaimGrowsOld(e)
      BY <1>3 DEF ClaimAges
    <2>2. UNCHANGED matcherVars /\ stalled \subseteq stalled'
      BY <2>1 DEF ClaimGrowsOld
    <2>3. c # e
      BY <1>b, <2>1, <2>2 DEF ClaimGrowsOld, Spared
    <2> QED
      BY <1>a, <1>b, <2>1, <2>2, <2>3 DEF ClaimGrowsOld
  <1>4. CASE RequestArrives
    BY <1>1, <1>4 DEF RequestArrives
  <1>5. ASSUME NEW h \in Handlers, HandlerMoves(h) PROVE FALSE
    BY <1>1, <1>5 DEF HandlerMoves
  <1>6. ASSUME NEW m \in Matchers, MatcherMoves(m) PROVE FALSE
    BY <1>2, <1>6 DEF MatcherMoves
  <1>7. CASE ReaperMoves
    BY <1>1, <1>7 DEF ReaperMoves, ReaperStep, SweepStrandedTrips, PushStranded,
                      SweepOrphanedClaims, ReleaseOrphan
  <1>8. ASSUME NEW d \in Callers, CallerMoves(d) PROVE FALSE
    BY <1>1, <1>8 DEF CallerMoves
  <1>9. CASE TimePasses
    BY <1>1, <1>3, <1>9 DEF TimePasses, TripAges, GrowOld
  <1>10. CASE ProcessFails
    BY <1>1, <1>2, <1>10 DEF ProcessFails, SweepFails, QueueLost
  <1>11. CASE UNCHANGED vars
    BY <1>0, <1>1, <1>11 DEF vars, ageVars, storeVars, KeepAges
  <1> QED
    BY <1>4, <1>5, <1>6, <1>7, <1>8, <1>9, <1>10, <1>11 DEF Next

-----------------------------------------------------------------------------
(* Steps that leave the database alone.                                    *)

(* Nothing the invariant speaks of changes. *)
LEMMA NothingHappens ==
    ASSUME Booking, UNCHANGED <<storeVars, matcherVars, view, orphans>>,
           stalled \subseteq stalled'
    PROVE  Booking'
  BY DEF Booking, storeVars, matcherVars, ClaimsUnique, UnmatchedHasNoDriver,
         MatcherCopy, CallerCopy, LiveKept, HeldKept,
         HeldNotDriving, HoldersDiffer, OrphansIdle, Spared, Live, Tried

(* A matcher steps back from its trip, keeping nothing. *)
LEMMA MatcherLetsGo ==
    ASSUME Booking, NEW m \in Matchers, OthersSame(m),
           mpc'[m] \notin Holding \cup {"claim"},
           UNCHANGED <<storeVars, view, orphans, stalled>>
    PROVE  Booking'
  <1> USE DEF OthersSame, Same, Spared
  <1>1. (ClaimsUnique /\ UnmatchedHasNoDriver /\ CallerCopy /\ LiveKept)'
    BY DEF Booking, storeVars, ClaimsUnique, UnmatchedHasNoDriver, CallerCopy,
           LiveKept, Live
  <1>2. MatcherCopy'
    BY DEF Booking, storeVars, MatcherCopy, Holding
  <1>3. (HeldKept /\ HeldNotDriving)'
    BY DEF Booking, storeVars, HeldKept, HeldNotDriving, Live, Tried
  <1>4. HoldersDiffer'
    BY DEF Booking, HoldersDiffer, Tried
  <1>5. OrphansIdle'
    BY DEF Booking, storeVars, OrphansIdle, Live, Tried
  <1> QED
    BY <1>1, <1>2, <1>3, <1>4, <1>5 DEF Booking

(* A matcher that holds a claim goes to a handler that will release it. *)
LEMMA MatcherAborts ==
    ASSUME Booking, MatcherTypeOK, NEW m \in Matchers,
           NEW pc \in {"conflict", "abort"}, mpc[m] = "held", Goto(m, pc),
           UNCHANGED <<storeVars, view, orphans, stalled>>
    PROVE  Booking'
  <1>1. /\ OthersSame(m) /\ mpc'[m] = pc
        /\ job' = job /\ seen' = seen /\ cands' = cands
    BY GotoOthers
  <1>2. \A n \in Matchers : mpc'[n] \in Holding <=> mpc[n] \in Holding
    BY <1>1 DEF OthersSame, Same, Holding
  <1>3. \A n \in Matchers : mpc'[n] \in {"claim", "held"} => mpc[n] \in {"claim", "held"}
    BY <1>1 DEF OthersSame, Same
  <1> QED
    BY <1>1, <1>2, <1>3
       DEF Booking, storeVars, ClaimsUnique, UnmatchedHasNoDriver, MatcherCopy,
           CallerCopy, LiveKept, HeldKept,
           HeldNotDriving, HoldersDiffer, OrphansIdle, Spared, Live, Tried

(* A matcher looks at a trip, or moves on to its next candidate. *)
LEMMA MatcherTries ==
    ASSUME Booking, NEW m \in Matchers, OthersSame(m), mpc'[m] = "claim",
           seen'[m] <= version[job'[m]],
           seen'[m] = version[job'[m]] => state[job'[m]] = "requested",
           UNCHANGED <<storeVars, view, orphans, stalled>>
    PROVE  Booking'
  <1> USE DEF OthersSame, Same, Spared
  <1>1. (ClaimsUnique /\ UnmatchedHasNoDriver /\ CallerCopy /\ LiveKept)'
    BY DEF Booking, storeVars, ClaimsUnique, UnmatchedHasNoDriver, CallerCopy,
           LiveKept, Live
  <1>2. MatcherCopy'
    BY DEF Booking, storeVars, MatcherCopy
  <1>3. mpc'[m] \notin Holding
    BY DEF Holding
  <1>4. (HeldKept /\ HeldNotDriving)'
    BY <1>3 DEF Booking, storeVars, HeldKept, HeldNotDriving, Live, Tried
  <1>5. HoldersDiffer'
    BY <1>3 DEF Booking, HoldersDiffer, Tried
  <1>6. OrphansIdle'
    BY <1>3 DEF Booking, storeVars, OrphansIdle, Live, Tried
  <1> QED
    BY <1>1, <1>2, <1>4, <1>5, <1>6 DEF Booking

-----------------------------------------------------------------------------
(* Steps that write.                                                       *)

(* A driver without a claim is on no live trip, in no matcher's hands and  *)
(* not selected by the reaper, so claiming him disturbs nobody.            *)
LEMMA ClaimKeepsBooking ==
    ASSUME IInv, NEW m \in Matchers, Claim(m), UNCHANGED <<view, orphans, stalled>>
    PROVE  Booking'
  <1> DEFINE d == Tried(m)
  <1> DEFINE t == job[m]
  <1> USE DEF OthersSame, Same, Spared
  <1>0. MatcherTypeOK /\ Booking
    BY DEF IInv, TypeOK
  <1>1. /\ OthersSame(m) /\ mpc'[m] = "held"
        /\ job' = job /\ seen' = seen /\ cands' = cands
    BY <1>0, GotoOthers DEF Claim
  <1>2. mpc[m] = "claim" /\ t \in Trips /\ d \in Drivers
    BY <1>0, TriedType DEF Claim, MatcherTypeOK, Busy
  <1>3. /\ \A c \in claims : c[1] # d /\ c[2] # t
        /\ claims' = claims \cup {<<d, t>>}
        /\ state' = state /\ driver' = driver /\ version' = version
    BY DEF Claim, InsertClaim, ClaimRefused, tripRows
  <1>4. \A n \in Matchers : Tried(n)' = Tried(n)
    BY <1>1 DEF Tried
  <1> HIDE DEF d, t
  <1>5. ClaimsUnique'
    BY <1>0, <1>3 DEF Booking, ClaimsUnique
  <1>6. (UnmatchedHasNoDriver /\ CallerCopy /\ LiveKept)'
    BY <1>0, <1>3 DEF Booking, UnmatchedHasNoDriver, CallerCopy,
                      LiveKept, Live
  <1>7. MatcherCopy'
    BY <1>0, <1>1, <1>2, <1>3 DEF Booking, MatcherCopy
  <1>8. HeldKept'
    BY <1>0, <1>1, <1>3, <1>4 DEF Booking, HeldKept, d, t
  <1>9. HeldNotDriving'
    <2>1. d \in Spared => ~(Live(t) /\ driver[t] = d)
      BY <1>0, <1>2, <1>3, StoreAssumption DEF Booking, LiveKept
    <2> QED
      BY <1>0, <1>1, <1>3, <1>4, <2>1 DEF Booking, HeldNotDriving, Live, d, t
  <1>10. HoldersDiffer'
    <2>1. d \in Spared => \A n \in Matchers : mpc[n] \in Holding => Tried(n) # d
      BY <1>0, <1>3 DEF Booking, HeldKept
    <2> QED
      BY <1>0, <1>1, <1>4, <2>1 DEF Booking, HoldersDiffer, d
  <1>11. OrphansIdle'
    <2>1. d \notin orphans \cap Spared
      BY <1>0, <1>3 DEF Booking, OrphansIdle
    <2> QED
      BY <1>0, <1>1, <1>3, <1>4, <2>1 DEF Booking, OrphansIdle, Live, d
  <1> QED
    BY <1>5, <1>6, <1>7, <1>8, <1>9, <1>10, <1>11 DEF Booking

(* The save puts on the trip the driver its claim names; no other matcher  *)
(* holds that driver.                                                      *)
LEMMA SaveKeepsBooking ==
    ASSUME IInv, NEW m \in Matchers, Save(m), UNCHANGED <<view, orphans, stalled>>
    PROVE  Booking'
  <1> DEFINE d == Tried(m)
  <1> DEFINE t == job[m]
  <1> USE DEF OthersSame, Same, Spared
  <1>0. MatcherTypeOK /\ StoreTypeOK /\ Booking
    BY DEF IInv, TypeOK
  <1>1. OthersSame(m) /\ mpc'[m] = "idle" /\ mpc[m] \in Holding
    BY <1>0, LeaveOthers DEF Save, Holding
  <1>2. t \in Trips /\ d \in Drivers /\ (d \in Spared => <<d, t>> \in claims)
    BY <1>0, <1>1, TriedType
       DEF MatcherTypeOK, Busy, Holding, Booking, HeldKept
  <1>3. /\ \A u \in Trips : u # t => /\ state'[u] = state[u]
                                     /\ driver'[u] = driver[u]
                                     /\ version'[u] = version[u]
        /\ state'[t] = "matched" /\ driver'[t] = d
        /\ version'[t] = version[t] + 1 /\ version[t] \in Nat
        /\ claims' = claims
    BY <1>0, <1>2 DEF Save, UpdateMatch, StoreTypeOK
  <1>4. \A n \in Matchers : n # m => Tried(n)' = Tried(n)
    BY <1>1 DEF Tried
  <1>5. \A n \in Matchers :
           n # m /\ mpc[n] \in Holding /\ Tried(n) \in Spared => Tried(n) # d
    BY <1>0, <1>1, <1>2 DEF Booking, HoldersDiffer
  <1> HIDE DEF d, t
  <1>6. (ClaimsUnique /\ UnmatchedHasNoDriver)'
    BY <1>0, <1>3 DEF Booking, ClaimsUnique, UnmatchedHasNoDriver
  <1>7. LiveKept'
    BY <1>0, <1>2, <1>3 DEF Booking, LiveKept, Live
  <1>8. MatcherCopy'
    <2> SUFFICES ASSUME NEW n \in Matchers, mpc'[n] \in {"claim", "held"}
                 PROVE  /\ seen'[n] <= version'[job'[n]]
                        /\ seen'[n] = version'[job'[n]] => state'[job'[n]] = "requested"
      BY DEF MatcherCopy
    <2>1. n # m /\ Same(n) /\ job[n] \in Trips /\ seen[n] \in Nat
      BY <1>0, <1>1 DEF MatcherTypeOK, Busy, Holding
    <2>2. /\ seen[n] <= version[job[n]]
          /\ seen[n] = version[job[n]] => state[job[n]] = "requested"
      BY <1>0, <2>1 DEF Booking, MatcherCopy
    <2> QED
      BY <1>3, <2>1, <2>2
  <1>9. CallerCopy'
    <2> SUFFICES ASSUME NEW c \in Callers, view[c] # NoView
                 PROVE  /\ view[c].version <= version'[view[c].trip]
                        /\ view[c].version = version'[view[c].trip] =>
                              /\ view[c].state = state'[view[c].trip]
                              /\ view[c].driver = driver'[view[c].trip]
      BY DEF CallerCopy
    <2>1. view[c].trip \in Trips /\ view[c].version \in Nat
      BY DEF IInv, TypeOK, View
    <2>2. /\ view[c].version <= version[view[c].trip]
          /\ view[c].version = version[view[c].trip] =>
                /\ view[c].state = state[view[c].trip]
                /\ view[c].driver = driver[view[c].trip]
      BY <1>0 DEF Booking, CallerCopy
    <2> QED
      BY <1>3, <2>1, <2>2
  <1>10. (HeldKept /\ HoldersDiffer)'
    BY <1>0, <1>1, <1>3, <1>4
       DEF Booking, HeldKept, HoldersDiffer, Holding
  <1>11. HeldNotDriving'
    <2> SUFFICES ASSUME NEW n \in Matchers, mpc'[n] \in Holding, Tried(n)' \in Spared,
                        Live(job[n])', driver'[job'[n]] = Tried(n)'
                 PROVE  FALSE
      BY DEF HeldNotDriving, Live
    <2>1. n # m /\ Same(n) /\ mpc[n] \in Holding /\ job[n] \in Trips
      BY <1>0, <1>1 DEF Holding, MatcherTypeOK, Busy
    <2>2. Tried(n)' = Tried(n) /\ job[n] # t
      BY <1>3, <1>4, <1>5, <2>1
    <2> QED
      BY <1>0, <1>3, <2>1, <2>2 DEF Booking, HeldNotDriving, Live
  <1>12. OrphansIdle'
    <2>1. d \notin orphans \cap Spared
      BY <1>0, <1>1 DEF Booking, OrphansIdle, d
    <2> QED
      BY <1>0, <1>1, <1>3, <1>4, <2>1 DEF Booking, OrphansIdle, Live, Holding
  <1> QED
    BY <1>6, <1>7, <1>8, <1>9, <1>10, <1>11, <1>12 DEF Booking

(* Deleting the claim of a driver, by the matcher that holds him (and lets *)
(* go) or by the reaper.  Spared, he is on no live trip and in no other    *)
(* matcher's hands; of others the invariant says nothing.                  *)
LEMMA DeleteKeepsBooking ==
    ASSUME IInv, NEW d, DeleteClaim(d), UNCHANGED <<view, stalled>>,
           \A n \in Matchers :
              mpc'[n] \in Holding \cup {"claim"} => Same(n),
           orphans' \subseteq orphans,
           d \in Spared =>
              /\ \A t \in Trips : Live(t) => driver[t] # d
              /\ \A n \in Matchers : mpc'[n] \in Holding => Tried(n) # d
              /\ d \notin orphans'
    PROVE  Booking'
  <1> USE DEF Same, Spared
  <1>0. MatcherTypeOK /\ Booking
    BY DEF IInv, TypeOK
  <1>1. /\ claims' = {c \in claims : c[1] # d}
        /\ state' = state /\ driver' = driver /\ version' = version
    BY DEF DeleteClaim, tripRows
  <1>2. \A n \in Matchers : mpc'[n] \in Holding => Tried(n)' = Tried(n)
    BY DEF Tried
  <1>3. (ClaimsUnique /\ UnmatchedHasNoDriver /\ CallerCopy)'
    BY <1>0, <1>1 DEF Booking, ClaimsUnique, UnmatchedHasNoDriver, CallerCopy
  <1>4. LiveKept'
    BY <1>0, <1>1 DEF Booking, LiveKept, Live
  <1>5. MatcherCopy'
    BY <1>0, <1>1 DEF Booking, MatcherCopy, Holding
  <1>6. (HeldKept /\ HeldNotDriving /\ HoldersDiffer)'
    BY <1>0, <1>1, <1>2
       DEF Booking, HeldKept, HeldNotDriving, HoldersDiffer, Live
  <1>7. OrphansIdle'
    BY <1>0, <1>1, <1>2 DEF Booking, OrphansIdle, Live
  <1> QED
    BY <1>3, <1>4, <1>5, <1>6, <1>7 DEF Booking

(* A spared driver that a matcher holds is nobody else's and on no live    *)
(* trip.                                                                   *)
LEMMA HeldIsFree ==
    ASSUME IInv, NEW m \in Matchers, mpc[m] \in Holding, Tried(m) \in Spared
    PROVE  /\ <<Tried(m), job[m]>> \in claims
           /\ \A t \in Trips : Live(t) => driver[t] # Tried(m)
           /\ \A n \in Matchers : n # m /\ mpc[n] \in Holding => Tried(n) # Tried(m)
           /\ Tried(m) \notin orphans
  <1>1. MatcherTypeOK /\ Booking
    BY DEF IInv, TypeOK
  <1>2. <<Tried(m), job[m]>> \in claims
    BY <1>1 DEF Booking, HeldKept
  <1>3. \A t \in Trips : Live(t) => driver[t] # Tried(m)
    BY <1>1, <1>2 DEF Booking, LiveKept, ClaimsUnique, HeldNotDriving
  <1> QED
    BY <1>1, <1>2, <1>3 DEF Booking, HoldersDiffer, OrphansIdle

LEMMA ReleaseKeepsBooking ==
    ASSUME IInv, NEW m \in Matchers, mpc[m] \in Holding,
           DeleteClaim(Tried(m)), OthersSame(m), mpc'[m] \notin Holding \cup {"claim"},
           UNCHANGED <<view, orphans, stalled>>
    PROVE  Booking'
  <1>1. \A n \in Matchers : mpc'[n] \in Holding \cup {"claim"} => n # m /\ Same(n)
    BY DEF OthersSame
  <1>2. Tried(m) \in Spared =>
           /\ \A t \in Trips : Live(t) => driver[t] # Tried(m)
           /\ \A n \in Matchers : mpc'[n] \in Holding => Tried(n) # Tried(m)
           /\ Tried(m) \notin orphans'
    BY <1>1, HeldIsFree DEF Same
  <1> HIDE DEF Tried
  <1> QED
    BY <1>1, <1>2, DeleteKeepsBooking

(* A new row has no driver and no copy of it exists. *)
LEMMA CreateKeepsBooking ==
    ASSUME IInv, NEW t \in Trips, NEW k, InsertTrip(t, k),
           UNCHANGED <<matcherVars, view, orphans, stalled>>
    PROVE  Booking'
  <1> USE DEF Spared
  <1>0. StoreTypeOK /\ MatcherTypeOK /\ Booking
    BY DEF IInv, TypeOK
  <1>1. /\ state[t] = "absent" /\ state'[t] = "requested"
        /\ \A u \in Trips : u # t => state'[u] = state[u]
        /\ driver' = driver /\ version' = version /\ claims' = claims
    BY <1>0 DEF InsertTrip, InsertRefused, StoreTypeOK
  <1>2. \A u \in Trips : Live(u)' => Live(u)
    BY <1>1 DEF Live, LiveStates
  <1>3. \A n \in Matchers : Tried(n)' = Tried(n)
    BY DEF matcherVars, Tried
  <1>4. ClaimsUnique' /\ UnmatchedHasNoDriver'
    BY <1>0, <1>1 DEF Booking, ClaimsUnique, UnmatchedHasNoDriver
  <1>5. MatcherCopy'
    <2>1. \A n \in Matchers : mpc[n] \in {"claim", "held"} => job[n] \in Trips
      BY <1>0 DEF MatcherTypeOK, Busy, Holding
    <2> QED
      BY <1>0, <1>1, <2>1 DEF Booking, MatcherCopy, matcherVars
  <1>6. CallerCopy'
    <2>1. \A c \in Callers : view[c] # NoView =>
              view[c].trip \in Trips /\ view[c].state # "absent"
      BY DEF IInv, TypeOK, View, TripStates
    <2> QED
      BY <1>0, <1>1, <2>1 DEF Booking, CallerCopy
  <1>7. LiveKept'
    BY <1>0, <1>1, <1>2 DEF Booking, LiveKept
  <1>8. (HeldKept /\ HeldNotDriving /\ HoldersDiffer)'
    <2>1. \A n \in Matchers : mpc[n] \in Holding => job[n] \in Trips
      BY <1>0 DEF MatcherTypeOK, Busy
    <2>2. (HeldKept /\ HoldersDiffer)'
      BY <1>0, <1>1, <1>3
         DEF Booking, HeldKept, HoldersDiffer, matcherVars
    <2>3. HeldNotDriving'
      BY <1>0, <1>1, <1>2, <1>3, <2>1
         DEF Booking, HeldNotDriving, matcherVars, Live, LiveStates
    <2> QED
      BY <2>2, <2>3
  <1>9. OrphansIdle'
    BY <1>0, <1>1, <1>2, <1>3 DEF Booking, OrphansIdle, matcherVars
  <1> QED
    BY <1>4, <1>5, <1>6, <1>7, <1>8, <1>9 DEF Booking

(* A caller whose UPDATE matched has the row as it is: if it names a driver*)
(* the trip is live with that driver.                                      *)
LEMMA AdvanceKeepsBooking ==
    ASSUME IInv, NEW c \in Callers, NEW dst \in TripStates, AdvanceTrip(c, dst),
           UNCHANGED <<matcherVars, orphans, stalled>>
    PROVE  Booking'
  <1> DEFINE t == view[c].trip
  <1> DEFINE d == view[c].driver
  <1> USE DEF Spared
  <1>0. StoreTypeOK /\ MatcherTypeOK /\ Booking
    BY DEF IInv, TypeOK
  <1>1. /\ t \in Trips /\ view[c] # NoView
        /\ view[c].state = state[t] /\ d = driver[t]
        /\ CanTransition(state[t], dst)
    BY <1>0 DEF AdvanceTrip, UpdateState, VersionMatches, IInv, TypeOK, View,
                Booking, CallerCopy
  <1>2. /\ \A u \in Trips : u # t => state'[u] = state[u] /\ version'[u] = version[u]
        /\ state'[t] = dst /\ driver' = driver
        /\ version'[t] = version[t] + 1 /\ version[t] \in Nat
        /\ claims' = IF dst \in {"complete", "cancelled"} /\ d # NoDriver
                     THEN claims \ {<<d, t>>} ELSE claims
    BY <1>0, <1>1 DEF AdvanceTrip, UpdateState, StoreTypeOK
  <1>3. /\ dst \in {"matched", "en_route", "complete", "cancelled"}
        /\ state[t] \in {"requested", "matched", "en_route"}
        /\ dst \in LiveStates => dst \notin {"complete", "cancelled"}
    BY <1>1 DEF CanTransition, Allowed, LiveStates
  <1>4. d # NoDriver => Live(t)
    BY <1>0, <1>1, <1>3 DEF Booking, UnmatchedHasNoDriver, Live, LiveStates
  <1>5. \A n \in Matchers : Tried(n)' = Tried(n)
    BY DEF matcherVars, Tried
  <1>6. \A u \in Trips : Live(u)' /\ driver[u] # NoDriver => Live(u)
    BY <1>1, <1>2, <1>4 DEF Live
  <1> HIDE DEF t, d
  <1>7. ClaimsUnique' /\ UnmatchedHasNoDriver'
    BY <1>0, <1>1, <1>2, <1>3 DEF Booking, ClaimsUnique, UnmatchedHasNoDriver
  <1>8. MatcherCopy'
    <2> SUFFICES ASSUME NEW n \in Matchers, mpc[n] \in {"claim", "held"}
                 PROVE  /\ seen[n] <= version'[job[n]]
                        /\ seen[n] = version'[job[n]] => state'[job[n]] = "requested"
      BY DEF MatcherCopy, matcherVars
    <2>1. job[n] \in Trips /\ seen[n] \in Nat
      BY <1>0 DEF MatcherTypeOK, Busy, Holding
    <2>2. /\ seen[n] <= version[job[n]]
          /\ seen[n] = version[job[n]] => state[job[n]] = "requested"
      BY <1>0 DEF Booking, MatcherCopy
    <2> QED
      BY <1>2, <2>1, <2>2
  <1>9. CallerCopy'
    <2> SUFFICES ASSUME NEW e \in Callers, view'[e] # NoView
                 PROVE  /\ view'[e].version <= version'[view'[e].trip]
                        /\ view'[e].version = version'[view'[e].trip] =>
                              /\ view'[e].state = state'[view'[e].trip]
                              /\ view'[e].driver = driver'[view'[e].trip]
      BY DEF CallerCopy
    <2>1. e # c /\ view'[e] = view[e]
      BY DEF AdvanceTrip, IInv, TypeOK
    <2>2. view[e].trip \in Trips /\ view[e].version \in Nat
      BY <2>1 DEF IInv, TypeOK, View
    <2>3. /\ view[e].version <= version[view[e].trip]
          /\ view[e].version = version[view[e].trip] =>
                /\ view[e].state = state[view[e].trip]
                /\ view[e].driver = driver[view[e].trip]
      BY <1>0, <2>1 DEF Booking, CallerCopy
    <2> QED
      BY <1>2, <2>1, <2>2, <2>3
  <1>10. LiveKept'
    <2> SUFFICES ASSUME NEW u \in Trips, Live(u)', driver[u] \in Spared
                 PROVE  <<driver[u], u>> \in claims'
      BY <1>2 DEF LiveKept
    <2>1. <<driver[u], u>> \in claims
      BY <1>0, <1>6, StoreAssumption DEF Booking, LiveKept
    <2>2. u = t => claims' = claims
      BY <1>2, <1>3 DEF Live
    <2> QED
      BY <1>2, <2>1, <2>2
  <1>11. (HeldKept /\ HeldNotDriving)'
    <2> SUFFICES ASSUME NEW n \in Matchers, mpc[n] \in Holding, Tried(n) \in Spared
                 PROVE  /\ <<Tried(n), job[n]>> \in claims'
                        /\ ~(state'[job[n]] \in LiveStates /\ driver[job[n]] = Tried(n))
      BY <1>2, <1>5 DEF HeldKept, HeldNotDriving, matcherVars, Live
    <2>1. /\ job[n] \in Trips
          /\ <<Tried(n), job[n]>> \in claims
          /\ \A u \in Trips : Live(u) => driver[u] # Tried(n)
      BY <1>0, HeldIsFree DEF MatcherTypeOK, Busy
    <2>2. Tried(n) # NoDriver
      BY StoreAssumption
    <2>3. <<Tried(n), job[n]>> # <<d, t>>
      BY <1>1, <1>4, <2>1, <2>2 DEF d
    <2> QED
      BY <1>2, <1>6, <2>1, <2>2, <2>3 DEF Live
  <1>12. HoldersDiffer'
    BY <1>0, <1>5 DEF Booking, HoldersDiffer, matcherVars
  <1>13. OrphansIdle'
    <2> SUFFICES ASSUME NEW o \in orphans \cap Spared
                 PROVE  /\ \E u \in Trips : <<o, u>> \in claims'
                        /\ \A u \in Trips : Live(u)' => driver[u] # o
                        /\ \A m \in Matchers : mpc[m] \in Holding => Tried(m) # o
      BY <1>2, <1>5 DEF OrphansIdle, matcherVars
    <2>1. /\ \E u \in Trips : <<o, u>> \in claims
          /\ \A u \in Trips : Live(u) => driver[u] # o
          /\ \A m \in Matchers : mpc[m] \in Holding => Tried(m) # o
      BY <1>0 DEF Booking, OrphansIdle
    <2>2. o # NoDriver
      BY StoreAssumption
    <2>3. o # d
      BY <1>1, <1>4, <2>1, <2>2 DEF d
    <2> QED
      BY <1>2, <1>6, <2>1, <2>2, <2>3
  <1> QED
    BY <1>7, <1>8, <1>9, <1>10, <1>11, <1>12, <1>13 DEF Booking

-----------------------------------------------------------------------------
(* One lemma per process.                                                  *)

LEMMA InitBooking == Init => IInv
  <1> SUFFICES ASSUME Init PROVE Booking
    BY InitType, InitAged DEF IInv
  <1>1. /\ state = [t \in Trips |-> "absent"] /\ claims = {}
        /\ driver = [t \in Trips |-> NoDriver]
        /\ mpc = [m \in Matchers |-> "idle"] /\ orphans = {}
        /\ view = [c \in Callers |-> NoView]
    BY DEF Init, StoreInit, MatcherInit, ReaperInit
  <1> QED
    BY <1>1 DEF Booking, ClaimsUnique, UnmatchedHasNoDriver, MatcherCopy,
                CallerCopy, LiveKept, HeldKept,
                HeldNotDriving, HoldersDiffer, OrphansIdle, Spared, Live, LiveStates,
                Holding

LEMMA MatcherMovesBooking ==
    ASSUME IInv, NEW m \in Matchers, MatcherStep(m), UNCHANGED <<view, orphans, stalled>>
    PROVE  Booking'
  <1>0. MatcherTypeOK /\ StoreTypeOK /\ Booking
    BY DEF IInv, TypeOK
  <1>a. ASSUME UNCHANGED storeVars, OthersSame(m), mpc'[m] \in {"idle", "down", "load"}
        PROVE  Booking'
    BY <1>0, <1>a, MatcherLetsGo DEF Holding
  <1>1. CASE Take(m)
    <2>1. OthersSame(m) /\ mpc'[m] = "load"
      BY <1>0, <1>1 DEF Take, MatcherTypeOK, OthersSame, Same
    <2> QED
      BY <1>1, <1>a, <2>1 DEF Take
  <1>2. CASE Requeue(m)
    BY <1>0, <1>2, <1>a, LeaveOthers DEF Requeue
  <1>3. CASE Start(m)
    BY <1>0, <1>3, <1>a, GotoOthers DEF Start
  <1>4. CASE LoadDone(m)
    BY <1>0, <1>4, <1>a, LeaveOthers DEF LoadDone
  <1>5. CASE Load(m)
    <2>1. CASE Leave(m, "idle")
      BY <1>0, <1>5, <1>a, <2>1, LeaveOthers DEF Load
    <2>2. CASE /\ mpc' = [mpc EXCEPT ![m] = "claim"]
               /\ seen' = [seen EXCEPT ![m] = version[job[m]]]
               /\ UNCHANGED job
               /\ \E s \in Nearby[job[m]] :
                     cands' = [cands EXCEPT ![m] = FirstAttempts(s)]
      <3>1. OthersSame(m) /\ mpc'[m] = "claim"
        BY <1>0, <2>2 DEF MatcherTypeOK, OthersSame, Same
      <3>2. /\ seen'[m] = version[job'[m]] /\ version[job'[m]] \in Nat
            /\ state[job'[m]] = "requested"
        BY <1>0, <1>5, <2>2 DEF Load, MatcherTypeOK, Busy, StoreTypeOK
      <3> QED
        BY <1>0, <1>5, <3>1, <3>2, MatcherTries DEF Load
    <2> QED
      BY <1>5, <2>1, <2>2 DEF Load
  <1>6. CASE Claim(m)
    BY <1>6, ClaimKeepsBooking
  <1>7. CASE ClaimLost(m)
    <2>1. CASE Leave(m, "idle")
      BY <1>0, <1>7, <1>a, <2>1, LeaveOthers DEF ClaimLost
    <2>2. CASE cands' = [cands EXCEPT ![m] = Tail(@)] /\ UNCHANGED <<mpc, job, seen>>
      <3>1. OthersSame(m) /\ mpc'[m] = "claim"
        BY <1>0, <1>7, <2>2 DEF ClaimLost, MatcherTypeOK, OthersSame, Same
      <3>2. /\ seen'[m] <= version[job'[m]]
            /\ seen'[m] = version[job'[m]] => state[job'[m]] = "requested"
        BY <1>0, <1>7, <2>2 DEF ClaimLost, Booking, MatcherCopy
      <3> QED
        BY <1>0, <1>7, <3>1, <3>2, MatcherTries DEF ClaimLost
    <2> QED
      BY <1>7, <2>1, <2>2 DEF ClaimLost
  <1>8. CASE Save(m)
    BY <1>8, SaveKeepsBooking
  <1>9. CASE SaveConflict(m)
    BY <1>0, <1>9, MatcherAborts DEF SaveConflict
  <1>10. CASE Release(m)
    <2>1. OthersSame(m) /\ mpc'[m] \notin Holding \cup {"claim"}
      BY <1>0, <1>10, LeaveOthers, EscapeOthers DEF Release, Holding
    <2> QED
      BY <1>10, <2>1, ReleaseKeepsBooking DEF Release, Holding
  <1> QED
    BY <1>1, <1>2, <1>3, <1>4, <1>5, <1>6, <1>7, <1>8, <1>9, <1>10 DEF MatcherStep

(* Without lost acknowledgements a failing matcher writes only to release. *)
LEMMA MatcherFailsBooking ==
    ASSUME Acked', IInv, NEW m \in Matchers, MatcherFails(m),
           UNCHANGED <<view, orphans, stalled>>
    PROVE  Booking'
  <1>0. MatcherTypeOK /\ Booking
    BY DEF IInv, TypeOK
  <1>1. ~Fail("ack_lost")
    BY FailCounts DEF IInv, TypeOK, Acked, FailureKinds
  <1>2. CASE Drain(m)
    BY <1>0, <1>2, GotoOthers, MatcherLetsGo DEF Drain, Holding
  <1>3. CASE Kill(m)
    BY <1>0, <1>3, LeaveOthers, MatcherLetsGo DEF Kill, Holding
  <1>4. CASE RaiseUnheld(m)
    BY <1>0, <1>4, EscapeOthers, MatcherLetsGo DEF RaiseUnheld, Holding
  <1>5. CASE RaiseHeld(m)
    BY <1>0, <1>5, MatcherAborts DEF RaiseHeld
  <1>6. CASE ReleaseFails(m)
    BY <1>0, <1>6, EscapeOthers, MatcherLetsGo DEF ReleaseFails, Holding
  <1>7. CASE ReleaseUnacked(m)
    <2>1. OthersSame(m) /\ mpc'[m] \notin Holding \cup {"claim"}
      BY <1>0, <1>7, EscapeOthers DEF ReleaseUnacked, Holding
    <2> QED
      BY <1>7, <2>1, ReleaseKeepsBooking DEF ReleaseUnacked, Holding
  <1> QED
    BY <1>1, <1>2, <1>3, <1>4, <1>5, <1>6, <1>7
       DEF MatcherFails, ClaimUnacked, SaveUnacked

LEMMA HandlerBooking ==
    ASSUME IInv, NEW h \in Handlers, HandlerStep(h),
           UNCHANGED <<matcherVars, view, orphans, stalled>>
    PROVE  Booking'
  <1>0. Booking
    BY DEF IInv
  <1>1. CASE CreateTrip(h)
    <2>1. atrip[h] \in Trips
      BY <1>1 DEF CreateTrip, IInv, TypeOK, ApiTypeOK
    <2> QED
      BY <1>1, <2>1, CreateKeepsBooking DEF CreateTrip
  <1>2. CASE CreateCollides(h) \/ Replay(h) \/ Accept(h)
    BY <1>0, <1>2, NothingHappens DEF CreateCollides, Replay, Accept
  <1> QED
    BY <1>1, <1>2 DEF HandlerStep

LEMMA ReaperBooking ==
    ASSUME IInv, ReaperStep, UNCHANGED <<view, stalled>>
    PROVE  Booking'
  <1>0. Booking /\ MatcherTypeOK /\ ReaperTypeOK
    BY DEF IInv, TypeOK
  <1>1. CASE SweepStrandedTrips
    BY <1>0, <1>1, NothingHappens DEF SweepStrandedTrips
  <1>2. ASSUME NEW t \in Trips, PushStranded(t) PROVE Booking'
    BY <1>0, <1>2, NothingHappens DEF PushStranded
  <1>3. CASE SweepOrphanedClaims
    <2>1. /\ orphans' \subseteq {c[1] : c \in OrphanedClaims}
          /\ UNCHANGED storeVars /\ UNCHANGED matcherVars
      BY <1>3 DEF SweepOrphanedClaims
    <2>2. OrphansIdle'
      <3> SUFFICES ASSUME NEW c \in OrphanedClaims, c[1] \in Spared
                   PROVE  /\ \E t \in Trips : <<c[1], t>> \in claims
                          /\ \A t \in Trips : Live(t) => driver[t] # c[1]
                          /\ \A m \in Matchers : mpc[m] \in Holding => Tried(m) # c[1]
        BY <2>1 DEF OrphansIdle, Spared, storeVars, matcherVars, Live, Tried
      <3>1. /\ c \in claims /\ ~WorkedOn(c) /\ state[c[2]] \notin LiveStates
            /\ c = <<c[1], c[2]>> /\ c[1] \in Drivers /\ c[2] \in Trips
        BY DEF OrphanedClaims, IInv, AgedIdle, TypeOK, StoreTypeOK, ReaperTypeOK
      <3>2. \A e \in claims : e[1] = c[1] => e = c
        BY <1>0, <3>1 DEF Booking, ClaimsUnique
      <3>3. ASSUME NEW t \in Trips, Live(t), driver[t] = c[1] PROVE FALSE
        <4>1. <<c[1], t>> \in claims
          BY <1>0, <3>3 DEF Booking, LiveKept
        <4>2. c[2] = t
          BY <3>2, <4>1
        <4> QED
          BY <3>1, <3>3, <4>2 DEF Live
      <3>4. ASSUME NEW m \in Matchers, mpc[m] \in Holding, Tried(m) = c[1] PROVE FALSE
        <4>1. <<Tried(m), job[m]>> \in claims
          BY <1>0, <3>4 DEF Booking, HeldKept
        <4>2. <<Tried(m), job[m]>> = c
          BY <3>2, <3>4, <4>1
        <4> QED
          BY <3>1, <3>4, <4>2 DEF WorkedOn
      <3> QED
        BY <3>1, <3>3, <3>4
    <2>3. (/\ ClaimsUnique /\ UnmatchedHasNoDriver /\ MatcherCopy /\ CallerCopy
           /\ LiveKept /\ HeldKept /\ HeldNotDriving
           /\ HoldersDiffer)'
      BY <1>0, <2>1
         DEF Booking, storeVars, matcherVars, ClaimsUnique, UnmatchedHasNoDriver,
             MatcherCopy, CallerCopy, LiveKept, HeldKept,
             HeldNotDriving, HoldersDiffer, Spared, Live, Tried
    <2> QED
      BY <2>2, <2>3 DEF Booking
  <1>4. ASSUME NEW d \in Drivers, ReleaseOrphan(d) PROVE Booking'
    <2>1. d \in Spared =>
             /\ \A t \in Trips : Live(t) => driver[t] # d
             /\ \A n \in Matchers : mpc[n] \in Holding => Tried(n) # d
      BY <1>0, <1>4 DEF ReleaseOrphan, Booking, OrphansIdle
    <2>2. \A n \in Matchers : Same(n) /\ mpc'[n] = mpc[n]
      BY <1>4, AllSame DEF ReleaseOrphan, matcherVars
    <2>3. DeleteClaim(d) /\ orphans' = orphans \ {d}
      BY <1>4 DEF ReleaseOrphan
    <2> QED
      BY <2>1, <2>2, <2>3, DeleteKeepsBooking
  <1> QED
    BY <1>1, <1>2, <1>3, <1>4 DEF ReaperStep

LEMMA CallerBooking ==
    ASSUME IInv, NEW c \in Callers, CallerStep(c), UNCHANGED <<matcherVars, orphans, stalled>>
    PROVE  Booking'
  <1>0. Booking
    BY DEF IInv
  <1>1. ASSUME NEW dst \in AdvanceTargets, AdvanceTrip(c, dst) PROVE Booking'
    BY <1>1, AdvanceKeepsBooking, DispatchAssumption
  <1>2. ASSUME UNCHANGED storeVars,
               \A e \in Callers : e # c => view'[e] = view[e],
               view'[c] # NoView =>
                  /\ view'[c].version <= version[view'[c].trip]
                  /\ view'[c].state = state[view'[c].trip]
                  /\ view'[c].driver = driver[view'[c].trip]
        PROVE  Booking'
    <2>1. CallerCopy'
      BY <1>0, <1>2 DEF Booking, CallerCopy, storeVars
    <2> QED
      BY <1>0, <1>2, <2>1
         DEF Booking, storeVars, matcherVars, ClaimsUnique, UnmatchedHasNoDriver,
             MatcherCopy, LiveKept, HeldKept,
             HeldNotDriving, HoldersDiffer, OrphansIdle, Spared, Live, Tried
  <1>3. ASSUME NEW t \in Trips, ReadTrip(c, t) PROVE Booking'
    <2>1. version[t] \in Nat
      BY DEF IInv, TypeOK, StoreTypeOK
    <2> QED
      BY <1>2, <1>3, <2>1 DEF ReadTrip, IInv, TypeOK
  <1>4. CASE AdvanceConflict(c)
    BY <1>2, <1>4 DEF AdvanceConflict, IInv, TypeOK
  <1> QED
    BY <1>1, <1>3, <1>4 DEF CallerStep

LEMMA StepBooking == IInv /\ [Next]_vars /\ Acked' => IInv'
  <1> SUFFICES ASSUME IInv, [Next]_vars, Acked' PROVE Booking'
    BY StepType, StepAged DEF IInv
  <1>0. Booking
    BY DEF IInv
  <1>1. CASE RequestArrives
    BY <1>0, <1>1, NothingHappens DEF RequestArrives, RequestRide, reaperVars, KeepAges
  <1>2. ASSUME NEW h \in Handlers, HandlerMoves(h) PROVE Booking'
    BY <1>2, HandlerBooking DEF HandlerMoves, reaperVars, KeepAges
  <1>3. ASSUME NEW m \in Matchers, MatcherMoves(m) PROVE Booking'
    BY <1>3, MatcherMovesBooking DEF MatcherMoves, reaperVars, KeepAges
  <1>4. CASE ReaperMoves
    BY <1>4, ReaperBooking DEF ReaperMoves, KeepAges
  <1>5. ASSUME NEW c \in Callers, CallerMoves(c) PROVE Booking'
    BY <1>5, CallerBooking DEF CallerMoves, reaperVars, KeepAges
  <1>6. CASE TimePasses
    BY <1>0, <1>6, NothingHappens
       DEF TimePasses, TripAges, GrowOld, ClaimAges, ClaimGrowsOld, KeepAges, reaperVars
  <1>7. CASE ProcessFails
    <2>1. ASSUME NEW m \in Matchers, MatcherFails(m),
                 UNCHANGED <<apiVars, reaperVars, view>>, KeepAges
          PROVE  Booking'
      BY <2>1, MatcherFailsBooking DEF reaperVars, KeepAges
    <2>2. ASSUME NEW h \in Handlers, HandlerDies(h),
                 UNCHANGED <<matcherVars, reaperVars, view>>, KeepAges
          PROVE  Booking'
      BY <1>0, <2>2, NothingHappens DEF HandlerDies, reaperVars, KeepAges
    <2>3. ASSUME SweepFails, UNCHANGED <<apiVars, view>>, KeepAges PROVE Booking'
      <3>1. UNCHANGED storeVars /\ UNCHANGED matcherVars /\ orphans' = {}
        BY <2>3 DEF SweepFails
      <3> QED
        BY <1>0, <2>3, <3>1
           DEF Booking, KeepAges, storeVars, matcherVars, ClaimsUnique, UnmatchedHasNoDriver,
               MatcherCopy, CallerCopy, LiveKept, HeldKept,
               HeldNotDriving, HoldersDiffer, OrphansIdle, Spared, Live, Tried
    <2>4. CASE QueueLost
      BY <1>0, <1>7, <2>4, NothingHappens DEF ProcessFails, QueueLost, reaperVars, KeepAges
    <2> QED
      BY <1>7, <2>1, <2>2, <2>3, <2>4 DEF ProcessFails
  <1>8. CASE UNCHANGED vars
    BY <1>0, <1>8, NothingHappens DEF vars, ageVars, reaperVars
  <1> QED
    BY <1>1, <1>2, <1>3, <1>4, <1>5, <1>6, <1>7, <1>8 DEF Next

-----------------------------------------------------------------------------
(* The theorems.                                                           *)

(* The inductive invariant holds as long as every acknowledgement arrived. *)
UntilAckLost == TypeOK /\ AgedIdle /\ (Acked => Booking)

LEMMA BookingUntilAckLost == Spec => []UntilAckLost
  <1>1. Init => UntilAckLost
    BY InitBooking DEF UntilAckLost, IInv
  <1>2. UntilAckLost /\ [Next]_vars => UntilAckLost'
    <2> SUFFICES ASSUME UntilAckLost, [Next]_vars, Acked' PROVE Booking'
      BY StepType, StepAged DEF UntilAckLost
    <2>1. Acked
      BY FailuresGrow DEF UntilAckLost, Acked, FailureKinds
    <2> QED
      BY <2>1, StepBooking DEF UntilAckLost, IInv
  <1> QED
    BY <1>1, <1>2, PTL DEF Spec

LEMMA AlwaysAcked ==
    ASSUME NoAckLoss
    PROVE  Spec => []Acked
  <1>1. Init => Acked
    BY DEF Init, FailuresInit, Acked, FailureKinds
  <1>2. TypeOK /\ Acked /\ [Next]_vars => Acked'
    <2> SUFFICES ASSUME TypeOK, Acked, [Next]_vars PROVE Acked'
      OBVIOUS
    <2>1. CASE NoFailure
      BY <2>1 DEF NoFailure, Acked
    <2>2. ASSUME NEW k \in FailureKinds, Fail(k) PROVE Acked'
      BY <2>2, FailCounts DEF TypeOK, Acked, NoAckLoss, FailureKinds
    <2> QED
      BY <2>1, <2>2, FailsOrNot
  <1> QED
    BY <1>1, <1>2, TypeCorrect, PTL DEF Spec

LEMMA Inductive ==
    ASSUME NoAckLoss
    PROVE  Spec => []IInv
  <1>1. UntilAckLost /\ Acked => IInv
    BY DEF UntilAckLost, IInv
  <1> QED
    BY <1>1, BookingUntilAckLost, AlwaysAcked, PTL

(* No claim ever grew old under a running matcher. *)
NoneStalled == stalled = {}

LEMMA BookingImplies ==
    ASSUME TypeOK, Booking
    PROVE  /\ SweepsSparePromptMatches
           /\ NoneStalled =>
                 NoDoubleBooking /\ LiveTripKeepsItsClaim /\ MatcherHoldsItsClaim
  <1>1. SweepsSparePromptMatches
    BY DEF Booking, LiveKept, HeldKept, SweepsSparePromptMatches
  <1> SUFFICES ASSUME NoneStalled
               PROVE  NoDoubleBooking /\ LiveTripKeepsItsClaim /\ MatcherHoldsItsClaim
    BY <1>1
  <1>2. Spared = Drivers
    BY DEF NoneStalled, Spared
  <1>3. LiveTripKeepsItsClaim
    BY <1>2 DEF Booking, LiveKept, LiveTripKeepsItsClaim, TypeOK, StoreTypeOK
  <1>4. MatcherHoldsItsClaim
    BY <1>2, TriedType DEF TypeOK, Booking, HeldKept, MatcherHoldsItsClaim
  <1>5. NoDoubleBooking
    <2> SUFFICES ASSUME NEW t \in Trips, NEW u \in Trips, Live(t), Live(u),
                        driver[t] = driver[u], driver[t] # NoDriver
                 PROVE  t = u
      BY DEF NoDoubleBooking
    <2>1. <<driver[t], t>> \in claims /\ <<driver[t], u>> \in claims
      BY <1>3 DEF LiveTripKeepsItsClaim
    <2> QED
      BY <2>1 DEF Booking, ClaimsUnique
  <1> QED
    BY <1>3, <1>4, <1>5

(* Whatever else fails, all three promises of the ledger are kept up to    *)
(* the first MySQL call that raises although it committed (the run         *)
(* double_booking) or the first claim that outlives ORPHANED_CLAIM_MS under*)
(* a running matcher: these two are the only things that can break them.   *)
THEOREM SafeUntilAckLost ==
    Spec => [](Acked /\ NoneStalled => /\ NoDoubleBooking
                                      /\ LiveTripKeepsItsClaim
                                      /\ MatcherHoldsItsClaim)
  <1>1. UntilAckLost =>
            (Acked /\ NoneStalled =>
                NoDoubleBooking /\ LiveTripKeepsItsClaim /\ MatcherHoldsItsClaim)
    BY BookingImplies DEF UntilAckLost
  <1> QED
    BY <1>1, BookingUntilAckLost, PTL

(* A match that outlasts ORPHANED_CLAIM_MS endangers its own driver only:  *)
(* on any other, however many matches are overtaken by the sweep and       *)
(* whatever it selects and releases late, a live trip keeps its claim and  *)
(* a matcher owns what it holds.                                           *)
THEOREM PromptMatchesSpared ==
    ASSUME NoAckLoss
    PROVE  Spec => []SweepsSparePromptMatches
  <1>1. IInv => SweepsSparePromptMatches
    BY BookingImplies DEF IInv
  <1> QED
    BY <1>1, Inductive, PTL

(* The sweep that goes by age is the only reader of ages; the TripStore of *)
(* this repository has no _conn, and it never reads any.                   *)
LEMMA NeverStalled ==
    ASSUME ~HasConn
    PROVE  Spec => []NoneStalled
  <1>1. Init => NoneStalled
    BY DEF Init, ReaperInit, NoneStalled
  <1>2. NoneStalled /\ [Next]_vars => NoneStalled'
    BY DEF NoneStalled, Next, RequestArrives, HandlerMoves, MatcherMoves, ReaperMoves,
           CallerMoves, TimePasses, TripAges, ClaimAges, ClaimGrowsOld, ProcessFails,
           KeepAges, vars, ageVars
  <1> QED
    BY <1>1, <1>2, PTL DEF Spec

(* With the store of this repository, and if MySQL never raises out of a   *)
(* call it committed, no driver is ever on two live trips: not by any      *)
(* number of matchers racing, killed or failing at any point, lost or      *)
(* duplicated hints, or cancellations during a match.                      *)
THEOREM NeverDoubleBooked ==
    ASSUME NoAckLoss, ~HasConn
    PROVE  Spec => []NoDoubleBooking
  <1>1. IInv /\ NoneStalled => NoDoubleBooking
    BY BookingImplies DEF IInv
  <1> QED
    BY <1>1, Inductive, NeverStalled, PTL

(* Under the same conditions the claim of a driver on a live trip is never *)
(* deleted before the trip ends, although release_driver names no trip.    *)
THEOREM ClaimsOutliveTrips ==
    ASSUME NoAckLoss, ~HasConn
    PROVE  Spec => []LiveTripKeepsItsClaim
  <1>1. IInv /\ NoneStalled => LiveTripKeepsItsClaim
    BY BookingImplies DEF IInv
  <1> QED
    BY <1>1, Inductive, NeverStalled, PTL

(* And a matcher between its claim and its save or release always still    *)
(* owns the claim it believes it holds.                                    *)
THEOREM HoldersOwn ==
    ASSUME NoAckLoss, ~HasConn
    PROVE  Spec => []MatcherHoldsItsClaim
  <1>1. IInv /\ NoneStalled => MatcherHoldsItsClaim
    BY BookingImplies DEF IInv
  <1> QED
    BY <1>1, Inductive, NeverStalled, PTL

-----------------------------------------------------------------------------
(* No claim leaks while nothing in the matching path fails.                *)

(* Somebody answers for claim c: the matcher working under it, or the live *)
(* trip it backs.                                                          *)
Answered(c) == WorkedOn(c) \/ (Live(c[2]) /\ driver[c[2]] = c[1])

NothingLeaks == \A c \in claims : Answered(c)

(* A claim stays answered for while its trip and its matcher stay put. *)
LEMMA StillAnswered ==
    ASSUME NEW c, Answered(c), state'[c[2]] = state[c[2]], driver'[c[2]] = driver[c[2]],
           \A n \in Matchers :
              mpc[n] \in Holding /\ <<Tried(n), job[n]>> = c =>
                 mpc'[n] \in Holding /\ job'[n] = job[n] /\ cands'[n] = cands[n]
    PROVE  Answered(c)'
  <1>1. CASE WorkedOn(c)
    BY <1>1 DEF Answered, WorkedOn, Tried
  <1>2. CASE Live(c[2]) /\ driver[c[2]] = c[1]
    BY <1>2 DEF Answered, Live
  <1> QED
    BY <1>1, <1>2 DEF Answered

(* No row changes, no claim is added, nobody lets go of a claim that stays.*)
LEMMA QuietLeaksNothing ==
    ASSUME NothingLeaks, claims' \subseteq claims, state' = state, driver' = driver,
           \A n \in Matchers :
              mpc[n] \in Holding /\ <<Tried(n), job[n]>> \in claims' =>
                 mpc'[n] \in Holding /\ job'[n] = job[n] /\ cands'[n] = cands[n]
    PROVE  NothingLeaks'
  <1> SUFFICES ASSUME NEW c \in claims' PROVE Answered(c)'
    BY DEF NothingLeaks
  <1>1. Answered(c)
    BY DEF NothingLeaks
  <1> QED
    BY <1>1, StillAnswered

LEMMA ClaimLeaksNothing ==
    ASSUME IInv, NothingLeaks, NEW m \in Matchers, Claim(m)
    PROVE  NothingLeaks'
  <1> SUFFICES ASSUME NEW c \in claims' PROVE Answered(c)'
    BY DEF NothingLeaks
  <1>0. MatcherTypeOK
    BY DEF IInv, TypeOK
  <1>1. /\ OthersSame(m) /\ mpc'[m] = "held" /\ mpc[m] = "claim"
        /\ job' = job /\ cands' = cands
        /\ claims' = claims \cup {<<Tried(m), job[m]>>}
        /\ state' = state /\ driver' = driver
    BY <1>0, GotoOthers DEF Claim, InsertClaim, tripRows
  <1>2. CASE c = <<Tried(m), job[m]>>
    BY <1>1, <1>2 DEF Answered, WorkedOn, Tried, Holding
  <1>3. CASE c \in claims
    <2>1. \A n \in Matchers : mpc[n] \in Holding => mpc'[n] = mpc[n]
      BY <1>1 DEF OthersSame, Same, Holding
    <2> QED
      BY <1>1, <1>3, <2>1, StillAnswered DEF NothingLeaks
  <1> QED
    BY <1>1, <1>2, <1>3

(* The claim a matcher saves under backs the trip from then on. *)
LEMMA SaveLeaksNothing ==
    ASSUME IInv, NothingLeaks, NEW m \in Matchers, Save(m)
    PROVE  NothingLeaks'
  <1> SUFFICES ASSUME NEW c \in claims' PROVE Answered(c)'
    BY DEF NothingLeaks
  <1> DEFINE e == <<Tried(m), job[m]>>
  <1>0. MatcherTypeOK /\ StoreTypeOK /\ Booking
    BY DEF IInv, TypeOK
  <1>1. OthersSame(m) /\ mpc[m] \in Holding
    BY <1>0, LeaveOthers DEF Save, Holding
  <1>2. job[m] \in Trips /\ state[job[m]] = "requested"
    BY <1>0, <1>1 DEF Save, UpdateMatch, VersionMatches, Booking, MatcherCopy,
                      MatcherTypeOK, Busy
  <1>3. /\ state'[job[m]] = "matched" /\ driver'[job[m]] = Tried(m)
        /\ \A u \in Trips : u # job[m] => state'[u] = state[u] /\ driver'[u] = driver[u]
        /\ claims' = claims
    BY <1>0, <1>2 DEF Save, UpdateMatch, StoreTypeOK
  <1>4. c \in claims /\ Answered(c) /\ c[2] \in Trips
    BY <1>0, <1>3 DEF NothingLeaks, StoreTypeOK
  <1>5. CASE c = e
    BY <1>3, <1>5 DEF Answered, Live, LiveStates
  <1>6. CASE c # e
    <2>1. \A n \in Matchers : <<Tried(n), job[n]>> = c => n # m
      BY <1>6
    <2>2. CASE WorkedOn(c)
      BY <1>1, <2>1, <2>2 DEF Answered, WorkedOn, OthersSame, Same, Tried
    <2>3. CASE Live(c[2]) /\ driver[c[2]] = c[1]
      BY <1>2, <1>3, <1>4, <2>3 DEF Answered, Live, LiveStates
    <2> QED
      BY <1>4, <2>2, <2>3 DEF Answered
  <1> QED
    BY <1>5, <1>6

(* A release takes the claim with it that the matcher lets go of. *)
LEMMA ReleaseLeaksNothing ==
    ASSUME IInv, NothingLeaks, NEW m \in Matchers, Release(m)
    PROVE  NothingLeaks'
  <1>1. OthersSame(m)
    BY LeaveOthers, EscapeOthers DEF Release, IInv, TypeOK
  <1>2. /\ claims' = {c \in claims : c[1] # Tried(m)}
        /\ state' = state /\ driver' = driver
    BY DEF Release, DeleteClaim, tripRows
  <1>3. \A n \in Matchers : <<Tried(n), job[n]>> \in claims' => n # m
    BY <1>2
  <1> QED
    BY <1>1, <1>2, <1>3, QuietLeaksNothing DEF OthersSame, Same

LEMMA MatcherLeaksNothing ==
    ASSUME IInv, NothingLeaks, NEW m \in Matchers, MatcherStep(m)
    PROVE  NothingLeaks'
  <1>0. MatcherTypeOK
    BY DEF IInv, TypeOK
  <1>a. ASSUME OthersSame(m), mpc[m] \notin Holding, UNCHANGED storeVars
        PROVE  NothingLeaks'
    BY <1>a, QuietLeaksNothing DEF OthersSame, Same, storeVars
  <1>1. CASE Take(m)
    BY <1>0, <1>1, <1>a DEF Take, MatcherTypeOK, OthersSame, Same, Holding
  <1>2. CASE Requeue(m)
    BY <1>0, <1>2, <1>a, LeaveOthers DEF Requeue, Holding
  <1>3. CASE Start(m)
    BY <1>0, <1>3, <1>a, GotoOthers DEF Start, Holding
  <1>4. CASE LoadDone(m)
    BY <1>0, <1>4, <1>a, LeaveOthers DEF LoadDone, Holding
  <1>5. CASE Load(m)
    <2>1. OthersSame(m)
      <3>1. CASE Leave(m, "idle")
        BY <1>0, <3>1, LeaveOthers
      <3>2. CASE /\ mpc' = [mpc EXCEPT ![m] = "claim"]
                 /\ seen' = [seen EXCEPT ![m] = version[job[m]]]
                 /\ UNCHANGED job
                 /\ \E s \in Nearby[job[m]] :
                       cands' = [cands EXCEPT ![m] = FirstAttempts(s)]
        BY <1>0, <3>2 DEF MatcherTypeOK, OthersSame, Same
      <3> QED
        BY <1>5, <3>1, <3>2 DEF Load
    <2> QED
      BY <1>5, <1>a, <2>1 DEF Load, Holding
  <1>6. CASE Claim(m)
    BY <1>6, ClaimLeaksNothing
  <1>7. CASE ClaimLost(m)
    <2>1. OthersSame(m)
      <3>1. CASE Leave(m, "idle")
        BY <1>0, <3>1, LeaveOthers
      <3>2. CASE cands' = [cands EXCEPT ![m] = Tail(@)] /\ UNCHANGED <<mpc, job, seen>>
        BY <1>0, <3>2 DEF MatcherTypeOK, OthersSame, Same
      <3> QED
        BY <1>7, <3>1, <3>2 DEF ClaimLost
    <2> QED
      BY <1>7, <1>a, <2>1 DEF ClaimLost, Holding
  <1>8. CASE Save(m)
    BY <1>8, SaveLeaksNothing
  <1>9. CASE SaveConflict(m)
    <2>1. /\ OthersSame(m) /\ mpc'[m] \in Holding
          /\ job' = job /\ cands' = cands /\ UNCHANGED storeVars
      BY <1>0, <1>9, GotoOthers DEF SaveConflict, Holding
    <2> QED
      BY <2>1, QuietLeaksNothing DEF OthersSame, Same, storeVars
  <1>10. CASE Release(m)
    BY <1>10, ReleaseLeaksNothing
  <1> QED
    BY <1>1, <1>2, <1>3, <1>4, <1>5, <1>6, <1>7, <1>8, <1>9, <1>10 DEF MatcherStep

(* The terminal move of a trip deletes the claim that backed it, in the    *)
(* same transaction; a copy stale in its driver would have missed it.      *)
LEMMA AdvanceLeaksNothing ==
    ASSUME IInv, NothingLeaks, NEW c \in Callers, NEW dst \in TripStates,
           AdvanceTrip(c, dst), UNCHANGED matcherVars
    PROVE  NothingLeaks'
  <1> DEFINE t == view[c].trip
  <1> SUFFICES ASSUME NEW e \in claims' PROVE Answered(e)'
    BY DEF NothingLeaks
  <1>0. StoreTypeOK /\ Booking
    BY DEF IInv, TypeOK
  <1>1. /\ t \in Trips /\ view[c].driver = driver[t] /\ CanTransition(state[t], dst)
    BY <1>0 DEF AdvanceTrip, UpdateState, VersionMatches, IInv, TypeOK, View,
                Booking, CallerCopy
  <1>2. /\ \A u \in Trips : u # t => state'[u] = state[u]
        /\ state'[t] = dst /\ driver' = driver
        /\ claims' = IF dst \in {"complete", "cancelled"} /\ view[c].driver # NoDriver
                     THEN claims \ {<<view[c].driver, t>>} ELSE claims
    BY <1>0, <1>1 DEF AdvanceTrip, UpdateState, StoreTypeOK
  <1>3. e \in claims /\ Answered(e) /\ e = <<e[1], e[2]>> /\ e[2] \in Trips /\ e[1] # NoDriver
    BY <1>0, <1>2, StoreAssumption DEF NothingLeaks, StoreTypeOK
  <1> HIDE DEF t
  <1>4. CASE WorkedOn(e)
    BY <1>4 DEF Answered, WorkedOn, Tried, matcherVars
  <1>5. CASE Live(e[2]) /\ driver[e[2]] = e[1]
    <2>1. CASE e[2] # t
      BY <1>2, <1>3, <1>5, <2>1 DEF Answered, Live
    <2>2. CASE e[2] = t
      <3>1. dst \in {"matched", "en_route", "complete", "cancelled"}
        BY <1>1 DEF CanTransition, Allowed
      <3>2. dst \notin {"complete", "cancelled"}
        BY <1>1, <1>2, <1>3, <1>5, <2>2
      <3> QED
        BY <1>2, <1>5, <2>2, <3>1, <3>2 DEF Answered, Live, LiveStates
    <2> QED
      BY <2>1, <2>2
  <1> QED
    BY <1>3, <1>4, <1>5 DEF Answered

LEMMA StepLeaksNothing ==
    ASSUME IInv, NothingLeaks, [Next]_vars, ~MatchingFailed'
    PROVE  NothingLeaks'
  <1>0. StoreTypeOK /\ FailuresTypeOK /\ MatcherTypeOK
    BY DEF IInv, TypeOK
  <1>a. ASSUME UNCHANGED storeVars, UNCHANGED matcherVars PROVE NothingLeaks'
    BY <1>a, QuietLeaksNothing DEF storeVars, matcherVars
  <1>b. ~Fail("sigkill") /\ ~Fail("db_error") /\ ~Fail("ack_lost")
    <2>1. ASSUME NEW k \in {"sigkill", "db_error", "ack_lost"}, Fail(k) PROVE FALSE
      <3>1. failures'[k] = failures[k] + 1 /\ failures[k] \in Nat
        BY <1>0, <2>1, FailCounts DEF FailureKinds
      <3> QED
        BY <3>1 DEF MatchingFailed
    <2> QED
      BY <2>1
  <1>1. CASE RequestArrives
    BY <1>1, <1>a DEF RequestArrives, RequestRide
  <1>2. ASSUME NEW h \in Handlers, HandlerMoves(h) PROVE NothingLeaks'
    <2>1. CASE CreateTrip(h)
      <3>1. atrip[h] \in Trips
        BY <2>1 DEF CreateTrip, IInv, TypeOK, ApiTypeOK
      <3>2. /\ state[atrip[h]] = "absent"
            /\ \A u \in Trips : u # atrip[h] => state'[u] = state[u]
            /\ driver' = driver /\ claims' = claims
        BY <1>0, <2>1, <3>1 DEF CreateTrip, InsertTrip, InsertRefused, StoreTypeOK
      <3> SUFFICES ASSUME NEW c \in claims PROVE Answered(c)'
        BY <3>2 DEF NothingLeaks
      <3>3. Answered(c) /\ c[2] \in Trips
        BY <1>0 DEF NothingLeaks, StoreTypeOK
      <3>4. UNCHANGED matcherVars
        BY <1>2 DEF HandlerMoves
      <3>5. CASE WorkedOn(c)
        BY <3>4, <3>5 DEF Answered, WorkedOn, Tried, matcherVars
      <3>6. CASE Live(c[2]) /\ driver[c[2]] = c[1]
        BY <3>2, <3>3, <3>6 DEF Answered, Live, LiveStates
      <3> QED
        BY <3>3, <3>5, <3>6 DEF Answered
    <2>2. CASE CreateCollides(h) \/ Replay(h) \/ Accept(h)
      BY <1>2, <1>a, <2>2 DEF HandlerMoves, CreateCollides, Replay, Accept
    <2> QED
      BY <1>2, <2>1, <2>2 DEF HandlerMoves, HandlerStep
  <1>3. ASSUME NEW m \in Matchers, MatcherMoves(m) PROVE NothingLeaks'
    BY <1>3, MatcherLeaksNothing DEF MatcherMoves
  <1>4. CASE ReaperMoves
    <2>1. ASSUME NEW d \in Drivers, ReleaseOrphan(d) PROVE NothingLeaks'
      BY <2>1, QuietLeaksNothing DEF ReleaseOrphan, DeleteClaim, tripRows, matcherVars
    <2> QED
      BY <1>4, <1>a, <2>1 DEF ReaperMoves, ReaperStep, SweepStrandedTrips, PushStranded,
                              SweepOrphanedClaims
  <1>5. ASSUME NEW c \in Callers, CallerMoves(c) PROVE NothingLeaks'
    <2>1. ASSUME NEW dst \in AdvanceTargets, AdvanceTrip(c, dst) PROVE NothingLeaks'
      BY <1>5, <2>1, AdvanceLeaksNothing, DispatchAssumption DEF CallerMoves
    <2> QED
      BY <1>5, <1>a, <2>1 DEF CallerMoves, CallerStep, ReadTrip, AdvanceConflict
  <1>6. CASE TimePasses
    BY <1>6, <1>a DEF TimePasses, TripAges, GrowOld, ClaimAges, ClaimGrowsOld
  <1>7. CASE ProcessFails
    <2>1. ASSUME NEW m \in Matchers, MatcherFails(m) PROVE NothingLeaks'
      <3>1. Drain(m)
        BY <1>b, <2>1 DEF MatcherFails, Kill, RaiseUnheld, ClaimUnacked, RaiseHeld,
                          SaveUnacked, ReleaseFails, ReleaseUnacked
      <3>2. OthersSame(m) /\ mpc[m] \notin Holding /\ UNCHANGED storeVars
        BY <1>0, <3>1, GotoOthers DEF Drain, Holding
      <3> QED
        BY <3>2, QuietLeaksNothing DEF OthersSame, Same, storeVars
    <2> QED
      BY <1>7, <1>a, <2>1 DEF ProcessFails, HandlerDies, SweepFails, QueueLost
  <1>8. CASE UNCHANGED vars
    BY <1>8, <1>a DEF vars
  <1> QED
    BY <1>1, <1>2, <1>3, <1>4, <1>5, <1>6, <1>7, <1>8 DEF Next

(* Until a matcher is killed or MySQL fails, whatever else happens - lost  *)
(* queues, dead handlers, drains, restarted reapers, conflicts and         *)
(* cancellations in the middle of a match - no driver is left claimed for  *)
(* a trip that neither runs nor is being matched.  No assumption is made   *)
(* on how often anything fails.                                            *)
THEOREM NoLeaks == Spec => []NoLeakWithoutFailure
  <1>1. Init => NoLeakWithoutFailure
    BY DEF Init, StoreInit, NoLeakWithoutFailure
  <1>2. /\ UntilAckLost /\ NoLeakWithoutFailure /\ [Next]_vars
        => NoLeakWithoutFailure'
    <2> SUFFICES ASSUME UntilAckLost, NoLeakWithoutFailure, [Next]_vars, ~MatchingFailed'
                 PROVE  NothingLeaks'
      BY DEF NoLeakWithoutFailure, NothingLeaks, Answered
    <2>1. FailuresTypeOK /\ FailuresTypeOK'
      BY StepType DEF UntilAckLost, TypeOK
    <2>2. \A k \in {"sigkill", "db_error", "ack_lost"} : failures'[k] = 0
      BY <2>1 DEF MatchingFailed, FailuresTypeOK, FailureKinds
    <2>3. \A k \in {"sigkill", "db_error", "ack_lost"} : failures[k] = 0
      BY <2>2, FailuresGrow DEF UntilAckLost, FailureKinds
    <2>4. ~MatchingFailed /\ Acked
      BY <2>3 DEF MatchingFailed, Acked
    <2> QED
      BY <2>4, StepLeaksNothing
         DEF UntilAckLost, IInv, NoLeakWithoutFailure, NothingLeaks, Answered
  <1> QED
    BY <1>1, <1>2, BookingUntilAckLost, PTL DEF Spec
=============================================================================
