--------------------------- MODULE DispatchTypes ---------------------------
(***************************************************************************)
(* Type correctness of Dispatch, component by component.                   *)
(***************************************************************************)
EXTENDS DispatchProperties, SequenceTheorems, TLAPS

LEMMA TripIds ==
    NoTrip \notin Trips /\ \A t \in Trips : t \in Nat
  BY StoreAssumption DEF Trips, NoTrip

-----------------------------------------------------------------------------
(* The store: every statement keeps the types of the tables.               *)

LEMMA InsertTripType ==
    ASSUME StoreTypeOK, NEW t \in Trips, NEW k \in Keys, InsertTrip(t, k)
    PROVE  StoreTypeOK'
  BY DEF StoreTypeOK, InsertTrip, TripStates

LEMMA InsertClaimType ==
    ASSUME StoreTypeOK, NEW d \in Drivers, NEW t \in Trips, InsertClaim(d, t)
    PROVE  StoreTypeOK'
  BY DEF StoreTypeOK, InsertClaim, tripRows

LEMMA DeleteClaimType ==
    ASSUME StoreTypeOK, NEW d, DeleteClaim(d)
    PROVE  StoreTypeOK'
  BY DEF StoreTypeOK, DeleteClaim, tripRows

LEMMA UpdateMatchType ==
    ASSUME StoreTypeOK, NEW t \in Trips, NEW v, NEW d \in Drivers,
           UpdateMatch(t, v, d)
    PROVE  StoreTypeOK'
  BY DEF StoreTypeOK, UpdateMatch, TripStates

LEMMA UpdateStateType ==
    ASSUME StoreTypeOK, NEW t \in Trips, NEW v, NEW d, NEW dst \in TripStates,
           UpdateState(t, v, d, dst)
    PROVE  StoreTypeOK'
  BY DEF StoreTypeOK, UpdateState

LEMMA StoreUnchangedType ==
    ASSUME StoreTypeOK, UNCHANGED storeVars
    PROVE  StoreTypeOK'
  BY DEF StoreTypeOK, storeVars

-----------------------------------------------------------------------------
(* The queue and the failures.                                             *)

LEMMA PushType ==
    ASSUME queue \in Seq(Trips), NEW t \in Trips, Push(t)
    PROVE  (queue \in Seq(Trips))'
  BY DEF Push

LEMMA PopType ==
    ASSUME queue \in Seq(Trips), NEW t, Pop(t)
    PROVE  (queue \in Seq(Trips))'
  BY HeadTailProperties DEF Pop

LEMMA FailType ==
    ASSUME FailuresTypeOK, NEW k \in FailureKinds, Fail(k)
    PROVE  FailuresTypeOK'
  BY DEF FailuresTypeOK, Fail

LEMMA NoFailureType ==
    ASSUME FailuresTypeOK, NoFailure
    PROVE  FailuresTypeOK'
  BY DEF FailuresTypeOK, NoFailure

-----------------------------------------------------------------------------
(* The matchers.                                                           *)

LEMMA TriedType ==
    ASSUME MatcherTypeOK, NEW m \in Matchers, mpc[m] \in Holding \cup {"claim"}
    PROVE  Tried(m) \in Drivers
  <1>1. cands[m] \in Seq(Drivers) /\ cands[m] # <<>>
    BY DEF MatcherTypeOK
  <1> QED
    BY <1>1, HeadTailProperties DEF Tried

LEMMA LeaveType ==
    ASSUME MatcherTypeOK, NEW m \in Matchers, NEW pc \in {"down", "idle"},
           Leave(m, pc)
    PROVE  MatcherTypeOK'
  <1>1. <<>> \in Seq(Drivers)
    BY EmptySeq
  <1> QED
    BY <1>1 DEF MatcherTypeOK, Leave, Busy, Holding

LEMMA GotoType ==
    ASSUME MatcherTypeOK, NEW m \in Matchers, NEW pc, Goto(m, pc),
           \/ pc \in {"down", "idle"}
           \/ pc \in Holding /\ mpc[m] \in Holding \cup {"claim"}
    PROVE  MatcherTypeOK'
  BY DEF MatcherTypeOK, Goto, Busy, Holding

LEMMA EscapeType ==
    ASSUME MatcherTypeOK, NEW m \in Matchers, mpc[m] \in Busy, Escape(m)
    PROVE  MatcherTypeOK'
  <1>1. <<>> \in Seq(Drivers)
    BY EmptySeq
  <1> QED
    BY <1>1 DEF MatcherTypeOK, Escape, Busy, Holding

LEMMA MatcherUnchangedType ==
    ASSUME MatcherTypeOK, UNCHANGED matcherVars
    PROVE  MatcherTypeOK'
  BY DEF MatcherTypeOK, matcherVars, Tried

LEMMA FirstAttemptsType ==
    ASSUME NEW s \in Seq(Drivers), s # <<>>
    PROVE  FirstAttempts(s) \in Seq(Drivers) /\ FirstAttempts(s) # <<>>
  <1> DEFINE n == IF Len(s) < MaxClaimAttempts THEN Len(s) ELSE MaxClaimAttempts
  <1>1. Len(s) \in Nat \ {0} /\ \A i \in 1..Len(s) : s[i] \in Drivers
    BY EmptySeq, ElementOfSeq
  <1>2. n \in Nat \ {0} /\ n <= Len(s)
    BY <1>1, MatcherAssumption
  <1>3. \A i \in 1..n : s[i] \in Drivers
    BY <1>1, <1>2
  <1> HIDE DEF n
  <1>4. SubSeq(s, 1, n) \in Seq(Drivers) /\ Len(SubSeq(s, 1, n)) = n
    BY <1>2, <1>3, SubSeqProperties
  <1>5. SubSeq(s, 1, n) # <<>>
    BY <1>2, <1>4, EmptySeq
  <1> QED
    BY <1>4, <1>5 DEF FirstAttempts, n

LEMMA MatcherStepType ==
    ASSUME StoreTypeOK, MatcherTypeOK, FailuresTypeOK, queue \in Seq(Trips),
           NEW m \in Matchers, MatcherStep(m)
    PROVE  (StoreTypeOK /\ MatcherTypeOK /\ FailuresTypeOK /\ queue \in Seq(Trips))'
  <1> USE DEF NoFailure
  <1>0. job[m] \in Trips \/ mpc[m] \in {"down", "idle"}
    BY DEF MatcherTypeOK
  <1>1. CASE Take(m)
    <2>1. MatcherTypeOK'
      BY <1>1 DEF Take, MatcherTypeOK, Busy, Holding
    <2>2. (queue \in Seq(Trips))'
      BY <1>1, PopType DEF Take
    <2> QED
      BY <1>1, <2>1, <2>2, StoreUnchangedType, NoFailureType DEF Take
  <1>2. CASE Requeue(m)
    BY <1>0, <1>2, PushType, LeaveType, StoreUnchangedType, NoFailureType DEF Requeue
  <1>3. CASE Start(m)
    BY <1>3, GotoType, StoreUnchangedType, NoFailureType DEF Start
  <1>4. CASE LoadDone(m)
    BY <1>4, LeaveType, StoreUnchangedType, NoFailureType DEF LoadDone
  <1>5. CASE Load(m)
    <2>1. PICK s \in Nearby[job[m]] :
              \/ s = <<>> /\ Leave(m, "idle")
              \/ /\ s # <<>>
                 /\ mpc' = [mpc EXCEPT ![m] = "claim"]
                 /\ seen' = [seen EXCEPT ![m] = version[job[m]]]
                 /\ cands' = [cands EXCEPT ![m] = FirstAttempts(s)]
                 /\ UNCHANGED job
      BY <1>5 DEF Load
    <2>2. job[m] \in Trips /\ s \in Seq(Drivers)
      BY <1>0, <1>5, MatcherAssumption DEF Load
    <2>3. MatcherTypeOK'
      <3>1. CASE s = <<>> /\ Leave(m, "idle")
        BY <3>1, LeaveType
      <3>2. CASE s # <<>>
        <4>1. FirstAttempts(s) \in Seq(Drivers) /\ FirstAttempts(s) # <<>>
          BY <2>2, <3>2, FirstAttemptsType
        <4>2. version[job[m]] \in Nat
          BY <2>2 DEF StoreTypeOK
        <4> QED
          BY <2>1, <2>2, <3>2, <4>1, <4>2 DEF MatcherTypeOK, Busy, Holding
      <3> QED
        BY <2>1, <3>1, <3>2
    <2> QED
      BY <1>5, <2>3, StoreUnchangedType, NoFailureType DEF Load
  <1>6. CASE Claim(m)
    <2>1. mpc[m] = "claim" /\ job[m] \in Trips /\ Tried(m) \in Drivers
      BY <1>0, <1>6, TriedType DEF Claim
    <2> QED
      BY <1>6, <2>1, GotoType, InsertClaimType, NoFailureType DEF Claim, Holding
  <1>7. CASE ClaimLost(m)
    <2>1. MatcherTypeOK'
      <3>1. CASE Leave(m, "idle")
        BY <3>1, LeaveType
      <3>2. CASE /\ Len(cands[m]) # 1
                 /\ cands' = [cands EXCEPT ![m] = Tail(@)]
                 /\ UNCHANGED <<mpc, job, seen>>
        <4>1. cands[m] \in Seq(Drivers) /\ cands[m] # <<>>
          BY <1>7 DEF ClaimLost, MatcherTypeOK
        <4>2. Tail(cands[m]) \in Seq(Drivers) /\ Len(Tail(cands[m])) # 0
          BY <3>2, <4>1, HeadTailProperties, EmptySeq
        <4>3. Tail(cands[m]) # <<>>
          BY <4>2, EmptySeq
        <4> QED
          BY <3>2, <4>2, <4>3 DEF MatcherTypeOK
      <3> QED
        BY <1>7, <3>1, <3>2 DEF ClaimLost
    <2> QED
      BY <1>7, <2>1, StoreUnchangedType, NoFailureType DEF ClaimLost
  <1>8. CASE Save(m)
    <2>1. mpc[m] = "held" /\ job[m] \in Trips /\ Tried(m) \in Drivers
      BY <1>0, <1>8, TriedType DEF Save, Holding
    <2> QED
      BY <1>8, <2>1, LeaveType, UpdateMatchType, NoFailureType DEF Save
  <1>9. CASE SaveConflict(m)
    BY <1>9, GotoType, StoreUnchangedType, NoFailureType DEF SaveConflict, Holding
  <1>10. CASE Release(m)
    BY <1>10, LeaveType, EscapeType, DeleteClaimType, NoFailureType
       DEF Release, Holding, Busy
  <1> QED
    BY <1>1, <1>2, <1>3, <1>4, <1>5, <1>6, <1>7, <1>8, <1>9, <1>10 DEF MatcherStep

LEMMA MatcherFailsType ==
    ASSUME StoreTypeOK, MatcherTypeOK, FailuresTypeOK, queue \in Seq(Trips),
           NEW m \in Matchers, MatcherFails(m)
    PROVE  (StoreTypeOK /\ MatcherTypeOK /\ FailuresTypeOK /\ queue \in Seq(Trips))'
  <1>0. /\ job[m] \in Trips \/ mpc[m] \in {"down", "idle"}
        /\ {"sigkill", "sigterm", "db_error", "ack_lost"} \subseteq FailureKinds
    BY DEF MatcherTypeOK, FailureKinds
  <1>1. CASE Drain(m)
    BY <1>0, <1>1, GotoType, StoreUnchangedType, FailType DEF Drain
  <1>2. CASE Kill(m)
    BY <1>0, <1>2, LeaveType, StoreUnchangedType, FailType DEF Kill
  <1>3. CASE RaiseUnheld(m)
    BY <1>0, <1>3, EscapeType, StoreUnchangedType, FailType DEF RaiseUnheld, Busy
  <1>4. CASE ClaimUnacked(m)
    <2>1. Tried(m) \in Drivers
      BY <1>4, TriedType DEF ClaimUnacked
    <2> QED
      BY <1>0, <1>4, <2>1, EscapeType, InsertClaimType, FailType DEF ClaimUnacked, Busy
  <1>5. CASE RaiseHeld(m)
    BY <1>0, <1>5, GotoType, StoreUnchangedType, FailType DEF RaiseHeld, Holding
  <1>6. CASE SaveUnacked(m)
    <2>1. Tried(m) \in Drivers
      BY <1>6, TriedType DEF SaveUnacked, Holding
    <2> QED
      BY <1>0, <1>6, <2>1, GotoType, UpdateMatchType, FailType DEF SaveUnacked, Holding
  <1>7. CASE ReleaseFails(m)
    BY <1>0, <1>7, EscapeType, StoreUnchangedType, FailType
       DEF ReleaseFails, Holding, Busy
  <1>8. CASE ReleaseUnacked(m)
    BY <1>0, <1>8, EscapeType, DeleteClaimType, FailType
       DEF ReleaseUnacked, Holding, Busy
  <1> QED
    BY <1>1, <1>2, <1>3, <1>4, <1>5, <1>6, <1>7, <1>8 DEF MatcherFails

-----------------------------------------------------------------------------
(* The request handlers.                                                   *)

LEMMA ReturnType ==
    ASSUME ApiTypeOK, NEW h \in Handlers, Return(h),
           minted' \in 0..MaxTrips, replies' \in [Keys -> SUBSET Trips]
    PROVE  ApiTypeOK'
  BY DEF ApiTypeOK, Return

LEMMA RequestRideType ==
    ASSUME StoreTypeOK, ApiTypeOK, FailuresTypeOK, queue \in Seq(Trips),
           NEW h \in Handlers, NEW k \in Keys, RequestRide(h, k)
    PROVE  (StoreTypeOK /\ ApiTypeOK /\ FailuresTypeOK /\ queue \in Seq(Trips))'
  <1>1. minted + 1 \in Trips /\ minted' \in 0..MaxTrips
    BY StoreAssumption DEF RequestRide, ApiTypeOK, Trips
  <1>2. ApiTypeOK'
    BY <1>1 DEF RequestRide, ApiTypeOK
  <1> QED
    BY <1>2, StoreUnchangedType, NoFailureType DEF RequestRide

LEMMA HandlerStepType ==
    ASSUME StoreTypeOK, ApiTypeOK, FailuresTypeOK, queue \in Seq(Trips),
           NEW h \in Handlers, HandlerStep(h)
    PROVE  (StoreTypeOK /\ ApiTypeOK /\ FailuresTypeOK /\ queue \in Seq(Trips))'
  <1>1. CASE CreateTrip(h)
    <2>1. akey[h] \in Keys /\ atrip[h] \in Trips
      BY <1>1 DEF CreateTrip, ApiTypeOK
    <2>2. ApiTypeOK'
      BY <1>1, <2>1 DEF CreateTrip, ApiTypeOK
    <2> QED
      BY <1>1, <2>1, <2>2, InsertTripType, NoFailureType DEF CreateTrip
  <1>2. CASE CreateCollides(h)
    <2>1. ApiTypeOK'
      BY <1>2 DEF CreateCollides, ApiTypeOK
    <2> QED
      BY <1>2, <2>1, StoreUnchangedType, NoFailureType DEF CreateCollides
  <1>3. CASE Replay(h)
    <2>1. replies' \in [Keys -> SUBSET Trips] /\ minted' \in 0..MaxTrips
      BY <1>3 DEF Replay, Reply, ApiTypeOK
    <2> QED
      BY <1>3, <2>1, ReturnType, StoreUnchangedType, NoFailureType DEF Replay
  <1>4. CASE Accept(h)
    <2>1. atrip[h] \in Trips
      BY <1>4 DEF Accept, ApiTypeOK
    <2>2. replies' \in [Keys -> SUBSET Trips] /\ minted' \in 0..MaxTrips
      BY <1>4, <2>1 DEF Accept, Reply, ApiTypeOK
    <2> QED
      BY <1>4, <2>1, <2>2, ReturnType, PushType, StoreUnchangedType, NoFailureType
         DEF Accept
  <1> QED
    BY <1>1, <1>2, <1>3, <1>4 DEF HandlerStep

LEMMA HandlerDiesType ==
    ASSUME StoreTypeOK, ApiTypeOK, FailuresTypeOK, queue \in Seq(Trips),
           NEW h \in Handlers, HandlerDies(h)
    PROVE  (StoreTypeOK /\ ApiTypeOK /\ FailuresTypeOK /\ queue \in Seq(Trips))'
  <1>1. "api_died" \in FailureKinds
    BY DEF FailureKinds
  <1>2. replies' \in [Keys -> SUBSET Trips] /\ minted' \in 0..MaxTrips
    BY DEF HandlerDies, ApiTypeOK
  <1> QED
    BY <1>1, <1>2, ReturnType, StoreUnchangedType, FailType DEF HandlerDies

LEMMA ApiUnchangedType ==
    ASSUME ApiTypeOK, UNCHANGED apiVars
    PROVE  ApiTypeOK'
  BY DEF ApiTypeOK, apiVars

-----------------------------------------------------------------------------
(* The reaper.                                                             *)

LEMMA ReaperUnchangedType ==
    ASSUME ReaperTypeOK, UNCHANGED reaperVars, KeepAges
    PROVE  ReaperTypeOK'
  BY DEF ReaperTypeOK, reaperVars, KeepAges

LEMMA OrphanedClaimsType ==
    ASSUME StoreTypeOK, ReaperTypeOK
    PROVE  /\ OrphanedClaims \subseteq claims
           /\ {c[1] : c \in OrphanedClaims} \subseteq Drivers
  BY DEF StoreTypeOK, ReaperTypeOK, OrphanedClaims

LEMMA ReaperStepType ==
    ASSUME StoreTypeOK, MatcherTypeOK, ReaperTypeOK, FailuresTypeOK,
           queue \in Seq(Trips), ReaperStep, KeepAges
    PROVE  (/\ StoreTypeOK /\ MatcherTypeOK /\ ReaperTypeOK /\ FailuresTypeOK
            /\ queue \in Seq(Trips))'
  <1>1. CASE SweepStrandedTrips
    <2>1. ReaperTypeOK'
      BY <1>1 DEF SweepStrandedTrips, ReaperTypeOK, KeepAges, StaleMatchedTrips, OldRequested
    <2> QED
      BY <1>1, <2>1, StoreUnchangedType, MatcherUnchangedType, NoFailureType
         DEF SweepStrandedTrips
  <1>2. ASSUME NEW t \in Trips, PushStranded(t)
        PROVE  (/\ StoreTypeOK /\ MatcherTypeOK /\ ReaperTypeOK /\ FailuresTypeOK
                /\ queue \in Seq(Trips))'
    <2>1. ReaperTypeOK'
      BY <1>2 DEF PushStranded, ReaperTypeOK, KeepAges
    <2> QED
      BY <1>2, <2>1, PushType, StoreUnchangedType, MatcherUnchangedType, NoFailureType
         DEF PushStranded
  <1>3. CASE SweepOrphanedClaims
    <2>1. ReaperTypeOK'
      BY <1>3, OrphanedClaimsType DEF SweepOrphanedClaims, ReaperTypeOK, KeepAges
    <2> QED
      BY <1>3, <2>1, StoreUnchangedType, MatcherUnchangedType, NoFailureType
         DEF SweepOrphanedClaims
  <1>4. ASSUME NEW d \in Drivers, ReleaseOrphan(d)
        PROVE  (/\ StoreTypeOK /\ MatcherTypeOK /\ ReaperTypeOK /\ FailuresTypeOK
                /\ queue \in Seq(Trips))'
    <2>1. ReaperTypeOK'
      BY <1>4 DEF ReleaseOrphan, ReaperTypeOK, KeepAges
    <2> QED
      BY <1>4, <2>1, DeleteClaimType, MatcherUnchangedType, NoFailureType
         DEF ReleaseOrphan
  <1> QED
    BY <1>1, <1>2, <1>3, <1>4 DEF ReaperStep

LEMMA GrowOldType ==
    ASSUME ReaperTypeOK, ApiTypeOK, GrowOld(minted), KeepAges
    PROVE  ReaperTypeOK'
  BY StoreAssumption DEF GrowOld, ReaperTypeOK, ApiTypeOK, KeepAges

LEMMA ClaimGrowsOldType ==
    ASSUME StoreTypeOK, ReaperTypeOK, NEW c \in claims, ClaimGrowsOld(c)
    PROVE  ReaperTypeOK'
  <1>1. c[1] \in Drivers
    BY DEF StoreTypeOK
  <1>2. (aged \subseteq claims)' /\ (stalled \subseteq Drivers)'
    BY <1>1 DEF ClaimGrowsOld, ReaperTypeOK, storeVars
  <1> QED
    BY <1>2 DEF ClaimGrowsOld, ReaperTypeOK, reaperVars

LEMMA SweepFailsType ==
    ASSUME ReaperTypeOK, FailuresTypeOK, SweepFails, KeepAges
    PROVE  ReaperTypeOK' /\ FailuresTypeOK'
  <1>1. "sweep_failed" \in FailureKinds
    BY DEF FailureKinds
  <1> QED
    BY <1>1, FailType DEF SweepFails, ReaperTypeOK, KeepAges

-----------------------------------------------------------------------------
(* The callers.                                                            *)

LEMMA CallerStepType ==
    ASSUME StoreTypeOK, FailuresTypeOK, queue \in Seq(Trips),
           view \in [Callers -> View \cup {NoView}], NEW c \in Callers, CallerStep(c)
    PROVE  (/\ StoreTypeOK /\ FailuresTypeOK /\ queue \in Seq(Trips)
            /\ view \in [Callers -> View \cup {NoView}])'
  <1>1. ASSUME NEW t \in Trips, ReadTrip(c, t)
        PROVE  (/\ StoreTypeOK /\ FailuresTypeOK /\ queue \in Seq(Trips)
                /\ view \in [Callers -> View \cup {NoView}])'
    <2>1. [trip |-> t, state |-> state[t],
           version |-> version[t], driver |-> driver[t]] \in View
      BY <1>1 DEF ReadTrip, StoreTypeOK, View
    <2>2. (view \in [Callers -> View \cup {NoView}])'
      BY <1>1, <2>1 DEF ReadTrip
    <2> QED
      BY <1>1, <2>2, StoreUnchangedType, NoFailureType DEF ReadTrip
  <1>2. ASSUME NEW dst \in AdvanceTargets, AdvanceTrip(c, dst)
        PROVE  (/\ StoreTypeOK /\ FailuresTypeOK /\ queue \in Seq(Trips)
                /\ view \in [Callers -> View \cup {NoView}])'
    <2>1. dst \in TripStates
      BY DispatchAssumption
    <2>2. view[c].trip \in Trips
      BY <1>2 DEF AdvanceTrip, View
    <2>3. (view \in [Callers -> View \cup {NoView}])'
      BY <1>2 DEF AdvanceTrip
    <2> QED
      BY <1>2, <2>1, <2>2, <2>3, UpdateStateType, NoFailureType DEF AdvanceTrip
  <1>3. CASE AdvanceConflict(c)
    <2>1. (view \in [Callers -> View \cup {NoView}])'
      BY <1>3 DEF AdvanceConflict
    <2> QED
      BY <1>3, <2>1, StoreUnchangedType, NoFailureType DEF AdvanceConflict
  <1> QED
    BY <1>1, <1>2, <1>3 DEF CallerStep

LEMMA ViewUnchangedType ==
    ASSUME view \in [Callers -> View \cup {NoView}], UNCHANGED view
    PROVE  (view \in [Callers -> View \cup {NoView}])'
  OBVIOUS

-----------------------------------------------------------------------------
(* The whole.                                                              *)

LEMMA InitType == Init => TypeOK
  <1> SUFFICES ASSUME Init PROVE TypeOK
    OBVIOUS
  <1>1. StoreTypeOK
    BY DEF Init, StoreInit, StoreTypeOK
  <1>2. MatcherTypeOK
    <2>1. <<>> \in Seq(Drivers)
      BY EmptySeq
    <2> QED
      BY <2>1 DEF Init, MatcherInit, MatcherTypeOK, Busy, Holding
  <1>3. ApiTypeOK
    BY StoreAssumption DEF Init, ApiInit, ApiTypeOK
  <1>4. ReaperTypeOK
    BY StoreAssumption DEF Init, ReaperInit, ReaperTypeOK
  <1>5. FailuresTypeOK
    BY DEF Init, FailuresInit, FailuresTypeOK
  <1>6. queue \in Seq(Trips) /\ view \in [Callers -> View \cup {NoView}]
    BY EmptySeq DEF Init
  <1> QED
    BY <1>1, <1>2, <1>3, <1>4, <1>5, <1>6 DEF TypeOK

LEMMA StepType == TypeOK /\ [Next]_vars => TypeOK'
  <1> SUFFICES ASSUME TypeOK, [Next]_vars PROVE TypeOK'
    OBVIOUS
  <1> USE DEF TypeOK
  <1>1. CASE RequestArrives
    BY <1>1, RequestRideType, MatcherUnchangedType, ReaperUnchangedType,
       ViewUnchangedType DEF RequestArrives
  <1>2. ASSUME NEW h \in Handlers, HandlerMoves(h) PROVE TypeOK'
    BY <1>2, HandlerStepType, MatcherUnchangedType, ReaperUnchangedType,
       ViewUnchangedType DEF HandlerMoves
  <1>3. ASSUME NEW m \in Matchers, MatcherMoves(m) PROVE TypeOK'
    BY <1>3, MatcherStepType, ApiUnchangedType, ReaperUnchangedType,
       ViewUnchangedType DEF MatcherMoves
  <1>4. CASE ReaperMoves
    BY <1>4, ReaperStepType, ApiUnchangedType, ViewUnchangedType DEF ReaperMoves
  <1>5. ASSUME NEW c \in Callers, CallerMoves(c) PROVE TypeOK'
    BY <1>5, CallerStepType, MatcherUnchangedType, ApiUnchangedType,
       ReaperUnchangedType DEF CallerMoves
  <1>6. CASE TimePasses
    <2>1. CASE TripAges
      BY <2>1, GrowOldType, StoreUnchangedType, MatcherUnchangedType,
         ApiUnchangedType, NoFailureType, ViewUnchangedType DEF TripAges, GrowOld
    <2>2. CASE ClaimAges
      BY <2>2, ClaimGrowsOldType, StoreUnchangedType, MatcherUnchangedType,
         ApiUnchangedType, NoFailureType, ViewUnchangedType DEF ClaimAges, ClaimGrowsOld
    <2> QED
      BY <1>6, <2>1, <2>2 DEF TimePasses
  <1>7. CASE ProcessFails
    <2>1. ASSUME NEW m \in Matchers, MatcherFails(m),
                 UNCHANGED <<apiVars, reaperVars, view>>, KeepAges
          PROVE  TypeOK'
      BY <2>1, MatcherFailsType, ApiUnchangedType, ReaperUnchangedType,
         ViewUnchangedType
    <2>2. ASSUME NEW h \in Handlers, HandlerDies(h),
                 UNCHANGED <<matcherVars, reaperVars, view>>, KeepAges
          PROVE  TypeOK'
      BY <2>2, HandlerDiesType, MatcherUnchangedType, ReaperUnchangedType,
         ViewUnchangedType
    <2>3. ASSUME SweepFails, UNCHANGED <<apiVars, view>>, KeepAges
          PROVE  TypeOK'
      BY <2>3, SweepFailsType, StoreUnchangedType, MatcherUnchangedType,
         ApiUnchangedType, ViewUnchangedType DEF SweepFails
    <2>4. ASSUME QueueLost, KeepAges PROVE TypeOK'
      <3>1. (queue \in Seq(Trips))' /\ "queue_lost" \in FailureKinds
        BY <2>4, EmptySeq DEF QueueLost, FailureKinds
      <3> QED
        BY <2>4, <3>1, FailType, StoreUnchangedType, MatcherUnchangedType,
           ApiUnchangedType, ReaperUnchangedType, ViewUnchangedType DEF QueueLost
    <2> QED
      BY <1>7, <2>1, <2>2, <2>3, <2>4 DEF ProcessFails
  <1>8. CASE UNCHANGED vars
    <2>1. /\ UNCHANGED storeVars /\ UNCHANGED matcherVars /\ UNCHANGED apiVars
          /\ UNCHANGED reaperVars /\ UNCHANGED view
          /\ queue' = queue /\ failures' = failures /\ KeepAges
      BY <1>8 DEF vars, ageVars, storeVars, KeepAges, ReaperTypeOK
    <2> QED
      BY <2>1, StoreUnchangedType, MatcherUnchangedType, ApiUnchangedType,
         ReaperUnchangedType, ViewUnchangedType, NoFailureType DEF NoFailure
  <1> QED
    BY <1>1, <1>2, <1>3, <1>4, <1>5, <1>6, <1>7, <1>8 DEF Next

(* Every reachable state is well typed, whatever the constants: a matcher  *)
(* past its pop always has a trip, one past its read a candidate, ids stay *)
(* within those minted, and the tables hold only known drivers and trips.  *)
THEOREM TypeCorrect == Spec => []TypeOK
  BY InitType, StepType, PTL DEF Spec
=============================================================================
