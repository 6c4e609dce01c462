----------------------------- MODULE RowProofs -----------------------------
(***************************************************************************)
(* Proofs about the rows of trips, for any constants and any failures, the *)
(* lost acknowledgements included: what one step of Dispatch can do to a   *)
(* row, and that the table behaves as the abstract Marketplace.            *)
(***************************************************************************)
EXTENDS DispatchProofs

-----------------------------------------------------------------------------
(* The inductive invariant: every copy of a row is stale or still right.   *)
(* UPDATE ... AND version = v then only ever hits a row that is what the   *)
(* writer believes it to be, acknowledged or not.                          *)

RowInv == TypeOK /\ UnmatchedHasNoDriver /\ MatcherCopy /\ CallerCopy

-----------------------------------------------------------------------------
(* The four things a step can do to the table.                             *)

RowsSame == UNCHANGED tripRows

Opened(t, k) ==
    /\ state[t] = "absent" /\ ~KeyTaken(k)
    /\ state' = [state EXCEPT ![t] = "requested"]
    /\ idemKey' = [idemKey EXCEPT ![t] = k]
    /\ UNCHANGED <<driver, version>>

Matched(t, d) ==
    /\ state[t] = "requested" /\ driver[t] = NoDriver
    /\ state' = [state EXCEPT ![t] = "matched"]
    /\ driver' = [driver EXCEPT ![t] = d]
    /\ version' = [version EXCEPT ![t] = @ + 1]
    /\ UNCHANGED idemKey

Moved(t, dst) ==
    /\ CanTransition(state[t], dst)
    /\ state' = [state EXCEPT ![t] = dst]
    /\ version' = [version EXCEPT ![t] = @ + 1]
    /\ UNCHANGED <<driver, idemKey>>

(* Everybody but the handlers writes to rows that are there. *)
RowWrite ==
    \/ RowsSame
    \/ \E m \in Matchers : mpc[m] = "held" /\ Matched(job[m], Tried(m))
    \/ \E c \in Callers, dst \in AdvanceTargets :
          view[c] # NoView /\ Moved(view[c].trip, dst)

RowStep ==
    \/ RowWrite
    \/ \E h \in Handlers : apc[h] = "create" /\ Opened(atrip[h], akey[h])

-----------------------------------------------------------------------------
(* Every step is one of the four.                                          *)

LEMMA UnwrittenRows ==
    ASSUME UNCHANGED storeVars
    PROVE  RowsSame
  BY DEF storeVars, RowsSame, tripRows

(* save_match, acknowledged or not. *)
LEMMA UpdateIsMatched ==
    ASSUME RowInv, NEW m \in Matchers, mpc[m] = "held",
           UpdateMatch(job[m], seen[m], Tried(m))
    PROVE  Matched(job[m], Tried(m))
  <1>1. job[m] \in Trips
    BY DEF RowInv, TypeOK, MatcherTypeOK, Busy, Holding
  <1>2. state[job[m]] = "requested"
    BY DEF RowInv, MatcherCopy, UpdateMatch, VersionMatches
  <1> QED
    BY <1>1, <1>2 DEF RowInv, UnmatchedHasNoDriver, UpdateMatch, Matched

LEMMA MatcherRowWrite ==
    ASSUME RowInv, NEW m \in Matchers, MatcherStep(m) \/ MatcherFails(m)
    PROVE  RowWrite
  <1>1. CASE mpc[m] = "held" /\ UpdateMatch(job[m], seen[m], Tried(m))
    BY <1>1, UpdateIsMatched DEF RowWrite
  <1>2. CASE UNCHANGED storeVars
    BY <1>2, UnwrittenRows DEF RowWrite
  <1>3. CASE RowsSame
    BY <1>3 DEF RowWrite
  <1>4. CASE MatcherStep(m)
    BY <1>1, <1>2, <1>3, <1>4
       DEF MatcherStep, Take, Requeue, Start, LoadDone, Load, Claim, ClaimLost,
           Save, SaveConflict, Release, InsertClaim, DeleteClaim, RowsSame
  <1>5. CASE MatcherFails(m)
    BY <1>1, <1>2, <1>3, <1>5
       DEF MatcherFails, Drain, Kill, RaiseUnheld, ClaimUnacked, RaiseHeld,
           SaveUnacked, ReleaseFails, ReleaseUnacked, InsertClaim, DeleteClaim,
           RowsSame
  <1> QED
    BY <1>4, <1>5

LEMMA CallerRowWrite ==
    ASSUME RowInv, NEW c \in Callers, CallerStep(c)
    PROVE  RowWrite
  <1>1. ASSUME NEW dst \in AdvanceTargets, AdvanceTrip(c, dst) PROVE RowWrite
    <2>1. view[c].trip \in Trips
      BY <1>1 DEF AdvanceTrip, RowInv, TypeOK, View
    <2>2. view[c].state = state[view[c].trip]
      BY <1>1 DEF AdvanceTrip, UpdateState, VersionMatches, RowInv, CallerCopy
    <2> QED
      BY <1>1, <2>1, <2>2 DEF AdvanceTrip, UpdateState, Moved, RowWrite
  <1>2. CASE UNCHANGED storeVars
    BY <1>2, UnwrittenRows DEF RowWrite
  <1> QED
    BY <1>1, <1>2 DEF CallerStep, ReadTrip, AdvanceConflict

LEMMA StepIsRowStep == RowInv /\ [Next]_vars => RowStep
  <1> SUFFICES ASSUME RowInv, [Next]_vars PROVE RowStep
    OBVIOUS
  <1>a. CASE UNCHANGED storeVars
    BY <1>a, UnwrittenRows DEF RowWrite, RowStep
  <1>b. CASE RowsSame
    BY <1>b DEF RowWrite, RowStep
  <1>1. CASE RequestArrives
    BY <1>1, <1>a DEF RequestArrives, RequestRide
  <1>2. ASSUME NEW h \in Handlers, HandlerMoves(h) PROVE RowStep
    <2>1. CASE CreateTrip(h)
      BY <2>1 DEF CreateTrip, InsertTrip, InsertRefused, Opened, RowStep
    <2> QED
      BY <1>2, <1>a, <2>1 DEF HandlerMoves, HandlerStep, CreateCollides, Replay, Accept
  <1>3. ASSUME NEW m \in Matchers, MatcherMoves(m) PROVE RowStep
    BY <1>3, MatcherRowWrite DEF MatcherMoves, RowStep
  <1>4. CASE ReaperMoves
    BY <1>4, <1>a, <1>b DEF ReaperMoves, ReaperStep, SweepStrandedTrips, PushStranded,
                      SweepOrphanedClaims, ReleaseOrphan, DeleteClaim, RowsSame
  <1>5. ASSUME NEW c \in Callers, CallerMoves(c) PROVE RowStep
    BY <1>5, CallerRowWrite DEF CallerMoves, RowStep
  <1>6. CASE TimePasses
    BY <1>6, <1>a DEF TimePasses, TripAges, GrowOld, ClaimAges, ClaimGrowsOld
  <1>7. CASE ProcessFails
    BY <1>7, <1>a, MatcherRowWrite
       DEF ProcessFails, HandlerDies, SweepFails, QueueLost, RowStep
  <1>8. CASE UNCHANGED vars
    BY <1>8, <1>a DEF vars
  <1> QED
    BY <1>1, <1>2, <1>3, <1>4, <1>5, <1>6, <1>7, <1>8 DEF Next

-----------------------------------------------------------------------------
(* The same from the point of view of one row.                             *)

RowKept(t) ==
    /\ state'[t] = state[t] /\ driver'[t] = driver[t]
    /\ version'[t] = version[t] /\ idemKey'[t] = idemKey[t]

RowOpened(t) ==
    /\ state[t] = "absent" /\ state'[t] = "requested"
    /\ driver'[t] = driver[t] /\ version'[t] = version[t]

RowMatched(t) ==
    /\ state[t] = "requested" /\ state'[t] = "matched"
    /\ driver[t] = NoDriver /\ driver'[t] \in Drivers
    /\ version'[t] = version[t] + 1 /\ idemKey'[t] = idemKey[t]

RowMoved(t) ==
    /\ CanTransition(state[t], state'[t])
    /\ driver'[t] = driver[t]
    /\ version'[t] = version[t] + 1 /\ idemKey'[t] = idemKey[t]

RowChange(t) == RowKept(t) \/ RowOpened(t) \/ RowMatched(t) \/ RowMoved(t)

LEMMA RowByRow ==
    ASSUME RowInv, RowStep, NEW t \in Trips
    PROVE  RowChange(t)
  <1>0. StoreTypeOK /\ MatcherTypeOK
    BY DEF RowInv, TypeOK
  <1>1. CASE RowsSame
    BY <1>1 DEF RowsSame, tripRows, RowKept, RowChange
  <1>2. ASSUME NEW h \in Handlers, apc[h] = "create", Opened(atrip[h], akey[h])
        PROVE  RowChange(t)
    BY <1>0, <1>2 DEF Opened, StoreTypeOK, RowKept, RowOpened, RowChange
  <1>3. ASSUME NEW m \in Matchers, mpc[m] = "held", Matched(job[m], Tried(m))
        PROVE  RowChange(t)
    <2>1. Tried(m) \in Drivers
      BY <1>0, <1>3, TriedType DEF Holding
    <2> QED
      BY <1>0, <1>3, <2>1 DEF Matched, StoreTypeOK, RowKept, RowMatched, RowChange
  <1>4. ASSUME NEW c \in Callers, NEW dst \in AdvanceTargets,
               Moved(view[c].trip, dst)
        PROVE  RowChange(t)
    BY <1>0, <1>4 DEF Moved, StoreTypeOK, RowKept, RowMoved, RowChange
  <1> QED
    BY <1>1, <1>2, <1>3, <1>4 DEF RowStep, RowWrite

(* A row once written never disappears, and keeps its key. *)
LEMMA RowsStay ==
    ASSUME RowInv, RowStep, NEW t \in Trips, state[t] # "absent"
    PROVE  state'[t] # "absent" /\ idemKey'[t] = idemKey[t]
  BY RowByRow DEF RowChange, RowKept, RowOpened, RowMatched, RowMoved,
                  CanTransition, Allowed

(* A version counts the writes to its row. *)
LEMMA VersionsCount ==
    ASSUME RowInv, RowStep, NEW t \in Trips
    PROVE  /\ version[t] \in Nat /\ version[t] <= version'[t]
           /\ version'[t] = version[t] /\ state[t] # "absent"
              => state'[t] = state[t] /\ driver'[t] = driver[t]
  <1>1. version[t] \in Nat
    BY DEF RowInv, TypeOK, StoreTypeOK
  <1> QED
    BY <1>1, RowByRow DEF RowChange, RowKept, RowOpened, RowMatched, RowMoved

-----------------------------------------------------------------------------
(* The invariant is inductive.                                             *)

LEMMA StepUnmatched ==
    ASSUME RowInv, RowStep
    PROVE  UnmatchedHasNoDriver'
  <1> SUFFICES ASSUME NEW t \in Trips, state'[t] \in {"absent", "requested"}
               PROVE  driver'[t] = NoDriver
    BY DEF UnmatchedHasNoDriver
  <1>1. state[t] \in {"absent", "requested"} => driver[t] = NoDriver
    BY DEF RowInv, UnmatchedHasNoDriver
  <1> QED
    BY <1>1, RowByRow DEF RowChange, RowKept, RowOpened, RowMatched, RowMoved,
                          CanTransition, Allowed

(* What a matcher's copy says stays stale or right; a copy it has just     *)
(* taken is right.                                                         *)
CopyKept(m) ==
    /\ mpc[m] \in {"claim", "held"}
    /\ job'[m] = job[m] /\ seen'[m] = seen[m]

CopyTaken(m) ==
    /\ UNCHANGED storeVars
    /\ job'[m] \in Trips
    /\ state[job'[m]] = "requested" /\ seen'[m] = version[job'[m]]

CopyStep(m) == mpc'[m] \notin {"claim", "held"} \/ CopyKept(m) \/ CopyTaken(m)

LEMMA CopiesSurvive ==
    ASSUME RowInv, RowStep, \A m \in Matchers : CopyStep(m)
    PROVE  MatcherCopy'
  <1> SUFFICES ASSUME NEW m \in Matchers, mpc'[m] \in {"claim", "held"}
               PROVE  /\ seen'[m] <= version'[job'[m]]
                      /\ seen'[m] = version'[job'[m]] => state'[job'[m]] = "requested"
    BY DEF MatcherCopy
  <1>1. CASE CopyKept(m)
    <2>1. job[m] \in Trips /\ seen[m] \in Nat
      BY <1>1 DEF CopyKept, RowInv, TypeOK, MatcherTypeOK, Busy, Holding
    <2>2. /\ seen[m] <= version[job[m]]
          /\ seen[m] = version[job[m]] => state[job[m]] = "requested"
      BY <1>1 DEF CopyKept, RowInv, MatcherCopy
    <2>3. /\ version[job[m]] \in Nat /\ version'[job[m]] \in Nat
          /\ version[job[m]] <= version'[job[m]]
          /\ version'[job[m]] = version[job[m]] /\ state[job[m]] # "absent"
             => state'[job[m]] = state[job[m]]
      <3>1. version'[job[m]] \in {version[job[m]], version[job[m]] + 1}
        BY <2>1, RowByRow DEF RowChange, RowKept, RowOpened, RowMatched, RowMoved
      <3> QED
        BY <2>1, <3>1, VersionsCount
    <2> QED
      BY <1>1, <2>1, <2>2, <2>3 DEF CopyKept
  <1>2. CASE CopyTaken(m)
    BY <1>2 DEF CopyTaken, storeVars, RowInv, TypeOK, StoreTypeOK
  <1> QED
    BY <1>1, <1>2 DEF CopyStep

LEMMA MatcherCopies ==
    ASSUME RowInv, NEW m \in Matchers, MatcherStep(m) \/ MatcherFails(m),
           NEW n \in Matchers
    PROVE  CopyStep(n)
  <1>0. MatcherTypeOK
    BY DEF RowInv, TypeOK
  <1>a. ASSUME OthersSame(m), CopyStep(m) PROVE CopyStep(n)
    <2>1. CASE n # m /\ mpc'[n] \in {"claim", "held"}
      BY <1>a, <2>1 DEF OthersSame, Same, CopyStep, CopyKept
    <2> QED
      BY <1>a, <2>1 DEF CopyStep
  <1>b. ASSUME NEW pc, Leave(m, pc) \/ Goto(m, pc), pc \notin {"claim", "held"}
        PROVE  CopyStep(n)
    BY <1>0, <1>a, <1>b, LeaveOthers, GotoOthers DEF CopyStep
  <1>c. CASE Escape(m)
    BY <1>0, <1>a, <1>c, EscapeOthers DEF CopyStep
  <1>1. CASE Take(m)
    BY <1>0, <1>1, <1>a DEF Take, MatcherTypeOK, OthersSame, Same, CopyStep
  <1>2. CASE Load(m)
    <2>1. CASE Leave(m, "idle")
      BY <1>b, <2>1
    <2>2. CASE /\ mpc' = [mpc EXCEPT ![m] = "claim"]
               /\ seen' = [seen EXCEPT ![m] = version[job[m]]]
               /\ UNCHANGED job
               /\ \E s \in Nearby[job[m]] :
                     cands' = [cands EXCEPT ![m] = FirstAttempts(s)]
      <3>1. OthersSame(m)
        BY <1>0, <2>2 DEF MatcherTypeOK, OthersSame, Same
      <3>2. CopyTaken(m)
        BY <1>0, <1>2, <2>2 DEF Load, CopyTaken, MatcherTypeOK, Busy
      <3> QED
        BY <1>a, <3>1, <3>2 DEF CopyStep
    <2> QED
      BY <1>2, <2>1, <2>2 DEF Load
  <1>3. CASE Claim(m)
    <2>1. OthersSame(m) /\ CopyKept(m)
      BY <1>0, <1>3, GotoOthers DEF Claim, CopyKept
    <2> QED
      BY <1>a, <2>1 DEF CopyStep
  <1>4. CASE ClaimLost(m)
    <2>1. CASE Leave(m, "idle")
      BY <1>b, <2>1
    <2>2. CASE cands' = [cands EXCEPT ![m] = Tail(@)] /\ UNCHANGED <<mpc, job, seen>>
      <3>1. OthersSame(m) /\ CopyKept(m)
        BY <1>0, <1>4, <2>2 DEF ClaimLost, MatcherTypeOK, OthersSame, Same, CopyKept
      <3> QED
        BY <1>a, <3>1 DEF CopyStep
    <2> QED
      BY <1>4, <2>1, <2>2 DEF ClaimLost
  <1>5. CASE Requeue(m) \/ Start(m) \/ LoadDone(m) \/ Save(m) \/ SaveConflict(m)
             \/ Release(m)
    BY <1>5, <1>b, <1>c DEF Requeue, Start, LoadDone, Save, SaveConflict, Release
  <1>6. CASE MatcherFails(m)
    BY <1>6, <1>b, <1>c
       DEF MatcherFails, Drain, Kill, RaiseUnheld, ClaimUnacked, RaiseHeld,
           SaveUnacked, ReleaseFails, ReleaseUnacked
  <1> QED
    BY <1>1, <1>2, <1>3, <1>4, <1>5, <1>6 DEF MatcherStep

LEMMA StepMatcherCopy ==
    ASSUME RowInv, [Next]_vars
    PROVE  MatcherCopy'
  <1>0. RowStep
    BY StepIsRowStep
  <1>a. ASSUME UNCHANGED matcherVars PROVE MatcherCopy'
    <2>1. \A m \in Matchers : CopyStep(m)
      BY <1>a DEF matcherVars, CopyStep, CopyKept
    <2> QED
      BY <1>0, <2>1, CopiesSurvive
  <1>b. ASSUME NEW m \in Matchers, MatcherStep(m) \/ MatcherFails(m)
        PROVE  MatcherCopy'
    BY <1>0, <1>b, MatcherCopies, CopiesSurvive
  <1>1. CASE RequestArrives \/ ReaperMoves \/ TimePasses
    BY <1>1, <1>a DEF RequestArrives, TimePasses, TripAges, GrowOld, ClaimAges, ClaimGrowsOld,
                      ReaperMoves, ReaperStep,
                      SweepStrandedTrips, PushStranded, SweepOrphanedClaims,
                      ReleaseOrphan
  <1>2. ASSUME NEW h \in Handlers, HandlerMoves(h) PROVE MatcherCopy'
    BY <1>2, <1>a DEF HandlerMoves
  <1>3. ASSUME NEW m \in Matchers, MatcherMoves(m) PROVE MatcherCopy'
    BY <1>3, <1>b DEF MatcherMoves
  <1>4. ASSUME NEW c \in Callers, CallerMoves(c) PROVE MatcherCopy'
    BY <1>4, <1>a DEF CallerMoves
  <1>5. CASE ProcessFails
    BY <1>5, <1>a, <1>b DEF ProcessFails, SweepFails, QueueLost
  <1>6. CASE UNCHANGED vars
    BY <1>6, <1>a DEF vars
  <1> QED
    BY <1>1, <1>2, <1>3, <1>4, <1>5, <1>6 DEF Next

(* So does a caller's copy. *)
ViewStep(c) ==
    \/ view'[c] = NoView
    \/ view'[c] = view[c]
    \/ /\ UNCHANGED storeVars
       /\ view'[c].trip \in Trips
       /\ view'[c].version = version[view'[c].trip]
       /\ view'[c].state = state[view'[c].trip]
       /\ view'[c].driver = driver[view'[c].trip]

LEMMA ViewsSurvive ==
    ASSUME RowInv, RowStep, \A c \in Callers : ViewStep(c)
    PROVE  CallerCopy'
  <1> SUFFICES ASSUME NEW c \in Callers, view'[c] # NoView
               PROVE  /\ view'[c].version <= version'[view'[c].trip]
                      /\ view'[c].version = version'[view'[c].trip] =>
                            /\ view'[c].state = state'[view'[c].trip]
                            /\ view'[c].driver = driver'[view'[c].trip]
    BY DEF CallerCopy
  <1>1. CASE view'[c] = view[c]
    <2> DEFINE t == view[c].trip
    <2>1. t \in Trips /\ view[c].version \in Nat /\ view[c].state # "absent"
      BY <1>1 DEF RowInv, TypeOK, View, TripStates
    <2>2. /\ view[c].version <= version[t]
          /\ view[c].version = version[t] =>
                view[c].state = state[t] /\ view[c].driver = driver[t]
      BY <1>1 DEF RowInv, CallerCopy
    <2>3. version'[t] \in {version[t], version[t] + 1}
      BY <2>1, RowByRow DEF RowChange, RowKept, RowOpened, RowMatched, RowMoved
    <2>4. /\ version[t] \in Nat /\ version[t] <= version'[t]
          /\ version'[t] = version[t] /\ state[t] # "absent"
             => state'[t] = state[t] /\ driver'[t] = driver[t]
      BY <2>1, VersionsCount
    <2> HIDE DEF t
    <2>5. /\ view[c].version <= version'[t]
          /\ view[c].version = version'[t] => version[t] = version'[t]
      BY <2>1, <2>2, <2>3, <2>4
    <2>6. view[c].version = version'[t] =>
             view[c].state = state'[t] /\ view[c].driver = driver'[t]
      BY <2>1, <2>2, <2>4, <2>5
    <2> QED
      BY <1>1, <2>5, <2>6 DEF t
  <1>2. CASE view'[c] # view[c]
    BY <1>2 DEF ViewStep, storeVars, RowInv, TypeOK, StoreTypeOK
  <1> QED
    BY <1>1, <1>2

LEMMA StepCallerCopy ==
    ASSUME RowInv, [Next]_vars
    PROVE  CallerCopy'
  <1>0. RowStep /\ view \in [Callers -> View \cup {NoView}]
    BY StepIsRowStep DEF RowInv, TypeOK
  <1>a. ASSUME UNCHANGED view PROVE CallerCopy'
    BY <1>0, <1>a, ViewsSurvive DEF ViewStep
  <1>1. ASSUME NEW c \in Callers, CallerStep(c) PROVE CallerCopy'
    <2>1. ASSUME NEW t \in Trips, ReadTrip(c, t) PROVE CallerCopy'
      <3>1. \A e \in Callers : ViewStep(e)
        BY <1>0, <2>1 DEF ReadTrip, ViewStep
      <3> QED
        BY <1>0, <3>1, ViewsSurvive
    <2>2. ASSUME NEW dst \in AdvanceTargets, AdvanceTrip(c, dst) PROVE CallerCopy'
      <3>1. \A e \in Callers : ViewStep(e)
        BY <1>0, <2>2 DEF AdvanceTrip, ViewStep
      <3> QED
        BY <1>0, <3>1, ViewsSurvive
    <2>3. CASE AdvanceConflict(c)
      <3>1. \A e \in Callers : ViewStep(e)
        BY <1>0, <2>3 DEF AdvanceConflict, ViewStep
      <3> QED
        BY <1>0, <3>1, ViewsSurvive
    <2> QED
      BY <1>1, <2>1, <2>2, <2>3 DEF CallerStep
  <1>2. CASE RequestArrives \/ ReaperMoves \/ TimePasses \/ ProcessFails
    BY <1>2, <1>a DEF RequestArrives, ReaperMoves, TimePasses, TripAges, ClaimAges,
                      ProcessFails, QueueLost
  <1>3. ASSUME NEW h \in Handlers, HandlerMoves(h) PROVE CallerCopy'
    BY <1>3, <1>a DEF HandlerMoves
  <1>4. ASSUME NEW m \in Matchers, MatcherMoves(m) PROVE CallerCopy'
    BY <1>4, <1>a DEF MatcherMoves
  <1>5. ASSUME NEW c \in Callers, CallerMoves(c) PROVE CallerCopy'
    BY <1>5, <1>1 DEF CallerMoves
  <1>6. CASE UNCHANGED vars
    BY <1>6, <1>a DEF vars
  <1> QED
    BY <1>2, <1>3, <1>4, <1>5, <1>6 DEF Next

LEMMA InitRows == Init => RowInv
  BY InitBooking DEF IInv, Booking, RowInv

LEMMA StepRows == RowInv /\ [Next]_vars => RowInv'
  BY StepType, StepIsRowStep, StepUnmatched, StepMatcherCopy, StepCallerCopy DEF RowInv

LEMMA RowsInductive == Spec => []RowInv
  BY InitRows, StepRows, PTL DEF Spec

-----------------------------------------------------------------------------
(* The theorems.                                                           *)

(* Every writer checks the table of domain.py against its own copy of the  *)
(* row, read at an earlier time; the version guard makes that as good as   *)
(* checking the row itself.  Lost acknowledgements change nothing here.    *)
THEOREM TableFollowed == Spec => TripsFollowTable
  <1>1. RowInv /\ [Next]_vars =>
           [\A t \in Trips : state'[t] # state[t] =>
               \/ state[t] = "absent" /\ state'[t] = "requested"
               \/ CanTransition(state[t], state'[t])]_vars
    <2> SUFFICES ASSUME RowInv, [Next]_vars, NEW t \in Trips, state'[t] # state[t]
                 PROVE  \/ state[t] = "absent" /\ state'[t] = "requested"
                        \/ CanTransition(state[t], state'[t])
      OBVIOUS
    <2>1. RowChange(t)
      BY StepIsRowStep, RowByRow
    <2> QED
      BY <2>1 DEF RowChange, RowKept, RowOpened, RowMatched, RowMoved,
                  CanTransition, Allowed
  <1> QED
    BY <1>1, RowsInductive, PTL DEF Spec, TripsFollowTable

(* A trip that has a driver is never given another, however often its id   *)
(* is delivered, its save retried or its match acknowledged late.          *)
THEOREM DriversKept == Spec => RiderKeepsDriver
  <1>1. RowInv /\ [Next]_vars =>
           [\A t \in Trips : driver[t] # NoDriver => driver'[t] = driver[t]]_vars
    <2> SUFFICES ASSUME RowInv, [Next]_vars, NEW t \in Trips, driver[t] # NoDriver
                 PROVE  driver'[t] = driver[t]
      OBVIOUS
    <2>1. RowChange(t)
      BY StepIsRowStep, RowByRow
    <2> QED
      BY <2>1 DEF RowChange, RowKept, RowOpened, RowMatched, RowMoved
  <1> QED
    BY <1>1, RowsInductive, PTL DEF Spec, RiderKeepsDriver

-----------------------------------------------------------------------------
(* The refinement: the table is a Marketplace.                             *)

(* advance is never asked for MATCHED: it would write no driver, which the *)
(* marketplace does not know. *)
OnlySaveMatches == "matched" \notin AdvanceTargets

LEMMA StepIsMarketStep ==
    ASSUME OnlySaveMatches, IInv, NoneStalled, [Next]_vars
    PROVE  [Market!MarketNext]_(Market!marketVars)
  <1>0. /\ RowInv /\ RowStep
        /\ StoreTypeOK /\ MatcherTypeOK /\ ApiTypeOK
    BY StepIsRowStep DEF IInv, Booking, RowInv, TypeOK
  <1>1. CASE RowsSame
    BY <1>1 DEF RowsSame, tripRows, Market!marketVars
  <1>2. ASSUME NEW h \in Handlers, apc[h] = "create", Opened(atrip[h], akey[h])
        PROVE  Market!MarketNext
    <2>1. atrip[h] \in Trips
      BY <1>0, <1>2 DEF ApiTypeOK
    <2>2. Market!Open(atrip[h])
      BY <1>2 DEF Opened, Market!Open
    <2> QED
      BY <2>1, <2>2 DEF Market!MarketNext
  <1>3. ASSUME NEW m \in Matchers, mpc[m] = "held", Matched(job[m], Tried(m))
        PROVE  Market!MarketNext
    <2>1. job[m] \in Trips
      BY <1>0, <1>3 DEF MatcherTypeOK, Busy, Holding
    <2>2. /\ Tried(m) \in Drivers
          /\ \A t \in Trips : Live(t) => driver[t] # Tried(m)
      BY <1>3, TriedType, HeldIsFree
         DEF Holding, NoneStalled, Spared, IInv, TypeOK
    <2>3. ~Market!OnLiveTrip(Tried(m))
      BY <2>2 DEF Market!OnLiveTrip, Market!LiveStates, Live, LiveStates
    <2>4. Market!CanTransition(state[job[m]], "matched")
      BY <1>3 DEF Matched, Market!CanTransition, Market!Allowed
    <2>5. Market!Match(job[m], Tried(m))
      BY <1>3, <2>3, <2>4 DEF Matched, Market!Match
    <2> QED
      BY <2>1, <2>2, <2>5 DEF Market!MarketNext
  <1>4. ASSUME NEW c \in Callers, NEW dst \in AdvanceTargets,
               view[c] # NoView, Moved(view[c].trip, dst)
        PROVE  Market!MarketNext
    <2>1. view[c].trip \in Trips
      BY <1>4 DEF IInv, TypeOK, View
    <2>2. dst # "matched" /\ dst \in Market!TripStates
      BY DispatchAssumption DEF OnlySaveMatches, TripStates, Market!TripStates
    <2>3. Market!CanTransition(state[view[c].trip], dst)
      BY <1>4 DEF Moved, CanTransition, Allowed, Market!CanTransition, Market!Allowed
    <2>4. Market!Move(view[c].trip, dst)
      BY <1>4, <2>2, <2>3 DEF Moved, Market!Move
    <2> QED
      BY <2>1, <2>2, <2>4 DEF Market!MarketNext
  <1> QED
    BY <1>0, <1>1, <1>2, <1>3, <1>4 DEF RowStep, RowWrite

(* With the store of this repository, which the sweep of claims cannot     *)
(* read, and acknowledgements never lost, the two tables, the queue, the   *)
(* matchers, the reaper and the callers together implement the abstract    *)
(* marketplace: each save is a Match of a driver on no live trip at that   *)
(* very moment, although nobody looks at the other trips.                  *)
THEOREM MarketImplemented ==
    ASSUME NoAckLoss, ~HasConn, OnlySaveMatches
    PROVE  Spec => ImplementsMarketplace
  <1>1. Init => Market!MarketInit
    BY DEF Init, StoreInit, Market!MarketInit
  <1>2. IInv /\ NoneStalled /\ [Next]_vars => [Market!MarketNext]_(Market!marketVars)
    BY StepIsMarketStep
  <1> QED
    BY <1>1, <1>2, Inductive, NeverStalled, PTL DEF Spec, ImplementsMarketplace, Market!MarketSpec
=============================================================================
