----------------------------- MODULE ApiProofs -----------------------------
(***************************************************************************)
(* Proofs about POST /rides and the queue, for any constants and any       *)
(* failures: one trip per idempotency key, a row behind every collision,   *)
(* and no hint without its row.                                            *)
(***************************************************************************)
EXTENDS RowProofs, FiniteSetTheorems

-----------------------------------------------------------------------------
(* The inductive invariant.                                                *)

Present(t) == state[t] # "absent"

RowHasKey(t, k) == Present(t) /\ idemKey[t] = k

(* new_trip_id never returns an id twice: the INSERT of a handler can only *)
(* collide on the key. *)
IdsFresh ==
    /\ \A t \in Trips : Present(t) => t <= minted
    /\ \A h \in Handlers :
          /\ apc[h] # "idle" => atrip[h] <= minted
          /\ apc[h] = "create" => ~Present(atrip[h])
    /\ \A h, g \in Handlers :
          apc[h] # "idle" /\ apc[g] # "idle" /\ atrip[h] = atrip[g] => h = g

OneRowPerKey ==
    \A t, u \in Trips :
        Present(t) /\ Present(u) /\ idemKey[t] = idemKey[u] => t = u

(* What a client was told, or is about to be told, is the row of its key. *)
AnswersNameRows ==
    /\ \A k \in Keys : \A t \in replies[k] : RowHasKey(t, k)
    /\ \A h \in Handlers : apc[h] = "push" => RowHasKey(atrip[h], akey[h])

ApiPart == IdsFresh /\ OneRowPerKey /\ AnswersNameRows /\ CollisionHasRow

(* The queue, the matchers and the reaper only pass on ids of rows. *)
QueueNamesRows    == \A i \in DOMAIN queue : Present(queue[i])
JobsNameRows      == \A m \in Matchers : job[m] # NoTrip => Present(job[m])
StrandedNamesRows == \A t \in stranded : Present(t)

HintPart == QueueNamesRows /\ JobsNameRows /\ StrandedNamesRows

ApiInv == RowInv /\ ApiPart /\ HintPart

-----------------------------------------------------------------------------
(* What a step that inserts no row leaves alone.                           *)

NoNewRow ==
    \A t \in Trips : (Present(t)' <=> Present(t)) /\ idemKey'[t] = idemKey[t]

RowsRemain ==
    \A t \in Trips : Present(t) => Present(t)' /\ idemKey'[t] = idemKey[t]

LEMMA WriteInsertsNothing ==
    ASSUME RowInv, RowWrite
    PROVE  NoNewRow
  <1>0. StoreTypeOK /\ MatcherTypeOK
    BY DEF RowInv, TypeOK
  <1>1. CASE RowsSame
    BY <1>1 DEF RowsSame, tripRows, NoNewRow, Present
  <1>2. ASSUME NEW m \in Matchers, Matched(job[m], Tried(m))
        PROVE  NoNewRow
    BY <1>0, <1>2 DEF Matched, StoreTypeOK, NoNewRow, Present
  <1>3. ASSUME NEW c \in Callers, NEW dst \in AdvanceTargets, Moved(view[c].trip, dst)
        PROVE  NoNewRow
    BY <1>0, <1>3 DEF Moved, CanTransition, Allowed, StoreTypeOK, NoNewRow, Present
  <1> QED
    BY <1>1, <1>2, <1>3 DEF RowWrite

LEMMA StoreUntouched ==
    ASSUME UNCHANGED storeVars
    PROVE  NoNewRow
  BY DEF storeVars, NoNewRow, Present

LEMMA StepKeepsRows ==
    ASSUME RowInv, [Next]_vars
    PROVE  RowsRemain
  BY StepIsRowStep, RowsStay DEF RowsRemain, Present

-----------------------------------------------------------------------------
(* The handlers.                                                           *)

(* Steps of all the others. *)
LEMMA OthersKeepApi ==
    ASSUME TypeOK, ApiPart, NoNewRow, UNCHANGED apiVars
    PROVE  ApiPart'
  <1>0. ApiTypeOK
    BY DEF TypeOK
  <1>1. IdsFresh'
    <2>1. \A h \in Handlers : apc[h] = "create" => atrip[h] \in Trips
      BY <1>0 DEF ApiTypeOK
    <2> QED
      BY <2>1 DEF ApiPart, IdsFresh, NoNewRow, apiVars
  <1>2. OneRowPerKey'
    BY DEF ApiPart, OneRowPerKey, NoNewRow
  <1>3. AnswersNameRows'
    <2>1. /\ \A h \in Handlers : apc[h] = "push" => atrip[h] \in Trips
          /\ \A k \in Keys : replies[k] \subseteq Trips
      BY <1>0 DEF ApiTypeOK
    <2> QED
      BY <2>1 DEF ApiPart, AnswersNameRows, RowHasKey, NoNewRow, apiVars
  <1>4. CollisionHasRow'
    BY DEF ApiPart, CollisionHasRow, KeyTaken, NoNewRow, Present, apiVars
  <1> QED
    BY <1>1, <1>2, <1>3, <1>4 DEF ApiPart

(* A handler is back to idle, having told its client at most the row of    *)
(* its key.                                                                *)
LEMMA ReturnKeepsApi ==
    ASSUME TypeOK, ApiPart, NEW h \in Handlers, Return(h), UNCHANGED storeVars,
           minted' = minted,
           \/ replies' = replies
           \/ \E t \in Trips : RowHasKey(t, akey[h]) /\ Reply(h, t)
    PROVE  ApiPart'
  <1>0. ApiTypeOK /\ state' = state /\ idemKey' = idemKey
    BY DEF TypeOK, storeVars
  <1>1. /\ apc'[h] = "idle"
        /\ \A g \in Handlers : g # h => /\ apc'[g] = apc[g] /\ akey'[g] = akey[g]
                                        /\ atrip'[g] = atrip[g]
    BY <1>0 DEF Return, ApiTypeOK
  <1>2. IdsFresh'
    BY <1>0, <1>1 DEF ApiPart, IdsFresh, Present
  <1>3. OneRowPerKey'
    BY <1>0 DEF ApiPart, OneRowPerKey, Present
  <1>4. AnswersNameRows'
    <2>1. ASSUME NEW k \in Keys, NEW t \in replies'[k] PROVE RowHasKey(t, k)'
      <3>1. t \in replies[k] \/ RowHasKey(t, k)
        BY <1>0, <2>1 DEF Reply, ApiTypeOK
      <3> QED
        BY <1>0, <3>1 DEF ApiPart, AnswersNameRows, RowHasKey, Present
    <2>2. ASSUME NEW g \in Handlers, apc'[g] = "push"
          PROVE  RowHasKey(atrip[g], akey[g])'
      BY <1>0, <1>1, <2>2 DEF ApiPart, AnswersNameRows, RowHasKey, Present
    <2> QED
      BY <2>1, <2>2 DEF AnswersNameRows, RowHasKey, Present
  <1>5. CollisionHasRow'
    BY <1>0, <1>1 DEF ApiPart, CollisionHasRow, KeyTaken
  <1> QED
    BY <1>2, <1>3, <1>4, <1>5 DEF ApiPart

(* The id of a new request is beyond every id minted before. *)
LEMMA RequestKeepsApi ==
    ASSUME TypeOK, ApiPart, NEW h \in Handlers, NEW k \in Keys, RequestRide(h, k)
    PROVE  ApiPart'
  <1>0. ApiTypeOK /\ state' = state /\ idemKey' = idemKey /\ replies' = replies
    BY DEF TypeOK, RequestRide, storeVars
  <1>1. /\ minted \in Nat /\ minted' = minted + 1 /\ minted + 1 \in Trips
        /\ apc'[h] = "create" /\ akey'[h] = k /\ atrip'[h] = minted + 1
        /\ \A g \in Handlers : g # h => /\ apc'[g] = apc[g] /\ akey'[g] = akey[g]
                                        /\ atrip'[g] = atrip[g]
    BY <1>0, StoreAssumption DEF RequestRide, ApiTypeOK, Trips
  <1>2. IdsFresh'
    <2>1. \A t \in Trips : Present(t)' => t <= minted'
      BY <1>0, <1>1, TripIds DEF ApiPart, IdsFresh, Present
    <2>2. ~Present(minted + 1)
      BY <1>1 DEF ApiPart, IdsFresh
    <2>3. \A g \in Handlers : g # h /\ apc[g] # "idle" =>
              atrip[g] \in Nat /\ atrip[g] <= minted
      BY <1>0, TripIds DEF ApiTypeOK, ApiPart, IdsFresh
    <2>4. ASSUME NEW g \in Handlers
          PROVE  /\ apc'[g] # "idle" => atrip'[g] <= minted'
                 /\ apc'[g] = "create" => ~Present(atrip[g])'
      <3>1. CASE g = h
        BY <1>0, <1>1, <2>2, <3>1 DEF Present
      <3>2. CASE g # h
        <4>1. apc[g] # "idle" => atrip[g] <= minted + 1
          BY <1>1, <2>3, <3>2
        <4> QED
          BY <1>0, <1>1, <3>2, <4>1 DEF ApiPart, IdsFresh, Present
      <3> QED
        BY <3>1, <3>2
    <2>5. ASSUME NEW f \in Handlers, NEW g \in Handlers, apc'[f] # "idle",
                 apc'[g] # "idle", atrip'[f] = atrip'[g]
          PROVE  f = g
      <3>1. \A e \in Handlers : e # h /\ apc[e] # "idle" => atrip[e] # minted + 1
        BY <1>1, <2>3
      <3> QED
        BY <1>1, <2>5, <3>1 DEF ApiPart, IdsFresh
    <2> QED
      BY <2>1, <2>4, <2>5 DEF IdsFresh, Present
  <1>3. OneRowPerKey'
    BY <1>0 DEF ApiPart, OneRowPerKey, Present
  <1>4. AnswersNameRows'
    BY <1>0, <1>1 DEF ApiPart, AnswersNameRows, RowHasKey, Present
  <1>5. CollisionHasRow'
    BY <1>0, <1>1 DEF ApiPart, CollisionHasRow, KeyTaken
  <1> QED
    BY <1>2, <1>3, <1>4, <1>5 DEF ApiPart

(* uk_trips_idem: the row inserted is the first of its key. *)
LEMMA CreateKeepsApi ==
    ASSUME TypeOK, ApiPart, NEW h \in Handlers, CreateTrip(h)
    PROVE  ApiPart'
  <1> DEFINE t == atrip[h]
  <1> DEFINE k == akey[h]
  <1>0. ApiTypeOK /\ StoreTypeOK
    BY DEF TypeOK
  <1>1. /\ t \in Trips /\ k \in Keys /\ apc[h] = "create"
        /\ ~Present(t) /\ ~KeyTaken(k)
        /\ state'[t] = "requested" /\ idemKey'[t] = k
        /\ \A u \in Trips : u # t => state'[u] = state[u] /\ idemKey'[u] = idemKey[u]
    BY <1>0 DEF CreateTrip, InsertTrip, InsertRefused, ApiTypeOK, StoreTypeOK, Present
  <1>2. /\ apc'[h] = "push"
        /\ \A g \in Handlers : g # h => apc'[g] = apc[g]
        /\ akey' = akey /\ atrip' = atrip /\ minted' = minted /\ replies' = replies
    BY <1>0 DEF CreateTrip, ApiTypeOK
  <1>3. t <= minted
    BY <1>1 DEF ApiPart, IdsFresh
  <1>4. \A g \in Handlers : g # h /\ apc[g] # "idle" => atrip[g] # t
    BY <1>1 DEF ApiPart, IdsFresh
  <1>5. state'[t] # "absent" /\ \A u \in Trips : u # t => (Present(u)' <=> Present(u))
    BY <1>1 DEF Present
  <1>6. \A u \in Trips : RowHasKey(u, k) => FALSE
    BY <1>1 DEF KeyTaken, RowHasKey, Present
  <1> HIDE DEF t, k
  <1>7. IdsFresh'
    <2>1. \A g \in Handlers : apc[g] # "idle" => atrip[g] \in Trips
      BY <1>0 DEF ApiTypeOK
    <2>2. \A u \in Trips : Present(u)' => u <= minted'
      BY <1>2, <1>3, <1>5 DEF ApiPart, IdsFresh
    <2>3. \A g \in Handlers : apc'[g] # "idle" => apc[g] # "idle"
      BY <1>1, <1>2
    <2>4. ASSUME NEW g \in Handlers
          PROVE  /\ apc'[g] # "idle" => atrip'[g] <= minted'
                 /\ apc'[g] = "create" => ~Present(atrip[g])'
      <3>1. apc'[g] = "create" => g # h /\ apc[g] = "create"
        BY <1>2
      <3>2. apc[g] = "create" /\ g # h => ~Present(atrip[g])'
        BY <1>2, <1>4, <1>5, <2>1 DEF ApiPart, IdsFresh, Present
      <3> QED
        BY <1>2, <2>3, <3>1, <3>2 DEF ApiPart, IdsFresh, Present
    <2>5. \A f, g \in Handlers :
             apc'[f] # "idle" /\ apc'[g] # "idle" /\ atrip'[f] = atrip'[g] => f = g
      BY <1>2, <2>3 DEF ApiPart, IdsFresh
    <2> QED
      BY <2>2, <2>4, <2>5 DEF IdsFresh, Present
  <1>8. OneRowPerKey'
    BY <1>1, <1>5, <1>6 DEF ApiPart, OneRowPerKey, RowHasKey
  <1>9. AnswersNameRows'
    <2>1. \A u \in Trips, j \in Keys : RowHasKey(u, j) => RowHasKey(u, j)'
      BY <1>1, <1>5 DEF RowHasKey, Present
    <2>2. \A j \in Keys : replies[j] \subseteq Trips
      BY <1>0 DEF ApiTypeOK
    <2>3. \A j \in Keys : \A u \in replies'[j] : RowHasKey(u, j)'
      BY <1>2, <2>1, <2>2 DEF ApiPart, AnswersNameRows
    <2>4. ASSUME NEW g \in Handlers, apc'[g] = "push"
          PROVE  RowHasKey(atrip[g], akey[g])'
      <3>1. CASE g = h
        BY <1>1, <1>2, <1>5, <3>1 DEF RowHasKey, Present, t, k
      <3>2. CASE g # h
        <4>1. apc[g] = "push" /\ atrip[g] \in Trips /\ akey[g] \in Keys
          BY <1>0, <1>2, <2>4, <3>2 DEF ApiTypeOK
        <4>2. RowHasKey(atrip[g], akey[g])'
          BY <2>1, <4>1, <1>2 DEF ApiPart, AnswersNameRows, RowHasKey, Present
        <4> QED
          BY <1>2, <4>2 DEF RowHasKey, Present
      <3> QED
        BY <3>1, <3>2
    <2> QED
      BY <2>3, <2>4 DEF AnswersNameRows, RowHasKey, Present
  <1>10. CollisionHasRow'
    <2> SUFFICES ASSUME NEW g \in Handlers, apc'[g] = "lookup"
                 PROVE  KeyTaken(akey[g])'
      BY <1>2 DEF CollisionHasRow, KeyTaken
    <2>1. KeyTaken(akey[g])
      BY <1>2 DEF ApiPart, CollisionHasRow
    <2> QED
      BY <1>1, <1>2, <2>1 DEF KeyTaken, Present
  <1> QED
    BY <1>7, <1>8, <1>9, <1>10 DEF ApiPart

(* With a fresh id only the key can have been refused. *)
LEMMA CollisionKeepsApi ==
    ASSUME TypeOK, ApiPart, NEW h \in Handlers, CreateCollides(h)
    PROVE  ApiPart'
  <1>0. ApiTypeOK /\ state' = state /\ idemKey' = idemKey
    BY DEF TypeOK, CreateCollides, storeVars
  <1>1. /\ apc[h] = "create" /\ apc'[h] = "lookup"
        /\ \A g \in Handlers : g # h => apc'[g] = apc[g]
        /\ akey' = akey /\ atrip' = atrip /\ minted' = minted /\ replies' = replies
    BY <1>0 DEF CreateCollides, ApiTypeOK
  <1>2. KeyTaken(akey[h])
    BY <1>1 DEF CreateCollides, InsertRefused, ApiPart, IdsFresh, Present
  <1>3. IdsFresh' /\ OneRowPerKey' /\ AnswersNameRows'
    BY <1>0, <1>1 DEF ApiPart, IdsFresh, OneRowPerKey, AnswersNameRows, RowHasKey, Present
  <1>4. CollisionHasRow'
    BY <1>0, <1>1, <1>2 DEF ApiPart, CollisionHasRow, KeyTaken
  <1> QED
    BY <1>3, <1>4 DEF ApiPart

LEMMA HandlerKeepsApi ==
    ASSUME TypeOK, ApiPart, NEW h \in Handlers, HandlerStep(h) \/ HandlerDies(h)
    PROVE  ApiPart'
  <1>0. ApiTypeOK
    BY DEF TypeOK
  <1>1. CASE Replay(h)
    BY <1>1, ReturnKeepsApi DEF Replay, RowHasKey, Present
  <1>2. CASE Accept(h)
    <2>1. atrip[h] \in Trips /\ RowHasKey(atrip[h], akey[h])
      BY <1>0, <1>2 DEF Accept, ApiTypeOK, ApiPart, AnswersNameRows
    <2> QED
      BY <1>2, <2>1, ReturnKeepsApi DEF Accept
  <1>3. CASE HandlerDies(h)
    BY <1>3, ReturnKeepsApi DEF HandlerDies
  <1> QED
    BY <1>1, <1>2, <1>3, CreateKeepsApi, CollisionKeepsApi DEF HandlerStep

LEMMA StepApi ==
    ASSUME RowInv, ApiPart, [Next]_vars
    PROVE  ApiPart'
  <1>0. TypeOK
    BY DEF RowInv
  <1>a. ASSUME UNCHANGED apiVars, UNCHANGED storeVars \/ RowWrite PROVE ApiPart'
    BY <1>0, <1>a, OthersKeepApi, StoreUntouched, WriteInsertsNothing
  <1>1. CASE RequestArrives
    BY <1>0, <1>1, RequestKeepsApi DEF RequestArrives
  <1>2. ASSUME NEW h \in Handlers, HandlerMoves(h) PROVE ApiPart'
    BY <1>0, <1>2, HandlerKeepsApi DEF HandlerMoves
  <1>3. ASSUME NEW m \in Matchers, MatcherMoves(m) PROVE ApiPart'
    BY <1>3, <1>a, MatcherRowWrite DEF MatcherMoves
  <1>4. CASE ReaperMoves
    <2>1. UNCHANGED storeVars \/ RowWrite
      BY <1>4 DEF ReaperMoves, ReaperStep, SweepStrandedTrips, PushStranded,
                  SweepOrphanedClaims, ReleaseOrphan, DeleteClaim, RowWrite, RowsSame
    <2> QED
      BY <1>4, <1>a, <2>1 DEF ReaperMoves
  <1>5. ASSUME NEW c \in Callers, CallerMoves(c) PROVE ApiPart'
    BY <1>5, <1>a, CallerRowWrite DEF CallerMoves
  <1>6. CASE TimePasses
    BY <1>6, <1>a DEF TimePasses, TripAges, GrowOld, ClaimAges, ClaimGrowsOld
  <1>7. CASE ProcessFails
    <2>1. ASSUME NEW m \in Matchers, MatcherFails(m), UNCHANGED apiVars PROVE ApiPart'
      BY <2>1, <1>a, MatcherRowWrite
    <2>2. ASSUME NEW h \in Handlers, HandlerDies(h) PROVE ApiPart'
      BY <1>0, <2>2, HandlerKeepsApi
    <2> QED
      BY <1>7, <1>a, <2>1, <2>2 DEF ProcessFails, SweepFails, QueueLost
  <1>8. CASE UNCHANGED vars
    BY <1>8, <1>a DEF vars
  <1> QED
    BY <1>1, <1>2, <1>3, <1>4, <1>5, <1>6, <1>7, <1>8 DEF Next

-----------------------------------------------------------------------------
(* The hints.                                                              *)

LEMMA PushKeepsHints ==
    ASSUME queue \in Seq(Trips), QueueNamesRows, RowsRemain,
           NEW t \in Trips, Present(t), Push(t)
    PROVE  QueueNamesRows'
  <1>1. /\ queue' = Append(queue, t) /\ Len(queue) \in Nat
        /\ DOMAIN queue = 1..Len(queue)
    BY DEF Push
  <1>2. /\ DOMAIN queue' = 1..(Len(queue) + 1)
        /\ queue'[Len(queue) + 1] = t
        /\ \A i \in 1..Len(queue) : queue'[i] = queue[i]
    BY <1>1, AppendProperties
  <1>3. ASSUME NEW i \in DOMAIN queue' PROVE state'[queue'[i]] # "absent"
    <2>1. CASE i = Len(queue) + 1
      BY <1>2, <2>1 DEF RowsRemain, Present
    <2>2. CASE i # Len(queue) + 1
      <3>1. i \in DOMAIN queue /\ queue'[i] = queue[i]
        BY <1>1, <1>2, <1>3, <2>2
      <3>2. queue[i] \in Trips /\ Present(queue[i])
        BY <3>1 DEF QueueNamesRows
      <3> QED
        BY <3>1, <3>2 DEF RowsRemain, Present
    <2> QED
      BY <2>1, <2>2
  <1> QED
    BY <1>3 DEF QueueNamesRows, Present

LEMMA PopKeepsHints ==
    ASSUME queue \in Seq(Trips), QueueNamesRows, RowsRemain, NEW t, Pop(t)
    PROVE  /\ QueueNamesRows'
           /\ t \in Trips /\ Present(t)'
  <1>1. /\ queue # <<>> /\ t = Head(queue) /\ queue' = Tail(queue)
        /\ Len(queue) \in Nat /\ DOMAIN queue = 1..Len(queue)
    BY DEF Pop
  <1>2. Len(queue) # 0
    BY <1>1, EmptySeq
  <1>3. /\ Head(queue) = queue[1]
        /\ Tail(queue) \in Seq(Trips) /\ Len(Tail(queue)) = Len(queue) - 1
        /\ \A i \in 1..Len(Tail(queue)) : Tail(queue)[i] = queue[i + 1]
    BY <1>1, HeadTailProperties
  <1>4. \A i \in 1..Len(queue) : queue[i] \in Trips /\ state'[queue[i]] # "absent"
    BY <1>1 DEF QueueNamesRows, RowsRemain, Present
  <1>5. t \in Trips /\ state'[t] # "absent"
    BY <1>1, <1>2, <1>3, <1>4
  <1>6. ASSUME NEW i \in DOMAIN queue' PROVE state'[queue'[i]] # "absent"
    <2>1. i \in 1..Len(Tail(queue)) /\ i + 1 \in 1..Len(queue)
      BY <1>1, <1>3, <1>6
    <2> QED
      BY <1>1, <1>3, <1>4, <2>1
  <1>7. t' = t => Present(t)'
    BY <1>5 DEF Present
  <1> QED
    BY <1>5, <1>6 DEF QueueNamesRows, Present

LEMMA QueueSameHints ==
    ASSUME queue \in Seq(Trips), QueueNamesRows, RowsRemain, queue' = queue
    PROVE  QueueNamesRows'
  <1>1. \A i \in DOMAIN queue : queue[i] \in Trips
    OBVIOUS
  <1> QED
    BY <1>1 DEF QueueNamesRows, RowsRemain, Present

(* A matcher drops its trip, keeps it, or has just popped it. *)
LEMMA JobsKept ==
    ASSUME MatcherTypeOK, JobsNameRows, RowsRemain,
           \A m \in Matchers : job'[m] \in {NoTrip, job[m]}
    PROVE  JobsNameRows'
  <1> SUFFICES ASSUME NEW m \in Matchers, job'[m] # NoTrip
               PROVE  state'[job'[m]] # "absent"
    BY DEF JobsNameRows, Present
  <1>1. job'[m] = job[m] /\ job[m] \in Trips /\ Present(job[m])
    BY DEF MatcherTypeOK, JobsNameRows
  <1> QED
    BY <1>1 DEF RowsRemain, Present

LEMMA StrandedKept ==
    ASSUME ReaperTypeOK, StrandedNamesRows, RowsRemain, stranded' \subseteq stranded
    PROVE  StrandedNamesRows'
  BY DEF ReaperTypeOK, StrandedNamesRows, RowsRemain, Present

LEMMA MatcherKeepsHints ==
    ASSUME TypeOK, HintPart, RowsRemain, NEW m \in Matchers,
           MatcherStep(m) \/ MatcherFails(m)
    PROVE  QueueNamesRows' /\ JobsNameRows'
  <1>0. /\ MatcherTypeOK /\ queue \in Seq(Trips)
        /\ QueueNamesRows /\ JobsNameRows
    BY DEF TypeOK, HintPart
  <1>1. CASE Take(m)
    <2>1. PICK t \in Trips : Pop(t) /\ job' = [job EXCEPT ![m] = t]
      BY <1>1 DEF Take
    <2>2. QueueNamesRows' /\ state'[t] # "absent"
      BY <1>0, <2>1, PopKeepsHints DEF Present
    <2>3. \A n \in Matchers : job'[n] = IF n = m THEN t ELSE job[n]
      BY <1>0, <2>1 DEF MatcherTypeOK
    <2>4. ASSUME NEW n \in Matchers, job'[n] # NoTrip PROVE state'[job'[n]] # "absent"
      <3>1. n # m => job[n] \in Trips /\ Present(job[n])
        BY <1>0, <2>3, <2>4 DEF MatcherTypeOK, JobsNameRows
      <3> QED
        BY <2>2, <2>3, <3>1 DEF RowsRemain, Present
    <2> QED
      BY <2>2, <2>4 DEF JobsNameRows, Present
  <1>2. CASE Requeue(m)
    <2>1. job[m] \in Trips /\ Present(job[m])
      BY <1>0, <1>2, TripIds DEF Requeue, MatcherTypeOK, Busy, JobsNameRows
    <2>2. \A n \in Matchers : job'[n] \in {NoTrip, job[n]}
      BY <1>0, <1>2 DEF Requeue, Leave, MatcherTypeOK
    <2> QED
      BY <1>0, <1>2, <2>1, <2>2, PushKeepsHints, JobsKept DEF Requeue
  <1>3. CASE queue' = queue /\ (job' = job \/ job' = [job EXCEPT ![m] = NoTrip])
    <2>1. \A n \in Matchers : job'[n] \in {NoTrip, job[n]}
      BY <1>0, <1>3 DEF MatcherTypeOK
    <2> QED
      BY <1>0, <1>3, <2>1, QueueSameHints, JobsKept
  <1>4. CASE MatcherStep(m)
    BY <1>1, <1>2, <1>3, <1>4
       DEF MatcherStep, Start, LoadDone, Load, Claim, ClaimLost, Save, SaveConflict,
           Release, Leave, Goto, Escape
  <1>5. CASE MatcherFails(m)
    BY <1>3, <1>5
       DEF MatcherFails, Drain, Kill, RaiseUnheld, ClaimUnacked, RaiseHeld,
           SaveUnacked, ReleaseFails, ReleaseUnacked, Leave, Goto, Escape
  <1> QED
    BY <1>4, <1>5

LEMMA HandlerKeepsHints ==
    ASSUME TypeOK, ApiPart, HintPart, RowsRemain, NEW h \in Handlers,
           HandlerStep(h) \/ HandlerDies(h)
    PROVE  QueueNamesRows'
  <1>0. queue \in Seq(Trips) /\ QueueNamesRows /\ ApiTypeOK
    BY DEF TypeOK, HintPart
  <1>1. CASE Accept(h)
    <2>1. atrip[h] \in Trips /\ Present(atrip[h])
      BY <1>0, <1>1 DEF Accept, ApiTypeOK, ApiPart, AnswersNameRows, RowHasKey
    <2> QED
      BY <1>0, <1>1, <2>1, PushKeepsHints DEF Accept
  <1>2. CASE queue' = queue
    BY <1>0, <1>2, QueueSameHints
  <1> QED
    BY <1>1, <1>2 DEF HandlerStep, CreateTrip, CreateCollides, Replay, HandlerDies

LEMMA ReaperKeepsHints ==
    ASSUME TypeOK, HintPart, RowsRemain, ReaperStep
    PROVE  QueueNamesRows' /\ StrandedNamesRows'
  <1>0. /\ queue \in Seq(Trips) /\ ReaperTypeOK
        /\ QueueNamesRows /\ StrandedNamesRows
    BY DEF TypeOK, HintPart
  <1>1. CASE SweepStrandedTrips
    <2>1. StrandedNamesRows'
      BY <1>1 DEF SweepStrandedTrips, StaleMatchedTrips, OldRequested, storeVars,
                  StrandedNamesRows, Present
    <2> QED
      BY <1>0, <1>1, <2>1, QueueSameHints DEF SweepStrandedTrips
  <1>2. ASSUME NEW t \in Trips, PushStranded(t)
        PROVE  QueueNamesRows' /\ StrandedNamesRows'
    <2>1. Present(t)
      BY <1>0, <1>2 DEF PushStranded, StrandedNamesRows
    <2> QED
      BY <1>0, <1>2, <2>1, PushKeepsHints, StrandedKept DEF PushStranded
  <1>3. CASE SweepOrphanedClaims
    BY <1>0, <1>3, QueueSameHints, StrandedKept DEF SweepOrphanedClaims
  <1>4. ASSUME NEW d \in Drivers, ReleaseOrphan(d)
        PROVE  QueueNamesRows' /\ StrandedNamesRows'
    BY <1>0, <1>4, QueueSameHints, StrandedKept DEF ReleaseOrphan
  <1> QED
    BY <1>1, <1>2, <1>3, <1>4 DEF ReaperStep

LEMMA StepHints ==
    ASSUME ApiInv, [Next]_vars
    PROVE  HintPart'
  <1>0. /\ TypeOK /\ ApiPart /\ HintPart /\ RowsRemain
        /\ queue \in Seq(Trips) /\ MatcherTypeOK /\ ReaperTypeOK
        /\ QueueNamesRows /\ JobsNameRows /\ StrandedNamesRows
    BY StepKeepsRows DEF ApiInv, RowInv, TypeOK, HintPart
  <1>a. ASSUME queue' = queue PROVE QueueNamesRows'
    BY <1>0, <1>a, QueueSameHints
  <1>b. ASSUME UNCHANGED matcherVars PROVE JobsNameRows'
    BY <1>0, <1>b, JobsKept DEF matcherVars
  <1>c. ASSUME UNCHANGED stranded PROVE StrandedNamesRows'
    BY <1>0, <1>c, StrandedKept
  <1>1. CASE RequestArrives
    BY <1>1, <1>a, <1>b, <1>c DEF RequestArrives, RequestRide, reaperVars, HintPart
  <1>2. ASSUME NEW h \in Handlers, HandlerMoves(h) PROVE HintPart'
    BY <1>0, <1>2, <1>b, <1>c, HandlerKeepsHints DEF HandlerMoves, reaperVars, HintPart
  <1>3. ASSUME NEW m \in Matchers, MatcherMoves(m) PROVE HintPart'
    BY <1>0, <1>3, <1>c, MatcherKeepsHints DEF MatcherMoves, reaperVars, HintPart
  <1>4. CASE ReaperMoves
    <2>1. UNCHANGED matcherVars
      BY <1>4 DEF ReaperMoves, ReaperStep, SweepStrandedTrips, PushStranded,
                  SweepOrphanedClaims, ReleaseOrphan
    <2> QED
      BY <1>0, <1>4, <1>b, <2>1, ReaperKeepsHints DEF ReaperMoves, HintPart
  <1>5. ASSUME NEW c \in Callers, CallerMoves(c) PROVE HintPart'
    BY <1>5, <1>a, <1>b, <1>c DEF CallerMoves, CallerStep, ReadTrip, AdvanceTrip,
                                  AdvanceConflict, reaperVars, HintPart
  <1>6. CASE TimePasses
    BY <1>6, <1>a, <1>b, <1>c DEF TimePasses, TripAges, GrowOld, ClaimAges, ClaimGrowsOld,
                                reaperVars, HintPart
  <1>7. CASE ProcessFails
    <2>1. ASSUME NEW m \in Matchers, MatcherFails(m), UNCHANGED reaperVars
          PROVE  HintPart'
      BY <1>0, <1>c, <2>1, MatcherKeepsHints DEF reaperVars, HintPart
    <2>2. ASSUME NEW h \in Handlers, HandlerDies(h), UNCHANGED <<matcherVars, reaperVars>>
          PROVE  HintPart'
      BY <1>0, <1>b, <1>c, <2>2, HandlerKeepsHints DEF reaperVars, HintPart
    <2>3. CASE SweepFails
      BY <1>a, <1>b, <2>3 DEF SweepFails, StrandedNamesRows, HintPart
    <2>4. CASE QueueLost
      BY <1>b, <1>c, <2>4 DEF QueueLost, QueueNamesRows, reaperVars, HintPart
    <2> QED
      BY <1>7, <2>1, <2>2, <2>3, <2>4 DEF ProcessFails
  <1>8. CASE UNCHANGED vars
    BY <1>8, <1>a, <1>b, <1>c DEF vars, reaperVars, HintPart
  <1> QED
    BY <1>1, <1>2, <1>3, <1>4, <1>5, <1>6, <1>7, <1>8 DEF Next

-----------------------------------------------------------------------------
(* The theorems.                                                           *)

LEMMA InitApi == Init => ApiInv
  <1> SUFFICES ASSUME Init PROVE ApiPart /\ HintPart
    BY InitRows DEF ApiInv
  <1>1. ApiPart
    BY DEF Init, StoreInit, ApiInit, ApiPart, IdsFresh, OneRowPerKey,
           AnswersNameRows, CollisionHasRow, Present
  <1>2. HintPart
    BY DEF Init, MatcherInit, ReaperInit, HintPart, QueueNamesRows, JobsNameRows,
           StrandedNamesRows
  <1> QED
    BY <1>1, <1>2

LEMMA ApiInductive == Spec => []ApiInv
  <1>1. ApiInv /\ [Next]_vars => ApiInv'
    BY StepRows, StepApi, StepHints DEF ApiInv
  <1> QED
    BY <1>1, InitApi, PTL DEF Spec

(* At most one row carries a key, and every answer to a request with that  *)
(* key names it: however many handlers race on the key, die at any point   *)
(* or lose the acknowledgement of their INSERT.                            *)
THEOREM KeysNameOneTrip == Spec => []OneTripPerKey
  <1>1. ApiInv => OneTripPerKey
    <2> SUFFICES ASSUME ApiInv, NEW k \in Keys
                 PROVE  /\ replies[k] \subseteq {t \in Trips : RowHasKey(t, k)}
                        /\ Cardinality({t \in Trips : RowHasKey(t, k)}) <= 1
      BY DEF OneTripPerKey, RowHasKey, Present
    <2> DEFINE rows == {t \in Trips : RowHasKey(t, k)}
    <2>1. replies[k] \subseteq rows
      BY DEF ApiInv, RowInv, TypeOK, ApiTypeOK, ApiPart, AnswersNameRows
    <2>2. \A t, u \in rows : t = u
      BY DEF ApiInv, ApiPart, OneRowPerKey, RowHasKey
    <2>3. rows = {} \/ \E t : rows = {t}
      BY <2>2
    <2>4. Cardinality(rows) = 0 \/ Cardinality(rows) = 1
      BY <2>3, FS_EmptySet, FS_Singleton
    <2> QED
      BY <2>1, <2>4
  <1> QED
    BY <1>1, ApiInductive, PTL

(* A handler whose INSERT was refused finds a row to answer with.          *)
THEOREM CollisionsResolve == Spec => []CollisionHasRow
  <1>1. ApiInv => CollisionHasRow
    BY DEF ApiInv, ApiPart
  <1> QED
    BY <1>1, ApiInductive, PTL

(* No id travels through queue or matcher ahead of its row: not pushed by  *)
(* a handler, pushed back by a failed match, or pushed again by the reaper.*)
THEOREM HintsFollowRows == Spec => []HintsNameRows
  <1>1. ApiInv => HintsNameRows
    BY DEF ApiInv, HintPart, QueueNamesRows, JobsNameRows, HintsNameRows, Present
  <1> QED
    BY <1>1, ApiInductive, PTL
=============================================================================
