----------------------------- MODULE GeoProofs -----------------------------
(***************************************************************************)
(* FreshIsListed, and that GeoIndex implements DriverBoard, for any number *)
(* of drivers and handlers, any points, cells and rings, either client.    *)
(***************************************************************************)
EXTENDS GeoIndex, TLAPS

(* A search that is under way. *)
Searching == phase \in {"read", "load"}

(* reach bounds the ring in which each driver is to be seen now. *)
Watched ==
    pickup # NoPickup =>
        \A d \in Drivers :
            /\ hash[d] = Nowhere \/ d \in ghosts => reach[d] = TooFar
            /\ hash[d] # Nowhere => RingOf(pickup, hash[d]) <= reach[d]

(* A search that came to a ring has seen nobody in those before, and loads *)
(* whoever was to be seen in this one all along.                           *)
NobodyNearer == Searching /\ ring # 1 => \A d \in Drivers : ring <= reach[d]
NobodyMissed == phase = "load" => \A d \in Drivers : reach[d] <= ring => d \in ids

FoundWhenDone == phase # "done" => found = {}

GeoIInv ==
    /\ GeoTypeOK
    /\ FreshIsListed
    /\ Watched
    /\ NobodyNearer
    /\ NobodyMissed
    /\ FoundWhenDone

-----------------------------------------------------------------------------
(* The grid                                                                *)

LEMMA CellsArePairs ==
    \A p \in Points : CellOf(p) \in Int \X Int
<1> TAKE p \in Points
<1>1. p[1] \in Int /\ p[2] \in Int
  BY GeoAssumption
<1>2. p[1] \div CellSize \in Int /\ p[2] \div CellSize \in Int
  BY <1>1, GeoAssumption
<1> QED
  BY <1>2 DEF CellOf

LEMMA GapBetween ==
    \A i, j \in Int, r \in Nat :
        /\ Gap(i, j) \in Nat
        /\ Gap(i, j) <= r => \E k \in (-r)..r : j = i + k
<1> TAKE i, j \in Int, r \in Nat
<1>1. Gap(i, j) \in Nat
  BY DEF Gap
<1>2. Gap(i, j) <= r => j - i \in (-r)..r /\ j = i + (j - i)
  BY DEF Gap
<1> QED
  BY <1>1, <1>2

LEMMA RingsAreRings ==
    \A p, q \in Points : RingOf(p, q) \in 1..TooFar
<1> TAKE p, q \in Points
<1> DEFINE i == Gap(CellOf(p)[1], CellOf(q)[1])
           j == Gap(CellOf(p)[2], CellOf(q)[2])
<1>1. i \in Nat /\ j \in Nat
  BY CellsArePairs, GapBetween
<1> DEFINE far == Farther(i, j)
<1> HIDE DEF i, j
<1>2. far \in Nat
  BY <1>1 DEF Farther
<1>3. RingOf(p, q) = IF far > MaxRing THEN TooFar ELSE Farther(1, far)
  BY DEF RingOf, i, j
<1>4. MaxRing \in Nat /\ 1 <= MaxRing
  BY GeoAssumption
<1> HIDE DEF far
<1> QED
  BY <1>2, <1>3, <1>4 DEF Farther, TooFar

(* The cell of q is among the cells that nearby reads for its ring. *)
LEMMA RingHoldsCell ==
    ASSUME NEW p \in Points, NEW q \in Points, NEW r \in Rings,
           RingOf(p, q) <= r
    PROVE  CellOf(q) \in Neighbours(p, r)
<1> DEFINE a == CellOf(p)[1]
           b == CellOf(p)[2]
           x == CellOf(q)[1]
           y == CellOf(q)[2]
<1>1. a \in Int /\ b \in Int /\ x \in Int /\ y \in Int /\ CellOf(q) = <<x, y>>
  BY CellsArePairs
<1>2. RingOf(p, q) = IF Farther(Gap(a, x), Gap(b, y)) > MaxRing
                     THEN TooFar ELSE Farther(1, Farther(Gap(a, x), Gap(b, y)))
  BY DEF RingOf
<1>3. Neighbours(p, r) = {<<a + di, b + dj>> : di, dj \in (-r)..r}
  BY DEF Neighbours
<1> HIDE DEF a, b, x, y
<1>4. r \in Nat /\ r <= MaxRing /\ MaxRing \in Nat
  BY GeoAssumption DEF Rings
<1>5. Gap(a, x) \in Nat /\ Gap(b, y) \in Nat
  BY <1>1, GapBetween, <1>4
<1>6. Gap(a, x) <= r /\ Gap(b, y) <= r
  BY <1>2, <1>4, <1>5 DEF Farther, TooFar
<1>7. PICK di \in (-r)..r : x = a + di
  BY <1>1, <1>4, <1>6, GapBetween
<1>8. PICK dj \in (-r)..r : y = b + dj
  BY <1>1, <1>4, <1>6, GapBetween
<1> QED
  BY <1>1, <1>3, <1>7, <1>8

LEMMA FartherBounds ==
    \A r, s \in 0..TooFar :
        /\ Farther(r, s) \in 0..TooFar
        /\ r <= Farther(r, s) /\ s <= Farther(r, s)
        /\ r = TooFar \/ s = TooFar => Farther(r, s) = TooFar
BY GeoAssumption DEF Farther, TooFar

LEMMA PointsOfRequests ==
    ASSUME GeoTypeOK, NEW h \in Handlers, request[h] # NoRequest
    PROVE  /\ request[h].driver \in Drivers
           /\ request[h].to \in Points \cup {Nowhere}
           /\ request[h].was \in Cells \cup {NoCell}
BY DEF GeoTypeOK, Requests

-----------------------------------------------------------------------------
(* What a step does to a driver's hash keeps the books of a search.        *)
LEMMA WatchedAfter ==
    ASSUME GeoTypeOK, Watched,
           NEW d \in Drivers, NEW w \in Points \cup {Nowhere}, NEW r \in 1..TooFar,
           w = Nowhere => r = TooFar,
           pickup # NoPickup /\ w # Nowhere => RingOf(pickup, w) <= r,
           hash' = [hash EXCEPT ![d] = w],
           Observed(d, r), UNCHANGED <<phase, pickup>>
    PROVE  /\ Watched'
           /\ reach' \in [Drivers -> 0..TooFar] /\ ghosts' \subseteq Drivers
           /\ \A e \in Drivers : reach[e] <= reach'[e]
<1>1. hash \in [Drivers -> Points \cup {Nowhere}] /\ reach \in [Drivers -> 0..TooFar]
  BY DEF GeoTypeOK
<1>2. r \in 0..TooFar /\ TooFar \in Nat
  BY GeoAssumption DEF TooFar
<1>3. CASE phase = "idle"
  <2>1. pickup' = NoPickup /\ reach' = reach /\ ghosts' = ghosts \ {d}
    BY <1>3 DEF GeoTypeOK, Observed
  <2> QED
    BY <1>1, <1>2, <2>1 DEF Watched, GeoTypeOK
<1>4. CASE phase # "idle"
  <2>1. /\ pickup' = pickup /\ pickup # NoPickup
        /\ reach' = [reach EXCEPT ![d] = Farther(@, r)]
        /\ ghosts' = ghosts \ {d}
    BY <1>4 DEF GeoTypeOK, Observed
  <2>2. /\ Farther(reach[d], r) \in 0..TooFar
        /\ reach[d] <= Farther(reach[d], r) /\ r <= Farther(reach[d], r)
        /\ r = TooFar => Farther(reach[d], r) = TooFar
        /\ reach[d] = TooFar => Farther(reach[d], r) = TooFar
    BY <1>1, <1>2, FartherBounds
  <2>3. reach' \in [Drivers -> 0..TooFar] /\ reach'[d] = Farther(reach[d], r)
        /\ \A e \in Drivers \ {d} : reach'[e] = reach[e]
    BY <1>1, <2>1, <2>2
  <2>4. hash'[d] = w /\ \A e \in Drivers \ {d} : hash'[e] = hash[e]
    BY <1>1
  <2>5. \A e \in Drivers : reach[e] <= reach'[e]
    <3> TAKE e \in Drivers
    <3>1. reach[e] \in 0..TooFar
      BY <1>1
    <3> QED
      BY <1>2, <2>2, <2>3, <3>1
  <2>6. w # Nowhere => RingOf(pickup, w) <= reach'[d]
    <3> SUFFICES ASSUME w # Nowhere
                 PROVE  RingOf(pickup, w) <= reach'[d]
      OBVIOUS
    <3>1. pickup \in Points
      BY <2>1, GeoAssumption DEF GeoTypeOK
    <3>2. RingOf(pickup, w) \in 1..TooFar
      BY <3>1, RingsAreRings
    <3>3. Farther(reach[d], r) \in 0..TooFar
      BY <2>2
    <3> QED
      BY <1>2, <2>1, <2>2, <2>3, <3>2, <3>3
  <2>7. Watched'
    <3> SUFFICES ASSUME NEW e \in Drivers
                 PROVE  /\ hash'[e] = Nowhere \/ e \in ghosts' => reach'[e] = TooFar
                        /\ hash'[e] # Nowhere => RingOf(pickup, hash'[e]) <= reach'[e]
      BY <2>1 DEF Watched
    <3>1. CASE e = d
      BY <2>1, <2>2, <2>3, <2>4, <2>6, <3>1
    <3>2. CASE e # d
      BY <2>1, <2>3, <2>4, <3>2 DEF Watched
    <3> QED
      BY <3>1, <3>2
  <2> QED
    BY <2>1, <2>3, <2>5, <2>7 DEF GeoTypeOK
<1> QED
  BY <1>3, <1>4

(* A search that stands where it stood keeps what it knows.                *)
LEMMA SearchUndisturbed ==
    ASSUME GeoTypeOK, NobodyNearer, NobodyMissed, FoundWhenDone,
           UNCHANGED <<phase, ring, ids, found>>,
           reach' \in [Drivers -> 0..TooFar],
           \A d \in Drivers : reach[d] <= reach'[d]
    PROVE  NobodyNearer' /\ NobodyMissed' /\ FoundWhenDone'
<1>1. ring \in Nat /\ TooFar \in Nat
  BY GeoAssumption DEF GeoTypeOK, Rings, TooFar
<1>2. \A d \in Drivers : reach[d] \in Nat /\ reach'[d] \in Nat
  BY <1>1 DEF GeoTypeOK
<1>3. NobodyNearer'
  BY <1>1, <1>2 DEF NobodyNearer, Searching
<1>4. NobodyMissed'
  BY <1>1, <1>2 DEF NobodyMissed
<1> QED
  BY <1>3, <1>4 DEF FoundWhenDone

(* Whoever was to be seen in this ring all along is in one of its sets.    *)
LEMMA SeenIsRead ==
    ASSUME GeoTypeOK, FreshIsListed, Watched, pickup # NoPickup,
           NEW d \in Drivers, reach[d] <= ring
    PROVE  /\ hash[d] # Nowhere /\ d \notin ghosts
           /\ \E c \in Neighbours(pickup, ring) : <<c, d>> \in members
<1>1. /\ ring \in Rings /\ pickup \in Points /\ reach[d] \in 0..TooFar
      /\ hash[d] \in Points \cup {Nowhere}
  BY GeoAssumption DEF GeoTypeOK
<1>2. ring \in Nat /\ ring < TooFar /\ TooFar \in Nat
  BY <1>1, GeoAssumption DEF Rings, TooFar
<1>3. reach[d] # TooFar
  BY <1>1, <1>2
<1>4. hash[d] # Nowhere /\ d \notin ghosts
  BY <1>3 DEF Watched
<1>5. hash[d] \in Points /\ RingOf(pickup, hash[d]) <= reach[d]
  BY <1>1, <1>4 DEF Watched
<1>6. RingOf(pickup, hash[d]) \in 1..TooFar
  BY <1>1, <1>5, RingsAreRings
<1>7. RingOf(pickup, hash[d]) <= ring
  BY <1>1, <1>2, <1>5, <1>6
<1>8. CellOf(hash[d]) \in Neighbours(pickup, ring)
  BY <1>1, <1>5, <1>7, RingHoldsCell
<1> QED
  BY <1>4, <1>8 DEF FreshIsListed

-----------------------------------------------------------------------------
(* One step keeps GeoIInv.                                                 *)
LEMMA IInvInit == GeoInit => GeoIInv
<1> SUFFICES ASSUME GeoInit
             PROVE  GeoIInv
  OBVIOUS
<1>1. GeoTypeOK
  BY GeoAssumption, ClientAssumption DEF GeoInit, GeoTypeOK, Rings, TooFar
<1>2. FreshIsListed /\ Watched /\ NobodyNearer /\ NobodyMissed /\ FoundWhenDone
  BY DEF GeoInit, FreshIsListed, Watched, NobodyNearer, NobodyMissed, Searching, FoundWhenDone
<1> QED
  BY <1>1, <1>2 DEF GeoIInv

(* Drivers and requests come and go; the index and the search stand still. *)
LEMMA IInvAround ==
    ASSUME GeoIInv, UNCHANGED <<decodes, index, search, ghosts, reach>>,
           onShift' \subseteq Drivers,
           request' \in [Handlers -> Requests \cup {NoRequest}]
    PROVE  GeoIInv'
<1>1. GeoTypeOK'
  BY DEF GeoIInv, GeoTypeOK, index, search
<1>2. /\ FreshIsListed' /\ Watched'
      /\ NobodyNearer' /\ NobodyMissed' /\ FoundWhenDone'
  BY DEF GeoIInv, FreshIsListed, Watched, NobodyNearer, NobodyMissed, Searching,
         FoundWhenDone, index, search
<1> QED
  BY <1>1, <1>2 DEF GeoIInv

LEMMA IInvRequests ==
    ASSUME GeoIInv,
           \/ \E d \in Drivers : StartShift(d) \/ EndShift(d)
           \/ \E h \in Handlers, d \in Drivers :
                 \/ \E p \in Points : HeartbeatArrives(h, d, p)
                 \/ OfflineArrives(h, d)
           \/ \E h \in Handlers : HandlerDies(h)
    PROVE  GeoIInv'
<1>1. request \in [Handlers -> Requests \cup {NoRequest}] /\ onShift \subseteq Drivers
  BY DEF GeoIInv, GeoTypeOK
<1>2. CASE \E d \in Drivers : StartShift(d) \/ EndShift(d)
  BY <1>1, <1>2, IInvAround DEF StartShift, EndShift
<1>3. ASSUME NEW h \in Handlers, NEW d \in Drivers, NEW w \in Points \cup {Nowhere},
             Arrives(h, d, w)
      PROVE  GeoIInv'
  <2>1. CellRead(d) \in Cells \cup {NoCell}
    BY DEF CellRead, Cells, GeoIInv, GeoTypeOK
  <2>2. [driver |-> d, to |-> w, was |-> CellRead(d)] \in Requests
    BY <2>1 DEF Requests
  <2> QED
    BY <1>1, <1>3, <2>2, IInvAround DEF Arrives
<1>4. CASE \E h \in Handlers : HandlerDies(h)
  BY <1>1, <1>4, IInvAround DEF HandlerDies, Done
<1> QED
  BY <1>2, <1>3, <1>4 DEF HeartbeatArrives, OfflineArrives

(* A pipeline lists the driver where it says he is, whatever it evicts.    *)
LEMMA IInvHeartbeat ==
    ASSUME GeoIInv, NEW h \in Handlers, Heartbeat(h)
    PROVE  GeoIInv'
<1> DEFINE m == request[h]
<1>1. /\ m.driver \in Drivers /\ m.to \in Points
      /\ m.was \in Cells \cup {NoCell}
  BY PointsOfRequests DEF Heartbeat, GeoIInv
<1>2. /\ members' = (members \ Evicted(m)) \cup {<<CellOf(m.to), m.driver>>}
      /\ hash' = [hash EXCEPT ![m.driver] = m.to]
      /\ silent' = silent \ {m.driver}
      /\ Observed(m.driver, RingOf(pickup, m.to))
      /\ request' = [request EXCEPT ![h] = NoRequest]
      /\ UNCHANGED <<decodes, onShift, search>>
  BY DEF Heartbeat, Listed, Done
<1> HIDE DEF m
<1>3. hash \in [Drivers -> Points \cup {Nowhere}]
  BY DEF GeoIInv, GeoTypeOK
<1>4. Evicted(m) \subseteq (Cells \cup {NoCell}) \X {m.driver}
  BY <1>1 DEF Evicted
<1>5. /\ Watched' /\ reach' \in [Drivers -> 0..TooFar] /\ ghosts' \subseteq Drivers
      /\ \A e \in Drivers : reach[e] <= reach'[e]
  <2>1. CASE phase = "idle"
    <3>1. Observed(m.driver, TooFar) /\ pickup = NoPickup
      BY <1>2, <2>1 DEF Observed, GeoIInv, GeoTypeOK
    <3>2. TooFar \in 1..TooFar
      BY GeoAssumption DEF TooFar
    <3> QED
      BY <1>1, <1>2, <3>1, <3>2, WatchedAfter DEF GeoIInv, search
  <2>2. CASE phase # "idle"
    <3>1. pickup \in Points
      BY <2>2, GeoAssumption DEF GeoIInv, GeoTypeOK
    <3>2. RingOf(pickup, m.to) \in 1..TooFar
      BY <1>1, <3>1, RingsAreRings
    <3>3. m.to # Nowhere /\ RingOf(pickup, m.to) <= RingOf(pickup, m.to)
      BY <1>1, <3>2, GeoAssumption
    <3> QED
      BY <1>1, <1>2, <3>2, <3>3, WatchedAfter DEF GeoIInv, search
  <2> QED
    BY <2>1, <2>2
<1>6. FreshIsListed'
  <2> SUFFICES ASSUME NEW d \in Drivers, hash'[d] # Nowhere
               PROVE  <<CellOf(hash'[d]), d>> \in members'
    BY DEF FreshIsListed
  <2>1. CASE d = m.driver
    BY <1>2, <1>3, <2>1
  <2>2. CASE d # m.driver
    <3>1. hash'[d] = hash[d]
      BY <1>2, <1>3, <2>2
    <3>2. <<CellOf(hash[d]), d>> \in members
      BY <3>1 DEF GeoIInv, FreshIsListed
    <3>3. <<CellOf(hash[d]), d>> \notin Evicted(m)
      BY <1>4, <2>2
    <3> QED
      BY <1>2, <3>1, <3>2, <3>3
  <2> QED
    BY <2>1, <2>2
<1>7. GeoTypeOK'
  <2>1. CellOf(m.to) \in Cells
    BY <1>1 DEF Cells
  <2>2. members' \subseteq (Cells \X Drivers)
    BY <1>1, <1>2, <2>1 DEF GeoIInv, GeoTypeOK
  <2>3. hash' \in [Drivers -> Points \cup {Nowhere}] /\ silent' \subseteq Drivers
    BY <1>1, <1>2 DEF GeoIInv, GeoTypeOK
  <2>4. request' \in [Handlers -> Requests \cup {NoRequest}]
    BY <1>2 DEF GeoIInv, GeoTypeOK
  <2> QED
    BY <1>2, <1>5, <2>2, <2>3, <2>4 DEF GeoIInv, GeoTypeOK, search
<1> QED
  BY <1>2, <1>5, <1>6, <1>7, SearchUndisturbed DEF GeoIInv, search

(* A driver forgotten: by go_offline, or by Redis.                         *)
LEMMA IInvForgotten ==
    ASSUME GeoIInv, NEW d \in Drivers,
           hash' = [hash EXCEPT ![d] = Nowhere], silent' = silent \ {d},
           Observed(d, TooFar), members' \subseteq members,
           \A c \in members : c[2] # d => c \in members',
           request' \in [Handlers -> Requests \cup {NoRequest}],
           UNCHANGED <<decodes, onShift, search>>
    PROVE  GeoIInv'
<1>1. hash \in [Drivers -> Points \cup {Nowhere}]
  BY DEF GeoIInv, GeoTypeOK
<1>2. TooFar \in 1..TooFar
  BY GeoAssumption DEF TooFar
<1>3. /\ Watched' /\ reach' \in [Drivers -> 0..TooFar] /\ ghosts' \subseteq Drivers
      /\ \A e \in Drivers : reach[e] <= reach'[e]
  BY <1>2, WatchedAfter DEF GeoIInv, search
<1>4. FreshIsListed'
  <2> SUFFICES ASSUME NEW e \in Drivers, hash'[e] # Nowhere
               PROVE  <<CellOf(hash'[e]), e>> \in members'
    BY DEF FreshIsListed
  <2>1. e # d /\ hash'[e] = hash[e]
    BY <1>1
  <2> QED
    BY <2>1 DEF GeoIInv, FreshIsListed
<1>5. GeoTypeOK'
  BY <1>1, <1>3 DEF GeoIInv, GeoTypeOK, search
<1> QED
  BY <1>3, <1>4, <1>5, SearchUndisturbed DEF GeoIInv, search

LEMMA IInvOffline ==
    ASSUME GeoIInv, NEW h \in Handlers, GoOffline(h)
    PROVE  GeoIInv'
<1> DEFINE m == request[h]
<1>1. m.driver \in Drivers
  BY PointsOfRequests DEF GoOffline, GeoIInv
<1>2. /\ members' = members \ Evicted(m)
      /\ hash' = [hash EXCEPT ![m.driver] = Nowhere]
      /\ silent' = silent \ {m.driver}
      /\ Observed(m.driver, TooFar)
      /\ request' = [request EXCEPT ![h] = NoRequest]
      /\ UNCHANGED <<decodes, onShift, search>>
  BY DEF GoOffline, Done
<1> HIDE DEF m
<1>3. \A c \in Evicted(m) : c[2] = m.driver
  BY DEF Evicted
<1>4. request' \in [Handlers -> Requests \cup {NoRequest}]
  BY <1>2 DEF GeoIInv, GeoTypeOK
<1> QED
  BY <1>1, <1>2, <1>3, <1>4, IInvForgotten

LEMMA IInvTime ==
    ASSUME GeoIInv,
           \/ \E d \in Drivers : FallsSilent(d) \/ Expires(d)
           \/ IndexLost
    PROVE  GeoIInv'
<1>1. ASSUME NEW d \in Drivers, FallsSilent(d)
      PROVE  GeoIInv'
  <2>1. GeoTypeOK'
    BY <1>1 DEF FallsSilent, GeoIInv, GeoTypeOK, search
  <2>2. /\ FreshIsListed' /\ Watched'
        /\ NobodyNearer' /\ NobodyMissed' /\ FoundWhenDone'
    BY <1>1 DEF FallsSilent, GeoIInv, FreshIsListed, Watched, NobodyNearer,
                NobodyMissed, Searching, FoundWhenDone, search
  <2> QED
    BY <2>1, <2>2 DEF GeoIInv
<1>2. ASSUME NEW d \in Drivers, Expires(d)
      PROVE  GeoIInv'
  <2>1. request' \in [Handlers -> Requests \cup {NoRequest}]
    BY <1>2 DEF Expires, GeoIInv, GeoTypeOK
  <2> QED
    BY <1>2, <2>1, IInvForgotten DEF Expires
<1>3. CASE IndexLost
  <2>1. TooFar \in Nat /\ \A d \in Drivers : reach[d] \in 0..TooFar
    BY GeoAssumption DEF TooFar, GeoIInv, GeoTypeOK
  <2>2. /\ reach' \in [Drivers -> 0..TooFar]
        /\ \A d \in Drivers : reach[d] <= reach'[d]
    <3>1. CASE phase = "idle"
      BY <1>3, <2>1, <3>1 DEF IndexLost, GeoIInv, GeoTypeOK
    <3>2. CASE phase # "idle"
      BY <1>3, <2>1, <3>2 DEF IndexLost, GeoIInv, GeoTypeOK
    <3> QED
      BY <3>1, <3>2
  <2>3. GeoTypeOK'
    BY <1>3, <2>2 DEF IndexLost, GeoIInv, GeoTypeOK, search
  <2>4. FreshIsListed' /\ Watched'
    BY <1>3, <2>1 DEF IndexLost, FreshIsListed, Watched, GeoIInv, GeoTypeOK, search
  <2> QED
    BY <1>3, <2>2, <2>3, <2>4, SearchUndisturbed DEF IndexLost, GeoIInv, search
<1> QED
  BY <1>1, <1>2, <1>3

-----------------------------------------------------------------------------
(* The steps of a search.                                                  *)
Near == {d \in Drivers : \E c \in Neighbours(pickup, ring) : <<c, d>> \in members}

rest == <<decodes, index, onShift, request, ghosts, reach>>

(* A ring that yields nothing held nobody who was to be seen all along.    *)
LEMMA RingWasEmpty ==
    ASSUME GeoIInv, \/ phase = "read" /\ Near = {}
                    \/ phase = "load" /\ Fresh = {}
    PROVE  \A d \in Drivers : ring < reach[d]
<1>1. pickup # NoPickup /\ ring \in Nat
  BY GeoAssumption DEF GeoIInv, GeoTypeOK, Rings
<1> SUFFICES ASSUME NEW d \in Drivers
             PROVE  ring < reach[d]
  OBVIOUS
<1>2. reach[d] \in Nat
  BY GeoAssumption DEF GeoIInv, GeoTypeOK, TooFar
<1>3. CASE reach[d] <= ring
  <2>1. d \in Near /\ hash[d] # Nowhere /\ d \notin ghosts
    BY <1>1, <1>3, SeenIsRead DEF GeoIInv, Near
  <2>2. phase = "load" => d \in ids
    BY <1>3 DEF GeoIInv, NobodyMissed
  <2> QED
    BY <2>1, <2>2 DEF Fresh
<1> QED
  BY <1>1, <1>2, <1>3

LEMMA IInvWiden ==
    ASSUME GeoIInv, Searching, \A d \in Drivers : ring < reach[d],
           Widen, UNCHANGED rest
    PROVE  GeoIInv'
<1>1. ring \in Nat /\ 1 <= ring /\ ring <= MaxRing /\ MaxRing \in Nat
  BY GeoAssumption DEF GeoIInv, GeoTypeOK, Rings
<1>2. \A d \in Drivers : reach[d] \in Nat /\ reach'[d] = reach[d]
  BY GeoAssumption DEF GeoIInv, GeoTypeOK, TooFar, rest
<1>3. pickup # NoPickup /\ found = {} /\ found' = {} /\ pickup' = pickup
  BY DEF GeoIInv, GeoTypeOK, Searching, FoundWhenDone, Widen
<1>4. ring' \in Rings /\ phase' \in {"read", "done"} /\ ids' = {}
  BY <1>1 DEF Widen, Rings
<1>5. GeoTypeOK'
  BY <1>3, <1>4 DEF GeoIInv, GeoTypeOK, rest, index
<1>6. FreshIsListed' /\ Watched'
  BY <1>3 DEF GeoIInv, FreshIsListed, Watched, rest, index
<1>7. NobodyNearer'
  BY <1>1, <1>2 DEF Widen, NobodyNearer, Searching
<1>8. NobodyMissed' /\ FoundWhenDone'
  BY <1>3, <1>4 DEF NobodyMissed, FoundWhenDone
<1> QED
  BY <1>5, <1>6, <1>7, <1>8 DEF GeoIInv

LEMMA IInvSearch ==
    ASSUME GeoIInv, (\E p \in Pickups : Begin(p)) \/ Search
    PROVE  GeoIInv'
<1>1. ASSUME NEW p \in Pickups, Begin(p)
      PROVE  GeoIInv'
  <2>1. p \in Points /\ p # NoPickup
    BY GeoAssumption
  <2>2. hash \in [Drivers -> Points \cup {Nowhere}]
    BY DEF GeoIInv, GeoTypeOK
  <2>3. \A d \in Drivers : hash[d] # Nowhere => RingOf(p, hash[d]) \in 1..TooFar
    BY <2>1, <2>2, RingsAreRings
  <2>4. TooFar \in Nat /\ 1 \in Rings
    BY GeoAssumption DEF TooFar, Rings
  <2>5. \A d \in Drivers :
           /\ reach'[d] \in 0..TooFar
           /\ hash[d] = Nowhere \/ d \in silent => reach'[d] = TooFar
           /\ hash[d] # Nowhere => RingOf(p, hash[d]) <= reach'[d]
    BY <1>1, <2>3, <2>4 DEF Begin
  <2>6. reach' \in [Drivers -> 0..TooFar]
    BY <1>1, <2>5 DEF Begin
  <2>7. GeoTypeOK'
    BY <1>1, <2>1, <2>4, <2>6 DEF Begin, GeoIInv, GeoTypeOK, index
  <2>8. Watched'
    BY <1>1, <2>5 DEF Begin, Watched, index
  <2>9. FreshIsListed' /\ NobodyNearer' /\ NobodyMissed' /\ FoundWhenDone'
    BY <1>1 DEF Begin, GeoIInv, FreshIsListed, NobodyNearer, NobodyMissed,
                Searching, FoundWhenDone, index
  <2> QED
    BY <2>7, <2>8, <2>9 DEF GeoIInv
<1>2. CASE ReadMembers
  <2>1. phase = "read" /\ UNCHANGED rest
    BY <1>2 DEF ReadMembers, rest
  <2>2. CASE Near = {} /\ Widen
    BY <2>1, <2>2, RingWasEmpty, IInvWiden DEF Searching
  <2>3. CASE ids' = Near /\ phase' = "load" /\ UNCHANGED <<pickup, ring, found>>
    <3>1. pickup # NoPickup
      BY <2>1 DEF GeoIInv, GeoTypeOK
    <3>2. \A d \in Drivers : reach[d] <= ring => d \in Near
      BY <3>1, SeenIsRead DEF GeoIInv, Near
    <3>3. GeoTypeOK'
      BY <2>1, <2>3, <3>1 DEF GeoIInv, GeoTypeOK, rest, index, Near
    <3>4. FreshIsListed' /\ Watched' /\ NobodyNearer' /\ FoundWhenDone'
      BY <2>1, <2>3 DEF GeoIInv, FreshIsListed, Watched, NobodyNearer, Searching,
                        FoundWhenDone, rest, index
    <3>5. NobodyMissed'
      BY <2>1, <2>3, <3>2 DEF NobodyMissed, rest
    <3> QED
      BY <3>3, <3>4, <3>5 DEF GeoIInv
  <2> QED
    BY <1>2, <2>2, <2>3 DEF ReadMembers, Near
<1>3. CASE LoadDrivers
  <2>1. phase = "load" /\ UNCHANGED rest
    BY <1>3 DEF LoadDrivers, rest
  <2>2. CASE Fresh = {} /\ Widen
    BY <2>1, <2>2, RingWasEmpty, IInvWiden DEF Searching
  <2>3. CASE found' = Fresh /\ phase' = "done" /\ ids' = {} /\ UNCHANGED <<pickup, ring>>
    <3>1. GeoTypeOK'
      BY <2>1, <2>3 DEF GeoIInv, GeoTypeOK, rest, index, Fresh
    <3>2. FreshIsListed' /\ Watched'
      BY <2>1, <2>3 DEF GeoIInv, FreshIsListed, Watched, rest, index
    <3>3. NobodyNearer' /\ NobodyMissed' /\ FoundWhenDone'
      BY <2>3 DEF NobodyNearer, NobodyMissed, Searching, FoundWhenDone
    <3> QED
      BY <3>1, <3>2, <3>3 DEF GeoIInv
  <2> QED
    BY <1>3, <2>2, <2>3 DEF LoadDrivers
<1>4. CASE Return
  <2>1. 0 \in 0..TooFar /\ 1 \in Rings
    BY GeoAssumption DEF TooFar, Rings
  <2>2. GeoTypeOK'
    BY <1>4, <2>1 DEF Return, GeoIInv, GeoTypeOK, index
  <2>3. /\ FreshIsListed' /\ Watched'
        /\ NobodyNearer' /\ NobodyMissed' /\ FoundWhenDone'
    BY <1>4 DEF Return, GeoIInv, FreshIsListed, Watched, NobodyNearer, NobodyMissed,
                Searching, FoundWhenDone, index
  <2> QED
    BY <2>2, <2>3 DEF GeoIInv
<1> QED
  BY <1>1, <1>2, <1>3, <1>4 DEF Search

LEMMA IInvNext == GeoIInv /\ [GeoNext]_vars => GeoIInv'
<1> SUFFICES ASSUME GeoIInv, [GeoNext]_vars
             PROVE  GeoIInv'
  OBVIOUS
<1>1. CASE UNCHANGED vars
  <2>1. GeoTypeOK'
    BY <1>1 DEF vars, index, search, GeoIInv, GeoTypeOK
  <2>2. /\ FreshIsListed' /\ Watched'
        /\ NobodyNearer' /\ NobodyMissed' /\ FoundWhenDone'
    BY <1>1 DEF vars, index, search, GeoIInv, FreshIsListed, Watched, NobodyNearer,
                NobodyMissed, Searching, FoundWhenDone
  <2> QED
    BY <2>1, <2>2 DEF GeoIInv
<1>2. ASSUME NEW h \in Handlers, Finish(h)
      PROVE  GeoIInv'
  BY <1>2, IInvHeartbeat, IInvOffline DEF Finish
<1> QED
  BY <1>1, <1>2, IInvRequests, IInvTime, IInvSearch DEF GeoNext

(* The sets, the hashes, the handlers' requests and the locals of nearby   *)
(* keep their shapes; a search has a pickup exactly while it runs, and the *)
(* ring it reads never passes the last one.                                *)
THEOREM GeoTypeCorrect == GeoSpec => []GeoTypeOK
<1>1. GeoIInv => GeoTypeOK
  BY DEF GeoIInv
<1> QED
  BY <1>1, IInvInit, IInvNext, PTL DEF GeoSpec

(* Whatever the interleaving, whoever has a hash is listed where he is.    *)
THEOREM ListedWhereHeIs == GeoSpec => []FreshIsListed
<1>1. GeoIInv => FreshIsListed
  BY DEF GeoIInv
<1> QED
  BY <1>1, IInvInit, IInvNext, PTL DEF GeoSpec

-----------------------------------------------------------------------------
(* Every step of the index is a step of the board, or none.                *)
LEMMA BoardInitially == GeoInit => Board!BoardInit
BY DEF GeoInit, Board!BoardInit, BoardAnswer

LEMMA BoardUnmoved ==
    ASSUME UNCHANGED <<hash, silent, pickup, ghosts, reach, phase, ring, found>>
    PROVE  UNCHANGED Board!boardVars
BY DEF Board!boardVars, BoardAnswer

LEMMA BoardReported ==
    ASSUME GeoIInv, NEW h \in Handlers, Heartbeat(h)
    PROVE  Board!BoardNext
<1> DEFINE d == request[h].driver
           p == request[h].to
<1>1. d \in Drivers /\ p \in Points
  BY PointsOfRequests DEF Heartbeat, GeoIInv
<1>2. pickup = NoPickup <=> phase = "idle"
  BY DEF GeoIInv, GeoTypeOK
<1>3. RingOf(pickup, p) = Board!RingOf(pickup, p)
  BY DEF RingOf, Board!RingOf, Farther, Board!Farther, Gap, Board!Gap,
         CellOf, Board!CellOf, TooFar, Board!TooFar
<1>4. Board!Report(d, p)
  BY <1>2, <1>3 DEF Heartbeat, Observed, search, BoardAnswer, Board!Report,
                    Board!Widened, Farther, Board!Farther
<1> QED
  BY <1>1, <1>4 DEF Board!BoardNext

LEMMA BoardLeft ==
    ASSUME GeoIInv, NEW d \in Drivers,
           hash' = [hash EXCEPT ![d] = Nowhere], silent' = silent \ {d},
           Observed(d, TooFar), UNCHANGED search
    PROVE  Board!BoardNext
<1>1. pickup = NoPickup <=> phase = "idle"
  BY DEF GeoIInv, GeoTypeOK
<1>2. Board!Leave(d)
  BY <1>1 DEF Observed, search, BoardAnswer, Board!Leave, Board!Widened,
              Farther, Board!Farther, TooFar, Board!TooFar
<1> QED
  BY <1>2 DEF Board!BoardNext

LEMMA BoardAsked ==
    ASSUME GeoIInv, NEW p \in Pickups, Begin(p)
    PROVE  Board!BoardNext
<1>1. pickup = NoPickup /\ BoardAnswer = NoAnswer /\ BoardAnswer' = NoAnswer
  BY DEF Begin, BoardAnswer, GeoIInv, GeoTypeOK
<1>2. \A q : RingOf(p, q) = Board!RingOf(p, q)
  BY DEF RingOf, Board!RingOf, Farther, Board!Farther, Gap, Board!Gap,
         CellOf, Board!CellOf, TooFar, Board!TooFar
<1>3. Board!Ask(p)
  BY <1>1, <1>2 DEF Begin, index, Board!Ask, TooFar, Board!TooFar
<1> QED
  BY <1>3 DEF Board!BoardNext

(* An answer with the drivers F, given for the ring the search stands at.  *)
LEMMA BoardAnswered ==
    ASSUME GeoIInv, Searching, NEW F \in SUBSET Drivers,
           \A d \in F : hash[d] # Nowhere /\ d \notin ghosts,
           \A d \in Drivers : reach[d] <= ring => d \in F,
           F = {} => ring = MaxRing,
           found' = F, phase' = "done", UNCHANGED <<pickup, ring>>, UNCHANGED rest
    PROVE  Board!BoardNext
<1>1. /\ pickup # NoPickup /\ ring \in Rings /\ Rings = Board!Rings
      /\ BoardAnswer = NoAnswer /\ BoardAnswer' = <<ring, F>>
  BY DEF GeoIInv, GeoTypeOK, Searching, BoardAnswer, Rings, Board!Rings
<1>2. ASSUME NEW d \in Drivers, reach[d] < ring
      PROVE  ring = 1
  <2>1. ring \in Nat /\ reach[d] \in Nat
    BY <1>1, GeoAssumption DEF GeoIInv, GeoTypeOK, Rings, TooFar
  <2>2. ~(ring <= reach[d])
    BY <1>2, <2>1
  <2> QED
    BY <2>2 DEF GeoIInv, NobodyNearer
<1>3. Board!Answer(ring, F)
  BY <1>1, <1>2 DEF Board!Answer, rest, index
<1> QED
  BY <1>1, <1>3 DEF Board!BoardNext

LEMMA BoardSearched ==
    ASSUME GeoIInv, Search
    PROVE  [Board!BoardNext]_(Board!boardVars)
<1>1. MaxRing \in Nat /\ ring \in 1..MaxRing
  BY GeoAssumption DEF GeoIInv, GeoTypeOK, Rings
<1>2. ASSUME Searching, \A d \in Drivers : ring < reach[d], Widen, UNCHANGED rest
      PROVE  [Board!BoardNext]_(Board!boardVars)
  <2>1. \A d \in Drivers : ~(reach[d] <= ring)
    BY <1>1, <1>2, GeoAssumption DEF GeoIInv, GeoTypeOK, TooFar
  <2>2. CASE ring < MaxRing
    <3>1. BoardAnswer' = BoardAnswer
      BY <1>2, <2>2 DEF Widen, BoardAnswer, Searching
    <3> QED
      BY <1>2, <3>1 DEF Widen, rest, index, Board!boardVars
  <2>3. CASE ~(ring < MaxRing)
    <3>1. ring = MaxRing /\ phase' = "done" /\ found' = {} /\ UNCHANGED <<pickup, ring>>
      BY <1>1, <1>2, <2>3 DEF Widen, GeoIInv, FoundWhenDone, Searching
    <3> QED
      BY <1>2, <2>1, <3>1, BoardAnswered
  <2> QED
    BY <2>2, <2>3
<1>3. CASE ReadMembers
  <2>1. phase = "read" /\ UNCHANGED rest
    BY <1>3 DEF ReadMembers, rest
  <2>2. CASE Near = {} /\ Widen
    BY <1>2, <2>1, <2>2, RingWasEmpty DEF Searching
  <2>3. CASE phase' = "load" /\ UNCHANGED <<pickup, ring, found>>
    BY <2>1, <2>3 DEF BoardAnswer, rest, index, Board!boardVars
  <2> QED
    BY <1>3, <2>2, <2>3 DEF ReadMembers, Near
<1>4. CASE LoadDrivers
  <2>1. phase = "load" /\ UNCHANGED rest
    BY <1>4 DEF LoadDrivers, rest
  <2>2. CASE Fresh = {} /\ Widen
    BY <1>2, <2>1, <2>2, RingWasEmpty DEF Searching
  <2>3. CASE Fresh # {} /\ found' = Fresh /\ phase' = "done" /\ UNCHANGED <<pickup, ring>>
    <3>1. ASSUME NEW d \in Drivers, reach[d] <= ring
          PROVE  d \in Fresh
      <4>1. pickup # NoPickup /\ d \in ids
        BY <2>1, <3>1 DEF GeoIInv, GeoTypeOK, NobodyMissed
      <4>2. hash[d] # Nowhere /\ d \notin ghosts
        BY <3>1, <4>1, SeenIsRead DEF GeoIInv
      <4> QED
        BY <4>1, <4>2 DEF Fresh
    <3>2. Fresh \in SUBSET Drivers /\ \A d \in Fresh : hash[d] # Nowhere /\ d \notin ghosts
      BY DEF Fresh, GeoIInv, GeoTypeOK
    <3> HIDE DEF Fresh
    <3> QED
      BY <2>1, <2>3, <3>1, <3>2, BoardAnswered DEF Searching
  <2> QED
    BY <1>4, <2>2, <2>3 DEF LoadDrivers
<1>5. CASE Return
  <2>1. BoardAnswer = <<ring, found>> /\ BoardAnswer' = NoAnswer
    BY <1>5 DEF Return, BoardAnswer
  <2>2. BoardAnswer # NoAnswer
    BY <2>1, GeoAssumption DEF GeoIInv, GeoTypeOK, Rings
  <2>3. Board!Settle
    BY <1>5, <2>1, <2>2 DEF Return, index, Board!Settle
  <2> QED
    BY <2>3 DEF Board!BoardNext
<1> QED
  BY <1>3, <1>4, <1>5 DEF Search

LEMMA BoardSteps ==
    GeoIInv /\ [GeoNext]_vars => [Board!BoardNext]_(Board!boardVars)
<1> SUFFICES ASSUME GeoIInv, [GeoNext]_vars
             PROVE  [Board!BoardNext]_(Board!boardVars)
  OBVIOUS
<1>1. CASE \/ UNCHANGED vars
           \/ \E d \in Drivers : StartShift(d) \/ EndShift(d)
           \/ \E h \in Handlers, d \in Drivers :
                 \/ \E p \in Points : HeartbeatArrives(h, d, p)
                 \/ OfflineArrives(h, d)
           \/ \E h \in Handlers : HandlerDies(h)
  <2>1. UNCHANGED <<hash, silent, pickup, ghosts, reach, phase, ring, found>>
    BY <1>1 DEF vars, index, search, StartShift, EndShift, HeartbeatArrives,
                OfflineArrives, Arrives, HandlerDies
  <2> QED
    BY <2>1, BoardUnmoved
<1>2. ASSUME NEW h \in Handlers, GoOffline(h)
      PROVE  Board!BoardNext
  <2>1. request[h].driver \in Drivers
    BY <1>2, PointsOfRequests DEF GoOffline, GeoIInv
  <2> QED
    BY <1>2, <2>1, BoardLeft DEF GoOffline
<1>3. ASSUME NEW d \in Drivers, FallsSilent(d)
      PROVE  Board!BoardNext
  <2>1. Board!FallSilent(d)
    BY <1>3 DEF FallsSilent, search, BoardAnswer, Board!FallSilent
  <2> QED
    BY <2>1 DEF Board!BoardNext
<1>4. ASSUME NEW d \in Drivers, Expires(d)
      PROVE  Board!BoardNext
  BY <1>4, BoardLeft DEF Expires
<1>5. CASE IndexLost
  <2>1. pickup = NoPickup <=> phase = "idle"
    BY DEF GeoIInv, GeoTypeOK
  <2>2. Board!Wiped
    BY <1>5, <2>1 DEF IndexLost, search, BoardAnswer, Board!Wiped, TooFar, Board!TooFar
  <2> QED
    BY <2>2 DEF Board!BoardNext
<1> QED
  BY <1>1, <1>2, <1>3, <1>4, <1>5, BoardReported, BoardAsked, BoardSearched
     DEF GeoNext, Finish

(* Asking the index is as good as asking the board.                        *)
THEOREM IndexImplementsBoard == GeoSpec => ImplementsBoard
<1> QED
  BY IInvInit, IInvNext, BoardInitially, BoardSteps, PTL
     DEF GeoSpec, ImplementsBoard, Board!BoardSpec
=============================================================================
