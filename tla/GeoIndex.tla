------------------------------ MODULE GeoIndex ------------------------------
(***************************************************************************)
(* GeoIndex of dispatch/geo.py on Redis: a set of driver ids per cell and  *)
(* a hash per driver.  A heartbeat and the end of a shift each read the    *)
(* hash first and then run one pipeline (MULTI/EXEC, one atomic step) that *)
(* relies on what was read; handlers of the api interleave in between.     *)
(* nearby runs two pipelines per ring.                                     *)
(*                                                                         *)
(* Text and bytes.  The clients of api.py and run_matcher.py are made with *)
(* from_url and return bytes.  HGET then answers b'3777:-12242', which     *)
(* differs from every cell id, and the SREM names the set                  *)
(* "geo:cell:b'3777:-12242'", which does not exist.  A client made with    *)
(* decode_responses, which the code reads as well, answers the cell id.    *)
(*                                                                         *)
(* Time.  A driver is silent once 30 s have passed since hb; the hash goes *)
(* at 120 s, or never as far as anything relies on it.  nearby takes the   *)
(* time once, at its start.  A heartbeat's handler runs within 30 s.       *)
(***************************************************************************)
EXTENDS GeoCells

CONSTANTS
    Handlers,   \* threads of the api that serve drivers
    NoRequest,  \* a handler has nothing to do
    NoCell,     \* no cell to leave
    Clients     \* decode_responses of the Redis clients, FALSE in this code

ASSUME ClientAssumption ==
    /\ Clients \subseteq BOOLEAN
    /\ NoCell \notin Int \X Int

VARIABLES
    decodes,    \* the kind of client
    members,    \* pairs <<cell, driver>>: who is in the set of which cell
    hash,       \* geo:driver:<id>, by position; the field cell is its cell
    silent,     \* drivers whose field hb is more than 30 s old
    onShift,    \* drivers whose app is running
    request,    \* what each handler of the api does between its two trips
    phase,      \* where the search for drivers stands
    pickup,     \* for whom
    ring,       \* the ring it looks at
    ids,        \* the ids that the sets of its cells named
    found,      \* the drivers it answers with
    ghosts,     \* drivers who were silent when the search took the time
    reach       \* history: the widest ring each driver needed since then

index   == <<members, hash, silent>>
search  == <<phase, pickup, ring, ids, found>>
vars    == <<decodes, index, onShift, request, search, ghosts, reach>>

Cells == {CellOf(p) : p \in Points}

Requests ==
    [driver : Drivers, to : Points \cup {Nowhere}, was : Cells \cup {NoCell}]

GeoTypeOK ==
    /\ decodes \in BOOLEAN
    /\ members \subseteq (Cells \X Drivers)
    /\ hash \in [Drivers -> Points \cup {Nowhere}]
    /\ silent \subseteq Drivers /\ onShift \subseteq Drivers
    /\ request \in [Handlers -> Requests \cup {NoRequest}]
    /\ phase \in {"idle", "read", "load", "done"}
    /\ pickup \in Pickups \cup {NoPickup}
    /\ phase = "idle" <=> pickup = NoPickup
    /\ ring \in Rings
    /\ ids \subseteq Drivers /\ found \subseteq Drivers /\ ghosts \subseteq Drivers
    /\ reach \in [Drivers -> 0..TooFar]

GeoInit ==
    /\ decodes \in Clients
    /\ members = {} /\ hash = [d \in Drivers |-> Nowhere] /\ silent = {}
    /\ onShift = {} /\ request = [h \in Handlers |-> NoRequest]
    /\ phase = "idle" /\ pickup = NoPickup /\ ring = 1
    /\ ids = {} /\ found = {} /\ ghosts = {}
    /\ reach = [d \in Drivers |-> 0]

-----------------------------------------------------------------------------
(* Drivers and the api                                                     *)

StartShift(d) ==
    /\ d \notin onShift /\ onShift' = onShift \cup {d}
    /\ UNCHANGED <<decodes, index, request, search, ghosts, reach>>

(* The phone dies, or the driver goes home and the app says so, or not.    *)
EndShift(d) ==
    /\ d \in onShift /\ onShift' = onShift \ {d}
    /\ UNCHANGED <<decodes, index, request, search, ghosts, reach>>

(* HGET: the cell that the SREM will name. *)
CellRead(d) ==
    IF decodes /\ hash[d] # Nowhere THEN CellOf(hash[d]) ELSE NoCell

Arrives(h, d, where) ==
    /\ request[h] = NoRequest
    /\ request' = [request EXCEPT ![h] =
                      [driver |-> d, to |-> where, was |-> CellRead(d)]]
    /\ UNCHANGED <<decodes, index, onShift, search, ghosts, reach>>

HeartbeatArrives(h, d, p) == d \in onShift /\ Arrives(h, d, p)
OfflineArrives(h, d)      == d \notin onShift /\ Arrives(h, d, Nowhere)

(* What a change of d's hash means for a search under way.                 *)
Observed(d, r) ==
    /\ ghosts' = ghosts \ {d}
    /\ reach' = IF phase = "idle"
                THEN reach
                ELSE [reach EXCEPT ![d] = Farther(@, r)]

Evicted(m) ==
    IF m.was # NoCell /\ (m.to = Nowhere \/ m.was # CellOf(m.to))
    THEN {<<m.was, m.driver>>}
    ELSE {}

Done(h) == request' = [request EXCEPT ![h] = NoRequest]

(* Faulty: a heartbeat that crossed no boundary leaves the sets alone. *)
FaultyListed(m) ==
    IF m.was = CellOf(m.to) THEN {} ELSE {<<CellOf(m.to), m.driver>>}

Listed(m) == {<<CellOf(m.to), m.driver>>}

Heartbeat(h) ==
    LET m == request[h] IN
    /\ m # NoRequest /\ m.to # Nowhere
    /\ members' = (members \ Evicted(m)) \cup Listed(m)
    /\ hash' = [hash EXCEPT ![m.driver] = m.to]
    /\ silent' = silent \ {m.driver}
    /\ Observed(m.driver, RingOf(pickup, m.to))
    /\ Done(h)
    /\ UNCHANGED <<decodes, onShift, search>>

GoOffline(h) ==
    LET m == request[h] IN
    /\ m # NoRequest /\ m.to = Nowhere
    /\ members' = members \ Evicted(m)
    /\ hash' = [hash EXCEPT ![m.driver] = Nowhere]
    /\ silent' = silent \ {m.driver}
    /\ Observed(m.driver, TooFar)
    /\ Done(h)
    /\ UNCHANGED <<decodes, onShift, search>>

(* The pod dies, or Redis raises, between the read and the pipeline.       *)
HandlerDies(h) ==
    /\ request[h] # NoRequest
    /\ Done(h)
    /\ UNCHANGED <<decodes, index, onShift, search, ghosts, reach>>

-----------------------------------------------------------------------------
(* Time and Redis                                                          *)

FallsSilent(d) ==
    /\ hash[d] # Nowhere /\ d \notin silent
    /\ silent' = silent \cup {d}
    /\ UNCHANGED <<decodes, members, hash, onShift, request, search, ghosts, reach>>

(* EXPIRE takes the hash only; the id stays in the sets of its cells. *)
Expires(d) ==
    /\ d \in silent
    /\ hash' = [hash EXCEPT ![d] = Nowhere]
    /\ silent' = silent \ {d}
    /\ Observed(d, TooFar)
    /\ UNCHANGED <<decodes, members, onShift, request, search>>

IndexLost ==
    /\ members' = {} /\ hash' = [d \in Drivers |-> Nowhere] /\ silent' = {}
    /\ ghosts' = {}
    /\ reach' = IF phase = "idle" THEN reach ELSE [d \in Drivers |-> TooFar]
    /\ UNCHANGED <<decodes, onShift, request, search>>

-----------------------------------------------------------------------------
(* nearby                                                                  *)

Begin(p) ==
    /\ phase = "idle"
    /\ phase' = "read" /\ pickup' = p /\ ring' = 1
    /\ ghosts' = silent
    /\ reach' = [d \in Drivers |-> IF hash[d] = Nowhere \/ d \in silent
                                   THEN TooFar
                                   ELSE RingOf(p, hash[d])]
    /\ UNCHANGED <<decodes, index, onShift, request, ids, found>>

(* Faulty: one ring past max_ring. *)
FaultyWiden ==
    /\ IF ring <= MaxRing
       THEN ring' = ring + 1 /\ phase' = "read"
       ELSE ring' = ring /\ phase' = "done"
    /\ ids' = {}
    /\ UNCHANGED <<pickup, found>>

(* This ring yields nothing: look at the next, or answer with nobody. *)
Widen ==
    /\ IF ring < MaxRing
       THEN ring' = ring + 1 /\ phase' = "read"
       ELSE ring' = ring /\ phase' = "done"
    /\ ids' = {}
    /\ UNCHANGED <<pickup, found>>

(* _members: SMEMBERS of every cell of the ring, in one pipeline. *)
ReadMembers ==
    LET near == {d \in Drivers : \E c \in Neighbours(pickup, ring) : <<c, d>> \in members}
    IN  /\ phase = "read"
        /\ \/ near = {} /\ Widen
           \/ /\ near # {}
              /\ ids' = near /\ phase' = "load"
              /\ UNCHANGED <<pickup, ring, found>>
        /\ UNCHANGED <<decodes, index, onShift, request, ghosts, reach>>

(* Faulty: whoever has a hash is taken for alive. *)
FaultyFresh == {d \in ids : hash[d] # Nowhere}

Fresh == {d \in ids : hash[d] # Nowhere /\ d \notin ghosts}

(* _load: HGETALL of every id, in one pipeline. *)
LoadDrivers ==
    /\ phase = "load"
    /\ \/ Fresh = {} /\ Widen
       \/ /\ Fresh # {}
          /\ found' = Fresh /\ phase' = "done"
          /\ ids' = {} /\ UNCHANGED <<pickup, ring>>
    /\ UNCHANGED <<decodes, index, onShift, request, ghosts, reach>>

(* The matcher has its candidates. *)
Return ==
    /\ phase = "done"
    /\ phase' = "idle" /\ pickup' = NoPickup /\ ring' = 1 /\ found' = {}
    /\ ghosts' = {} /\ reach' = [d \in Drivers |-> 0]
    /\ UNCHANGED <<decodes, index, onShift, request, ids>>

-----------------------------------------------------------------------------
Finish(h) == Heartbeat(h) \/ GoOffline(h)
Search    == ReadMembers \/ LoadDrivers \/ Return

GeoNext ==
    \/ \E d \in Drivers : StartShift(d) \/ EndShift(d)
    \/ \E h \in Handlers, d \in Drivers :
          \/ \E p \in Points : HeartbeatArrives(h, d, p)
          \/ OfflineArrives(h, d)
    \/ \E h \in Handlers : Finish(h) \/ HandlerDies(h)
    \/ \E d \in Drivers : FallsSilent(d) \/ Expires(d)
    \/ IndexLost
    \/ \E p \in Pickups : Begin(p)
    \/ Search

GeoSpec == GeoInit /\ [][GeoNext]_vars

(* Handlers and a search under way go on, and time passes: whoever is off  *)
(* shift does not report for ever.  Nothing makes Redis expire a hash.     *)
GeoFairness ==
    /\ \A h \in Handlers : WF_vars(Finish(h))
    /\ WF_vars(Search)
    /\ \A d \in Drivers : WF_vars(d \notin onShift /\ FallsSilent(d))

GeoFairSpec == GeoSpec /\ GeoFairness

-----------------------------------------------------------------------------
(* Properties                                                              *)

(* Whoever has a hash is listed in the cell of his position, however the   *)
(* handlers of two requests of his, one read and one pipeline each,        *)
(* interleave: else a driver who reports every 3 s would be offered to     *)
(* nobody (heartbeat and go_offline).                                      *)
FreshIsListed ==
    \A d \in Drivers : hash[d] # Nowhere => <<CellOf(hash[d]), d>> \in members

(* nearby answers as the board promises: two pipelines per ring, over sets *)
(* that list drivers where they no longer are, miss nobody who was to be   *)
(* seen in the ring all along, and pass over no nearer one.                *)
BoardAnswer == IF phase = "done" THEN <<ring, found>> ELSE NoAnswer

Board == INSTANCE DriverBoard
         WITH at <- hash, asked <- pickup, answer <- BoardAnswer

ImplementsBoard == Board!BoardSpec

(* A driver whose app stays off is some day offered to nobody any more, by *)
(* the check of hb at read time alone: though a late heartbeat may bring   *)
(* him back after the end of his shift, his id may stay in the sets, and   *)
(* the hash may never expire.                                              *)
GhostsFade ==
    \A d \in Drivers : <>[](d \notin onShift) => <>[](d \notin found)

(* Every driver lives in exactly one CELL, as the head of geo.py has it.   *)
OneCell ==
    \A d \in Drivers, b, c \in Cells :
        <<b, d>> \in members /\ <<c, d>> \in members => b = c
=============================================================================
