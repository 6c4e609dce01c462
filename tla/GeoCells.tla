------------------------------ MODULE GeoCells ------------------------------
(***************************************************************************)
(* The grid of dispatch/geo.py.  A point is a pair <<lat, lng>> in some    *)
(* integer unit of a degree, CELL_DEG is CellSize such units, and a cell   *)
(* is the pair of floors.                                                  *)
(*                                                                         *)
(* Operators named Faulty... are no part of the specification.  Each is a  *)
(* definition with a plausible defect, kept beside the right one to show   *)
(* that a property notices it.                                             *)
(***************************************************************************)
EXTENDS Integers

CONSTANTS
    Drivers,    \* driver ids
    Points,     \* positions that phones report
    Pickups,    \* those of them where riders wait
    CellSize,   \* CELL_DEG
    MaxRing,    \* max_ring of nearby
    Nowhere,    \* no position: the hash of the driver does not exist
    NoPickup,   \* nobody is looking for drivers
    NoAnswer    \* nearby has not answered

ASSUME GeoAssumption ==
    /\ Points \subseteq Int \X Int /\ Pickups \subseteq Points
    /\ CellSize \in Nat \ {0}
    /\ MaxRing \in Nat \ {0}
    /\ Nowhere \notin Points /\ NoPickup \notin Points
    /\ NoAnswer \notin (1..MaxRing) \X SUBSET Drivers

CellOf(p) == <<p[1] \div CellSize, p[2] \div CellSize>>

(* Faulty: range(-ring, ring). *)
FaultyNeighbours(p, ring) ==
    {<<CellOf(p)[1] + di, CellOf(p)[2] + dj>> :
        di \in (-ring)..(ring - 1), dj \in (-ring)..(ring - 1)}

Neighbours(p, ring) ==
    {<<CellOf(p)[1] + di, CellOf(p)[2] + dj>> : di, dj \in (-ring)..ring}

Rings  == 1..MaxRing
TooFar == MaxRing + 1

Farther(r, s) == IF r < s THEN s ELSE r

Gap(i, j) == IF i < j THEN j - i ELSE i - j

(* The first ring around p that holds q, TooFar when nearby looks at none. *)
RingOf(p, q) ==
    LET cells == Farther(Gap(CellOf(p)[1], CellOf(q)[1]),
                         Gap(CellOf(p)[2], CellOf(q)[2]))
    IN  IF cells > MaxRing THEN TooFar ELSE Farther(1, cells)
=============================================================================
