---------------------------- MODULE DriverBoard ----------------------------
(***************************************************************************)
(* What a matcher may rely on when it asks who is near, without saying how *)
(* the index keeps its books: a board that shows where each driver last    *)
(* reported to be.  A report replaces the one before; a driver leaves the  *)
(* board at the end of a shift or when he is forgotten; the board may be   *)
(* wiped.                                                                  *)
(*                                                                         *)
(* An answer takes time, and drivers come and go meanwhile.  It names only *)
(* drivers on the board who were not silent all along, and it names every  *)
(* driver who, all the time since the question was put, could be seen in   *)
(* the ring it was given for.  No nearer ring could have been answered     *)
(* for: nobody was to be seen there all along.                             *)
(***************************************************************************)
EXTENDS GeoCells

VARIABLES
    at,         \* where each driver reported to be
    silent,     \* those on the board who have not reported for a while
    asked,      \* the pickup somebody is asking for
    ghosts,     \* who was silent when the question was put, and is still
    reach,      \* the widest ring each driver needed since then
    answer      \* the ring that was answered for, and the drivers named

boardVars == <<at, silent, asked, ghosts, reach, answer>>

BoardInit ==
    /\ at = [d \in Drivers |-> Nowhere]
    /\ silent = {}
    /\ asked = NoPickup
    /\ ghosts = {}
    /\ reach = [d \in Drivers |-> 0]
    /\ answer = NoAnswer

Widened(d, ring) ==
    reach' = IF asked = NoPickup
             THEN reach
             ELSE [reach EXCEPT ![d] = Farther(@, ring)]

Report(d, p) ==
    /\ at' = [at EXCEPT ![d] = p]
    /\ silent' = silent \ {d}
    /\ ghosts' = ghosts \ {d}
    /\ Widened(d, RingOf(asked, p))
    /\ UNCHANGED <<asked, answer>>

Leave(d) ==
    /\ at' = [at EXCEPT ![d] = Nowhere]
    /\ silent' = silent \ {d}
    /\ ghosts' = ghosts \ {d}
    /\ Widened(d, TooFar)
    /\ UNCHANGED <<asked, answer>>

FallSilent(d) ==
    /\ at[d] # Nowhere
    /\ silent' = silent \cup {d}
    /\ UNCHANGED <<at, asked, ghosts, reach, answer>>

Wiped ==
    /\ at' = [d \in Drivers |-> Nowhere]
    /\ silent' = {} /\ ghosts' = {}
    /\ reach' = IF asked = NoPickup THEN reach ELSE [d \in Drivers |-> TooFar]
    /\ UNCHANGED <<asked, answer>>

Ask(p) ==
    /\ asked = NoPickup
    /\ asked' = p
    /\ ghosts' = silent
    /\ reach' = [d \in Drivers |-> IF at[d] = Nowhere \/ d \in silent
                                   THEN TooFar
                                   ELSE RingOf(p, at[d])]
    /\ UNCHANGED <<at, silent, answer>>

Answer(ring, named) ==
    /\ asked # NoPickup /\ answer = NoAnswer
    /\ \A d \in named : at[d] # Nowhere /\ d \notin ghosts
    /\ \A d \in Drivers :
          /\ reach[d] <= ring => d \in named
          /\ reach[d] < ring => ring = 1
    /\ named = {} => ring = MaxRing
    /\ answer' = <<ring, named>>
    /\ UNCHANGED <<at, silent, asked, ghosts, reach>>

Settle ==
    /\ answer # NoAnswer
    /\ asked' = NoPickup /\ answer' = NoAnswer
    /\ ghosts' = {} /\ reach' = [d \in Drivers |-> 0]
    /\ UNCHANGED <<at, silent>>

BoardNext ==
    \/ \E d \in Drivers :
          \/ \E p \in Points : Report(d, p)
          \/ Leave(d) \/ FallSilent(d)
    \/ Wiped
    \/ \E p \in Pickups : Ask(p)
    \/ \E ring \in Rings, named \in SUBSET Drivers : Answer(ring, named)
    \/ Settle

BoardSpec == BoardInit /\ [][BoardNext]_boardVars
=============================================================================
