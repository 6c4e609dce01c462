------------------------------ MODULE Sessions ------------------------------
(***************************************************************************)
(* TripStore one statement at a time (dispatch/store.py): threads check    *)
(* connections out of a bounded pool, run their statements in a            *)
(* transaction, commit or roll back, and put the connection back.  The     *)
(* variables of TripStore are what is committed.  TripStore and everything *)
(* built on it take an operation of the store for one atomic step; here is *)
(* why they may, and when they may not.                                    *)
(*                                                                         *)
(* InnoDB, which is not part of this code, is modelled by what the code    *)
(* relies on: a transaction sees its own writes, nobody else does before   *)
(* the commit; a statement locks the entries of a table's unique indexes,  *)
(* one index after the other, the primary key's first, and an INSERT reads *)
(* each under a shared lock before it takes the exclusive one; locks last  *)
(* until the transaction ends.  A statement that waits for too long        *)
(* raises, which undoes the statement and not the transaction; one that is *)
(* the victim of a deadlock raises and its transaction is rolled back, and *)
(* so is a transaction whose connection is lost.                           *)
(***************************************************************************)
EXTENDS TripStore, SequencesExt

CONSTANTS
    Threads,        \* threads of one process
    Conns,          \* the pool's connections
    NoConn,         \* a thread has none
    Targets,        \* states that callers of advance ask for
    Losses,         \* bound: how often a connection is lost
    Timeouts        \* bound: how often a wait for a lock times out

ASSUME SessionsAssumption ==
    /\ Conns # {} /\ IsFiniteSet(Conns) /\ NoConn \notin Conns
    /\ Targets \subseteq TripStates \ {"matched"}
    /\ Losses \in Nat /\ Timeouts \in Nat

VARIABLES
    idle,       \* the LifoQueue of connections, its top last
    conn,       \* the connection of each thread
    op,         \* the call of TripStore that each thread is in
    step,       \* where in that call it stands
    work,       \* the writes of each connection's open transaction
    locks,      \* the locks it holds: <<what, "S">> or <<what, "X">>
    lost,       \* connections that the server has closed
    losses, timeouts

threadVars == <<conn, op, step>>
txnVars    == <<work, locks>>
vars == <<storeVars, idle, threadVars, txnVars, lost, losses, timeouts>>

(* A call: what it does, to which rows, and the version in the caller's    *)
(* copy of the trip.                                                       *)
Call(kind, t, d, k, v, dst) ==
    [kind |-> kind, trip |-> t, driver |-> d, key |-> k, ver |-> v, dst |-> dst]

Reading == Call("read", NoTrip, NoDriver, NoKey, 0, "absent")

SessionsInit ==
    /\ StoreInit
    /\ idle \in {s \in [1..Cardinality(Conns) -> Conns] : ToSet(s) = Conns}
    /\ conn = [th \in Threads |-> NoConn]
    /\ op = [th \in Threads |-> Reading]
    /\ step = [th \in Threads |-> "idle"]
    /\ work = [c \in Conns |-> <<>>]
    /\ locks = [c \in Conns |-> {}]
    /\ lost = {}
    /\ losses = 0 /\ timeouts = 0

-----------------------------------------------------------------------------
(* What a transaction sees and does                                        *)

Tables == [state |-> state, driver |-> driver, version |-> version,
           idemKey |-> idemKey, claims |-> claims]

Apply(db, w) ==
    CASE w.kind = "create" ->
            [db EXCEPT !.state[w.trip] = "requested", !.idemKey[w.trip] = w.key]
      [] w.kind = "match" ->
            [db EXCEPT !.state[w.trip] = "matched", !.driver[w.trip] = w.driver,
                       !.version[w.trip] = @ + 1]
      [] w.kind = "advance" ->
            [db EXCEPT !.state[w.trip] = w.dst, !.version[w.trip] = @ + 1]
      [] w.kind = "claim"   -> [db EXCEPT !.claims = @ \cup {<<w.driver, w.trip>>}]
      [] w.kind = "drop"    -> [db EXCEPT !.claims = @ \ {<<w.driver, w.trip>>}]
      [] w.kind = "release" -> [db EXCEPT !.claims = {c \in @ : c[1] # w.driver}]

View(c) == FoldLeft(Apply, Tables, work[c])

(* Faulty: the WHERE clause names the trip only. *)
FaultyMissed(db, w) == FALSE

Missed(db, w) ==
    w.kind \in {"match", "advance"} /\ db.version[w.trip] # w.ver

Inserts(w) == w.kind \in {"create", "claim"}

(* The entries of the unique indexes of trips and driver_claims. *)
Indexed(db) ==
    LET rows == {t \in Trips : db.state[t] # "absent"}
    IN  {<<"trip", t>> : t \in rows} \cup {<<"key", db.idemKey[t]>> : t \in rows}
        \cup {<<"driver", c[1]>> : c \in db.claims}
        \cup {<<"claimed", c[2]>> : c \in db.claims}

(* The entry of the primary key that a statement goes to first, *)
Primary(w) ==
    IF w.kind \in {"create", "match", "advance"}
    THEN <<"trip", w.trip>> ELSE <<"driver", w.driver>>

(* and those of the other unique index that it changes next.              *)
Secondary(db, w) ==
    CASE w.kind = "create" -> {<<"key", w.key>>}
      [] w.kind = "claim"  -> {<<"claimed", w.trip>>}
      [] w.kind = "drop"   -> {<<"claimed", c[2]>> : c \in db.claims \cap {<<w.driver, w.trip>>}}
      [] w.kind = "release" ->
            {<<"claimed", c[2]>> : c \in {r \in db.claims : r[1] = w.driver}}
      [] OTHER -> {}

Held(c, modes) == {l[1] : l \in {k \in locks[c] : k[2] \in modes}}

(* What a statement is to lock now: its first index is behind it when it   *)
(* has the lock and, if it inserts, no duplicate is there.                 *)
Wanted(c, w) ==
    IF /\ Primary(w) \in Held(c, {"X"})
       /\ Inserts(w) => Primary(w) \notin Indexed(View(c))
    THEN Secondary(View(c), w)
    ELSE {Primary(w)}

(* An INSERT finds a duplicate, or has yet to look for one. *)
Clashes(c, w) == Inserts(w) /\ Wanted(c, w) \cap Indexed(View(c)) # {}

Checking(c, w) ==
    Clashes(c, w) \/ (Inserts(w) /\ ~(Wanted(c, w) \subseteq Held(c, {"S", "X"})))

(* Two connections may both have read an entry, and then neither can write *)
(* it: each waits for the other.                                           *)
WaitsFor(c, other, w) ==
    /\ other # c
    /\ Held(other, IF Checking(c, w) THEN {"X"} ELSE {"S", "X"}) \cap Wanted(c, w) # {}

Blocked(c, w) == \E other \in Conns : WaitsFor(c, other, w)

-----------------------------------------------------------------------------
(* ConnectionPool.acquire                                                  *)

Begins(th, w) ==
    /\ step[th] = "idle"
    /\ op' = [op EXCEPT ![th] = w]
    /\ step' = [step EXCEPT ![th] = "wait"]
    /\ UNCHANGED <<storeVars, idle, conn, txnVars, lost, losses, timeouts>>

(* An id that no row and no session knows stands for a fresh one. *)
Minted(t) ==
    \/ state[t] # "absent"
    \/ \E th \in Threads : step[th] # "idle" /\ op[th].trip = t
    \/ \E c \in Conns, i \in 1..2 : i <= Len(work[c]) /\ work[c][i].trip = t

CreateTrip(th) ==
    \E t \in Trips, k \in Keys :
        /\ ~Minted(t) /\ \A u \in 1..(t - 1) : Minted(u)
        /\ Begins(th, Call("create", t, NoDriver, k, 0, "requested"))

ClaimDriver(th) ==
    \E t \in Trips, d \in Drivers :
        /\ state[t] = "requested"
        /\ Begins(th, Call("claim", t, d, NoKey, 0, "requested"))

ReleaseDriver(th) ==
    \E d \in Drivers : Begins(th, Call("release", NoTrip, d, NoKey, 0, "absent"))

SaveMatch(th) ==
    \E t \in Trips, d \in Drivers :
        /\ CanTransition(state[t], "matched")
        /\ Begins(th, Call("match", t, d, NoKey, version[t], "matched"))

Advance(th) ==
    \E t \in Trips, dst \in Targets :
        /\ CanTransition(state[t], dst)
        /\ Begins(th, Call("advance", t, driver[t], NoKey, version[t], dst))

(* get, get_by_idempotency_key, stale_matched_trips *)
Get(th) == Begins(th, Reading)

Calls(th) ==
    \/ CreateTrip(th) \/ ClaimDriver(th) \/ ReleaseDriver(th)
    \/ SaveMatch(th) \/ Advance(th) \/ Get(th)

(* get() on the queue, and a ping that heals a lost connection. *)
Acquire(th) ==
    /\ step[th] = "wait" /\ idle # <<>>
    /\ conn' = [conn EXCEPT ![th] = Last(idle)]
    /\ idle' = Front(idle)
    /\ lost' = lost \ {Last(idle)}
    /\ step' = [step EXCEPT ![th] = "ready"]
    /\ UNCHANGED <<storeVars, op, txnVars, losses, timeouts>>

PutBack(th) ==
    /\ idle' = Append(idle, conn[th])
    /\ conn' = [conn EXCEPT ![th] = NoConn]

Returned(th) ==
    /\ op' = [op EXCEPT ![th] = Reading]
    /\ step' = [step EXCEPT ![th] = "idle"]

PoolExhausted(th) ==
    /\ step[th] = "wait" /\ idle = <<>>
    /\ Returned(th)
    /\ UNCHANGED <<storeVars, idle, conn, txnVars, lost, losses, timeouts>>

-----------------------------------------------------------------------------
(* The statements                                                          *)

Goto(th, s) == step' = [step EXCEPT ![th] = s]

(* A transaction without writes has nothing to lock. *)
Select(th) ==
    /\ step[th] = "ready" /\ op[th].kind = "read" /\ conn[th] \notin lost
    /\ Goto(th, "commit")
    /\ UNCHANGED <<storeVars, idle, conn, op, txnVars, lost, losses, timeouts>>

(* Faulty: advance leaves the claim to somebody else. *)
FaultyEndsWithDelete(w) == FALSE

EndsWithDelete(w) ==
    w.kind = "advance" /\ w.dst \in {"complete", "cancelled"} /\ w.driver # NoDriver

(* The statement that a thread is in: the one write of its call, or the    *)
(* DELETE at the end of advance.                                           *)
Drop(w) == [w EXCEPT !.kind = "drop"]

Statement(th) == IF step[th] = "delete" THEN Drop(op[th]) ELSE op[th]

Executes(th) ==
    /\ step[th] \in {"ready", "delete"} /\ op[th].kind # "read"
    /\ conn[th] \notin lost

Lock(c, what, mode) == locks' = [locks EXCEPT ![c] = @ \cup (what \X {mode})]

(* The entry may be there, or only its deleted mark: both are read. *)
Check(th) ==
    LET c == conn[th]
        w == Statement(th)
    IN  /\ Executes(th) /\ Checking(c, w) /\ ~Blocked(c, w)
        /\ Lock(c, Wanted(c, w), "S")
        /\ IF Clashes(c, w) THEN Goto(th, "undo") ELSE UNCHANGED step  \* IntegrityError
        /\ UNCHANGED <<storeVars, idle, conn, op, work, lost, losses, timeouts>>

Write(th) ==
    LET c == conn[th]
        w == Statement(th)
        done == Secondary(View(c), w) \subseteq Wanted(c, w)
    IN  /\ Executes(th) /\ ~Checking(c, w) /\ ~Blocked(c, w)
        /\ Lock(c, Wanted(c, w), "X")
        /\ \/ /\ ~done                                     \* the other index
              /\ UNCHANGED <<work, step>>
           \/ /\ done /\ Missed(View(c), w)                \* affected == 0
              /\ Goto(th, "undo")
              /\ UNCHANGED work
           \/ /\ done /\ ~Missed(View(c), w)
              /\ work' = [work EXCEPT ![c] = Append(@, w)]
              /\ Goto(th, IF EndsWithDelete(w) THEN "delete" ELSE "commit")
        /\ UNCHANGED <<storeVars, idle, conn, op, lost, losses, timeouts>>

Over(c) ==
    /\ work' = [work EXCEPT ![c] = <<>>]
    /\ locks' = [locks EXCEPT ![c] = {}]

Publish(c) ==
    LET db == View(c)
    IN  /\ state' = db.state /\ driver' = db.driver /\ version' = db.version
        /\ idemKey' = db.idemKey /\ claims' = db.claims
        /\ Over(c)

Commit(th) ==
    /\ step[th] = "commit" /\ conn[th] \notin lost
    /\ Publish(conn[th])
    /\ PutBack(th) /\ Returned(th)
    /\ UNCHANGED <<lost, losses, timeouts>>

(* create_trip goes on to look the key up, on whatever connection it gets; *)
(* claim_driver, save_match and advance raise.                             *)
AfterUndo(th) ==
    IF op[th].kind = "create"
    THEN op' = [op EXCEPT ![th] = Reading] /\ step' = [step EXCEPT ![th] = "wait"]
    ELSE Returned(th)

(* Faulty: no rollback; the lookup inside the block of the INSERT. *)
FaultyUndoNoRollback(th) ==
    /\ step[th] = "undo" /\ conn[th] \notin lost
    /\ PutBack(th) /\ AfterUndo(th)
    /\ UNCHANGED <<storeVars, txnVars, lost, losses, timeouts>>

FaultyUndoKeeps(th) ==
    /\ step[th] = "undo" /\ conn[th] \notin lost
    /\ Over(conn[th])
    /\ IF op[th].kind = "create" THEN UNCHANGED <<idle, conn>> ELSE PutBack(th)
    /\ AfterUndo(th)
    /\ UNCHANGED <<storeVars, lost, losses, timeouts>>

Undo(th) ==
    /\ step[th] = "undo" /\ conn[th] \notin lost
    /\ Over(conn[th])
    /\ PutBack(th) /\ AfterUndo(th)
    /\ UNCHANGED <<storeVars, lost, losses, timeouts>>

-----------------------------------------------------------------------------
(* What may go wrong                                                       *)

LockWait(th) == Executes(th) /\ Blocked(conn[th], Statement(th))

(* Faulty: the connection is put back on success only. *)
FaultyRaises(th) ==
    /\ conn[th] # NoConn /\ conn[th] \in lost
    /\ conn' = [conn EXCEPT ![th] = NoConn] /\ Returned(th)
    /\ UNCHANGED <<storeVars, idle, txnVars, lost, losses, timeouts>>

(* Wherever the thread stands, its next statement raises. *)
Raises(th) ==
    /\ conn[th] # NoConn /\ conn[th] \in lost
    /\ PutBack(th) /\ Returned(th)
    /\ UNCHANGED <<storeVars, txnVars, lost, losses, timeouts>>

(* innodb_lock_wait_timeout: the exception is no IntegrityError, and the   *)
(* connection goes back with its transaction open.                         *)
LockTimeout(th) ==
    /\ LockWait(th)
    /\ timeouts < Timeouts /\ timeouts' = timeouts + 1
    /\ PutBack(th) /\ Returned(th)
    /\ UNCHANGED <<storeVars, txnVars, lost, losses>>

(* Error 1213.  Any statement may be the victim: InnoDB also locks gaps    *)
(* between entries and queues requests, which close more circles than the  *)
(* locks modelled here.  No IntegrityError either.                         *)
DeadlockVictim(th) ==
    /\ Executes(th)
    /\ Over(conn[th])
    /\ PutBack(th) /\ Returned(th)
    /\ UNCHANGED <<storeVars, lost, losses, timeouts>>

ConnectionLost(c) ==
    /\ c \notin lost /\ losses < Losses
    /\ lost' = lost \cup {c} /\ losses' = losses + 1
    /\ Over(c)
    /\ UNCHANGED <<storeVars, idle, threadVars, timeouts>>

(* Or after the server has committed and before the client hears of it. *)
CommitUnacked(th) ==
    /\ step[th] = "commit" /\ conn[th] \notin lost
    /\ losses < Losses /\ losses' = losses + 1
    /\ Publish(conn[th])
    /\ lost' = lost \cup {conn[th]}
    /\ UNCHANGED <<idle, threadVars, timeouts>>

Proceeds(th) ==
    \/ Acquire(th) \/ PoolExhausted(th)
    \/ Select(th) \/ Check(th) \/ Write(th)
    \/ Commit(th) \/ Undo(th) \/ Raises(th)

SessionsNext ==
    \/ \E th \in Threads :
          \/ Calls(th) \/ Proceeds(th)
          \/ LockTimeout(th) \/ DeadlockVictim(th) \/ CommitUnacked(th)
    \/ \E c \in Conns : ConnectionLost(c)

SessionsSpec == SessionsInit /\ [][SessionsNext]_vars

-----------------------------------------------------------------------------
(* Properties                                                              *)

InUse == {conn[th] : th \in Threads} \ {NoConn}

(* Every connection is in the pool once or with one thread, whatever a     *)
(* call runs into: none leaks, and no two threads share one.               *)
ConnsConserved ==
    /\ ToSet(idle) \cap InUse = {}
    /\ ToSet(idle) \cup InUse = Conns
    /\ Len(idle) = Cardinality(ToSet(idle))
    /\ \A th, u \in Threads : th # u /\ conn[th] = conn[u] => conn[th] = NoConn

(* A connection in the pool has no transaction open, so nobody publishes   *)
(* what another began, and no lock is held by nobody: short of a wait for  *)
(* a lock that times out (EndsWithItsClaim), and for every other error.    *)
RestIsClean ==
    timeouts = 0 => \A c \in ToSet(idle) : work[c] = <<>> /\ locks[c] = {}

(* The operation of TripStore that a call stands for.  *)
Performed(w) ==
    \/ w.kind = "create"  /\ InsertTrip(w.trip, w.key)
    \/ w.kind = "claim"   /\ InsertClaim(w.driver, w.trip)
    \/ w.kind = "release" /\ DeleteClaim(w.driver)
    \/ w.kind = "match"   /\ UpdateMatch(w.trip, w.ver, w.driver)
    \/ w.kind = "advance" /\ UpdateState(w.trip, w.ver, w.driver, w.dst)

(* What is committed changes as TripStore says, by one whole operation,    *)
(* that of a thread about to commit: the version it was called with is     *)
(* still the row's, the unique keys still admit the row, and a trip ends   *)
(* together with its claim.                                                *)
ImplementsStore ==
    [][timeouts = 0 =>
          \E th \in Threads : step[th] = "commit" /\ Performed(op[th])]_storeVars

Waiting(th) == (step[th] = "wait" /\ idle = <<>>) \/ LockWait(th)

(* Threads that wait for locks of each other: what InnoDB looks for. *)
Deadlocked(S) ==
    /\ S # {} /\ \A th \in S : Executes(th)
    /\ \A th \in S : \E u \in S : WaitsFor(conn[th], conn[u], Statement(th))

(* When all calls wait, for connections or for locks, InnoDB sees a circle *)
(* of locks among them and ends it: a wait for the pool, of which it knows *)
(* nothing, is never part of one, and neither pool_wait_s nor              *)
(* innodb_lock_wait_timeout is what gets the process going again.          *)
(* create_trip looks its key up only after it has put its connection back, *)
(* and a connection in the pool holds no lock.                             *)
StandstillIsSeen ==
    timeouts = 0 /\ (\E th \in Threads : Waiting(th)) =>
        \/ \E u \in Threads : step[u] # "idle" /\ ~Waiting(u)
        \/ \E S \in SUBSET Threads : Deadlocked(S)

(* The claim of a trip that ends goes with it. *)
ClaimGoes ==
    \A t \in Trips :
        ~IsTerminal(state[t]) /\ IsTerminal(state'[t]) => <<driver[t], t>> \notin claims'

(* A claim is deleted when the trip reaches a terminal state, says         *)
(* schema.sql of driver_claims.                                            *)
EndsWithItsClaim == [][ClaimGoes]_vars

(* That holds until a wait for a lock times out: the DELETE names the      *)
(* driver in the caller's copy, and he is the trip's as long as the version*)
(* is.                                                                     *)
EndsUntilTimeout == [][timeouts = 0 => ClaimGoes]_vars
=============================================================================
