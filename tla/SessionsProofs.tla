--------------------------- MODULE SessionsProofs ---------------------------
(***************************************************************************)
(* Proofs about Sessions: the pool keeps its connections, a connection at  *)
(* rest is clean, InnoDB sees every standstill, and what is committed is   *)
(* one whole operation of TripStore.                                       *)
(***************************************************************************)
EXTENDS Sessions, FiniteSetTheorems, SequenceTheorems, TLAPS

Steps == {"idle", "wait", "ready", "delete", "commit", "undo"}

(* The pool: who has which connection.  It holds whatever happens. *)
PoolInv ==
    /\ idle \in Seq(Conns) /\ IsInjective(idle)
    /\ conn \in [Threads -> Conns \cup {NoConn}]
    /\ step \in [Threads -> Steps]
    /\ \A th \in Threads : conn[th] = NoConn <=> step[th] \in {"idle", "wait"}
    /\ \A th, u \in Threads : th # u /\ conn[th] = conn[u] => conn[th] = NoConn
    /\ ToSet(idle) \cap InUse = {}
    /\ ToSet(idle) \cup InUse = Conns

-----------------------------------------------------------------------------
(* The rest holds until a wait for a lock times out.                       *)

Ops == [kind : {"read", "create", "claim", "release", "match", "advance"},
        trip : Trips \cup {NoTrip}, driver : Drivers \cup {NoDriver},
        key : Keys \cup {NoKey}, ver : Nat, dst : TripStates \cup {"absent"}]

(* What the callers of the store pass to it. *)
Legal(w) ==
    /\ w \in Ops
    /\ w.kind \in {"create", "claim", "match", "advance"} => w.trip \in Trips
    /\ w.kind \in {"claim", "release", "match"} => w.driver \in Drivers
    /\ w.kind = "create" => w.key \in Keys
    /\ w.kind = "advance" => w.dst \in Targets

SessionsTypeOK ==
    /\ StoreTypeOK
    /\ op = [th \in Threads |-> op[th]]
    /\ \A th \in Threads : Legal(op[th])
    /\ work = [c \in Conns |-> work[c]]
    /\ locks = [c \in Conns |-> locks[c]]
    /\ lost \subseteq Conns

Clean(c) == work[c] = <<>> /\ locks[c] = {}

(* A transaction is open only between the first statement of a call and    *)
(* its end, on a connection that the server has not closed.                *)
AtRest == \A c \in Conns : c \in ToSet(idle) \/ c \in lost => Clean(c)

Open(th) == conn[th] # NoConn /\ conn[th] \notin lost

(* The locks that keep what a call has found true until it commits. *)
Guards(w) ==
    CASE w.kind = "create"               -> {<<"key", w.key>>}
      [] w.kind \in {"match", "advance"} -> {<<"trip", w.trip>>}
      [] w.kind = "claim"                -> {<<"driver", w.driver>>, <<"claimed", w.trip>>}
      [] OTHER                           -> {}

(* The unique keys that an INSERT meets. *)
Refused(db, w) ==
    \/ w.kind = "create" /\ \E t \in Trips : /\ db.state[t] # "absent"
                                             /\ t = w.trip \/ db.idemKey[t] = w.key
    \/ w.kind = "claim" /\ \E c \in db.claims : c[1] = w.driver \/ c[2] = w.trip

(* What a connection has written by the time its thread stands at a step. *)
WorkDone(th) ==
    LET c == conn[th]
        w == op[th]
    IN  /\ step[th] = "ready" => work[c] = <<>>
        /\ step[th] = "undo" => w.kind # "read" /\ work[c] = <<>>
        /\ step[th] = "delete" => EndsWithDelete(w) /\ work[c] = <<w>>
        /\ step[th] = "commit" =>
              work[c] = IF w.kind = "read" THEN <<>>
                        ELSE IF EndsWithDelete(w) THEN <<w, Drop(w)>> ELSE <<w>>

Applied(th) == step[th] \in {"delete", "commit"} /\ op[th].kind # "read"

(* What it found still holds, and the locks say that it will. *)
StillTrue(th) ==
    Applied(th) =>
        /\ Guards(op[th]) \subseteq Held(conn[th], {"X"})
        /\ ~Refused(Tables, op[th]) /\ ~Missed(Tables, op[th])

LocksExclude ==
    \A c, e \in Conns : c # e => Held(c, {"X"}) \cap Held(e, {"S", "X"}) = {}

Creates(th) == step[th] # "idle" /\ op[th].kind = "create"

(* A create_trip under way has an id of its own that no row has; a caller  *)
(* of save_match or advance has read the row.                              *)
NewIds ==
    /\ \A th \in Threads :
          Creates(th) /\ conn[th] \notin lost => state[op[th].trip] = "absent"
    /\ \A th, u \in Threads :
          th # u /\ Creates(th) /\ Creates(u) => op[th].trip # op[u].trip
    /\ \A th \in Threads :
          step[th] # "idle" /\ op[th].kind \in {"match", "advance"} =>
              state[op[th].trip] # "absent"

TxnInv ==
    /\ SessionsTypeOK
    /\ AtRest
    /\ \A th \in Threads : Open(th) => WorkDone(th) /\ StillTrue(th)
    /\ LocksExclude
    /\ NewIds

SessionsInv ==
    /\ PoolInv
    /\ timeouts \in Nat
    /\ timeouts = 0 => TxnInv
-----------------------------------------------------------------------------
(* The pool                                                                *)

LEMMA PoolFilled ==
    ASSUME NEW S, IsFiniteSet(S), NEW s \in [1..Cardinality(S) -> S], ToSet(s) = S
    PROVE  s \in Seq(S) /\ IsInjective(s)
<1> DEFINE n == Cardinality(S)
<1>1. n \in Nat /\ IsFiniteSet(1..n) /\ Cardinality(1..n) = n
  BY FS_CardinalityType, FS_Interval
<1>2. s \in Surjection(1..n, S)
  <2>1. DOMAIN s = 1..n
    OBVIOUS
  <2> QED
    BY <2>1 DEF Surjection, ToSet
<1>3. s \in Injection(1..n, S)
  BY <1>1, <1>2, FS_Surjection
<1> QED
  BY <1>1, <1>3 DEF Injection

LEMMA PoolInitially == SessionsInit => PoolInv
<1> SUFFICES ASSUME SessionsInit
             PROVE  PoolInv
  OBVIOUS
<1>1. idle \in Seq(Conns) /\ IsInjective(idle) /\ ToSet(idle) = Conns
  BY PoolFilled, SessionsAssumption DEF SessionsInit
<1>2. InUse = {}
  BY DEF SessionsInit, InUse
<1> QED
  BY <1>1, <1>2 DEF SessionsInit, PoolInv, Steps

(* The pool in a step in which a thread keeps, takes or returns one.       *)
LEMMA PoolKept ==
    ASSUME PoolInv, NEW th \in Threads, NEW s \in Steps,
           conn[th] = NoConn <=> s \in {"idle", "wait"},
           step' = [step EXCEPT ![th] = s], UNCHANGED <<idle, conn>>
    PROVE  PoolInv'
<1>1. step' \in [Threads -> Steps] /\ InUse' = InUse
  BY DEF PoolInv, InUse
<1>2. \A u \in Threads : conn'[u] = NoConn <=> step'[u] \in {"idle", "wait"}
  BY DEF PoolInv
<1> QED
  BY <1>1, <1>2 DEF PoolInv

LEMMA PoolTaken ==
    ASSUME PoolInv, NEW th \in Threads, step[th] = "wait", idle # <<>>,
           conn' = [conn EXCEPT ![th] = Last(idle)], idle' = Front(idle),
           step' = [step EXCEPT ![th] = "ready"]
    PROVE  /\ PoolInv'
           /\ Last(idle) \in ToSet(idle) /\ Last(idle) \in Conns
           /\ ToSet(idle)' = ToSet(idle) \ {Last(idle)}
<1> DEFINE n == Len(idle)
           c == Last(idle)
<1>1. n \in Nat \ {0} /\ idle \in [1..n -> Conns]
  BY DEF PoolInv
<1>2. c = idle[n] /\ c \in Conns /\ c # NoConn
  BY <1>1, SessionsAssumption DEF Last
<1>3. idle' \in Seq(Conns) /\ DOMAIN idle' = 1..(n - 1)
      /\ \A i \in 1..(n - 1) : idle'[i] = idle[i]
  BY <1>1 DEF Front, PoolInv
<1>4. ToSet(idle)' = ToSet(idle) \ {c}
  <2>1. \A i \in 1..(n - 1) : idle[i] # c
    BY <1>1, <1>2 DEF IsInjective, PoolInv
  <2>2. \A i \in 1..n : idle[i] # c => i \in 1..(n - 1)
    BY <1>1, <1>2
  <2>3. DOMAIN idle = 1..n
    BY <1>1
  <2> QED
    BY <1>3, <2>1, <2>2, <2>3 DEF ToSet
<1>5. c \in ToSet(idle)
  BY <1>1, <1>2 DEF ToSet
<1>6. IsInjective(idle')
  BY <1>1, <1>3 DEF IsInjective, PoolInv
<1>7. conn[th] = NoConn /\ c \notin InUse
  BY <1>5 DEF PoolInv
<1>8. InUse' = InUse \cup {c}
  BY <1>2, <1>7 DEF InUse, PoolInv
<1>9. /\ conn' \in [Threads -> Conns \cup {NoConn}]
      /\ step' \in [Threads -> Steps]
      /\ \A u \in Threads : conn'[u] = NoConn <=> step'[u] \in {"idle", "wait"}
  BY <1>2 DEF PoolInv, Steps
<1>10. ASSUME NEW u \in Threads, NEW v \in Threads, u # v, conn'[u] = conn'[v]
       PROVE  conn'[u] = NoConn
  <2>1. \A x \in Threads : x # th => conn'[x] = conn[x] /\ conn[x] # c
    BY <1>2, <1>7 DEF PoolInv, InUse
  <2>2. conn'[th] = c
    BY DEF PoolInv
  <2> QED
    BY <1>10, <2>1, <2>2 DEF PoolInv
<1>11. ToSet(idle)' \cap InUse' = {} /\ ToSet(idle)' \cup InUse' = Conns
  BY <1>4, <1>5, <1>7, <1>8 DEF PoolInv
<1> QED
  BY <1>2, <1>3, <1>4, <1>5, <1>6, <1>9, <1>10, <1>11 DEF PoolInv

LEMMA PoolReturned ==
    ASSUME PoolInv, NEW th \in Threads, NEW s \in {"idle", "wait"},
           conn[th] # NoConn, PutBack(th), step' = [step EXCEPT ![th] = s]
    PROVE  /\ PoolInv'
           /\ ToSet(idle)' = ToSet(idle) \cup {conn[th]}
<1> DEFINE n == Len(idle)
           c == conn[th]
<1>1. n \in Nat /\ idle \in [1..n -> Conns] /\ c \in Conns
  BY DEF PoolInv
<1>2. idle' = Append(idle, c)
  BY DEF PutBack
<1>3. /\ idle' \in Seq(Conns) /\ DOMAIN idle' = 1..(n + 1)
      /\ \A i \in 1..n : idle'[i] = idle[i]
      /\ idle'[n + 1] = c
  BY <1>1, <1>2 DEF PoolInv
<1>4. DOMAIN idle = 1..n
  BY <1>1
<1>5. ToSet(idle)' = ToSet(idle) \cup {c}
  <2>1. 1..(n + 1) = 1..n \cup {n + 1}
    BY <1>1
  <2> QED
    BY <1>3, <1>4, <2>1 DEF ToSet
<1>6. c \in InUse /\ c \notin ToSet(idle)
  BY DEF PoolInv, InUse
<1>7. IsInjective(idle')
  <2>1. \A i \in 1..n : idle[i] # c
    BY <1>4, <1>6 DEF ToSet
  <2> QED
    BY <1>1, <1>3, <1>4, <2>1 DEF IsInjective, PoolInv
<1>8. conn' = [conn EXCEPT ![th] = NoConn]
  BY DEF PutBack
<1>9. InUse' = InUse \ {c}
  <2>1. \A u \in Threads : u # th => conn'[u] = conn[u] /\ conn[u] # c
    BY <1>8 DEF PoolInv
  <2>2. conn'[th] = NoConn
    BY <1>8 DEF PoolInv
  <2> QED
    BY <2>1, <2>2 DEF InUse
<1>10. /\ conn' \in [Threads -> Conns \cup {NoConn}]
       /\ step' \in [Threads -> Steps]
       /\ \A u \in Threads : conn'[u] = NoConn <=> step'[u] \in {"idle", "wait"}
       /\ \A u, v \in Threads : u # v /\ conn'[u] = conn'[v] => conn'[u] = NoConn
  BY <1>8 DEF PoolInv, Steps
<1>11. ToSet(idle)' \cap InUse' = {} /\ ToSet(idle)' \cup InUse' = Conns
  BY <1>5, <1>6, <1>9 DEF PoolInv
<1> QED
  BY <1>3, <1>5, <1>7, <1>10, <1>11 DEF PoolInv

LEMMA PoolNext == PoolInv /\ [SessionsNext]_vars => PoolInv'
<1> SUFFICES ASSUME PoolInv, [SessionsNext]_vars
             PROVE  PoolInv'
  OBVIOUS
<1> USE DEF Steps
<1>1. CASE UNCHANGED vars
  <2>1. idle' = idle /\ conn' = conn /\ step' = step
    BY <1>1 DEF vars, threadVars
  <2>2. InUse' = InUse
    BY <2>1 DEF InUse
  <2> QED
    BY <2>1, <2>2 DEF PoolInv
<1>2. ASSUME NEW th \in Threads, Calls(th)
      PROVE  PoolInv'
  <2>1. PICK w : Begins(th, w)
    BY <1>2 DEF Calls, CreateTrip, ClaimDriver, ReleaseDriver, SaveMatch, Advance, Get
  <2> QED
    BY <2>1, PoolKept DEF Begins, PoolInv
<1>3. ASSUME NEW th \in Threads, Acquire(th)
      PROVE  PoolInv'
  BY <1>3, PoolTaken DEF Acquire
<1>4. ASSUME NEW th \in Threads, PoolExhausted(th)
      PROVE  PoolInv'
  BY <1>4, PoolKept DEF PoolExhausted, Returned, PoolInv
<1>5. ASSUME NEW th \in Threads, Select(th) \/ Check(th) \/ Write(th)
      PROVE  PoolInv'
  <2>1. step[th] \in {"ready", "delete"} /\ UNCHANGED <<idle, conn>>
    BY <1>5 DEF Select, Check, Write, Executes
  <2>2. conn[th] # NoConn
    BY <2>1 DEF PoolInv
  <2>3. PICK s \in Steps \ {"idle", "wait"} : step' = [step EXCEPT ![th] = s]
    <3>1. step = [step EXCEPT ![th] = step[th]]
      BY DEF PoolInv
    <3>2. CASE UNCHANGED step
      BY <2>1, <3>1, <3>2
    <3>3. CASE step' # step
      <4>1. PICK s \in {"undo", "delete", "commit"} : Goto(th, s)
        BY <1>5, <3>3 DEF Select, Check, Write
      <4> QED
        BY <4>1 DEF Goto
    <3> QED
      BY <3>2, <3>3
  <2> QED
    BY <2>1, <2>2, <2>3, PoolKept
<1>6. ASSUME NEW th \in Threads,
             Commit(th) \/ Undo(th) \/ Raises(th) \/ LockTimeout(th) \/ DeadlockVictim(th)
      PROVE  PoolInv'
  <2>1. conn[th] # NoConn /\ PutBack(th)
    BY <1>6
       DEF Commit, Undo, Raises, LockTimeout, DeadlockVictim, LockWait, Executes, PoolInv
  <2>2. PICK s \in {"idle", "wait"} : step' = [step EXCEPT ![th] = s]
    BY <1>6 DEF Commit, Undo, Raises, LockTimeout, DeadlockVictim, AfterUndo, Returned
  <2> QED
    BY <2>1, <2>2, PoolReturned
<1>7. ASSUME NEW th \in Threads, CommitUnacked(th)
      PROVE  PoolInv'
  BY <1>7 DEF CommitUnacked, threadVars, PoolInv, InUse, ToSet
<1>8. ASSUME NEW c \in Conns, ConnectionLost(c)
      PROVE  PoolInv'
  BY <1>8 DEF ConnectionLost, threadVars, PoolInv, InUse, ToSet
<1> QED
  BY <1>1, <1>2, <1>3, <1>4, <1>5, <1>6, <1>7, <1>8 DEF SessionsNext, Proceeds

LEMMA PoolConserves == PoolInv => ConnsConserved
<1> SUFFICES ASSUME PoolInv
             PROVE  Len(idle) = Cardinality(ToSet(idle))
  BY DEF PoolInv, ConnsConserved
<1> DEFINE n == Len(idle)
<1>1. n \in Nat /\ idle \in [1..n -> Conns] /\ IsInjective(idle)
  BY DEF PoolInv
<1>2. DOMAIN idle = 1..n
  BY <1>1
<1>3. idle \in Surjection(1..n, ToSet(idle)) /\ idle \in Injection(1..n, ToSet(idle))
  BY <1>1, <1>2 DEF Surjection, Injection, ToSet
<1>4. ExistsBijection(1..n, ToSet(idle))
  BY <1>3 DEF ExistsBijection, Bijection
<1>5. IsFiniteSet(1..n) /\ Cardinality(1..n) = n
  BY <1>1, FS_Interval
<1> QED
  BY <1>4, <1>5, FS_Bijection

(* Whatever a call runs into, acquire loses no connection, lends none      *)
(* twice, and keeps none that a thread has.                                *)
THEOREM PoolConserved == SessionsSpec => []ConnsConserved
<1> QED
  BY PoolInitially, PoolNext, PoolConserves, PTL DEF SessionsSpec

-----------------------------------------------------------------------------
(* What a transaction sees: the folds of no write, of one and of two.      *)

LEMMA MaxOfOne == Max({1}) = 1
BY DEF Max

LEMMA MaxOfSecond == Max({2}) = 2
BY DEF Max

LEMMA MaxOfTwo == Max({1, 2}) = 2
<1>1. \A x : (x \in {1, 2} /\ \A y \in {1, 2} : x >= y) <=> x = 2
  OBVIOUS
<1> QED
  BY <1>1 DEF Max

LEMMA SeesTables ==
    ASSUME NEW c, work[c] = <<>>
    PROVE  View(c) = Tables
<1>1. DOMAIN work[c] = {}
  OBVIOUS
<1> QED
  BY <1>1 DEF View, FoldLeft, MapThenFoldSet

LEMMA SeesOneWrite ==
    ASSUME NEW c, NEW w, work[c] = <<w>>
    PROVE  View(c) = Apply(Tables, w)
<1> DEFINE Iter(g) == [s \in SUBSET {1} |->
                          IF s = {} THEN Tables
                          ELSE Apply(g[s \ {Max(s)}], work[c][Max(s)])]
           G == [s \in SUBSET {1} |-> IF s = {} THEN Tables ELSE Apply(Tables, w)]
           F == CHOOSE g : g = Iter(g)
<1>1. DOMAIN work[c] = {1} /\ work[c][1] = w
  OBVIOUS
<1>2. G = Iter(G)
  <2> SUFFICES ASSUME NEW s \in SUBSET {1}
               PROVE  G[s] = Iter(G)[s]
    OBVIOUS
  <2>1. s = {} \/ s = {1}
    OBVIOUS
  <2>2. CASE s = {1}
    <3>1. Max(s) = 1 /\ s \ {Max(s)} = {} /\ s # {}
      BY <2>2, MaxOfOne
    <3>2. G[{}] = Tables
      OBVIOUS
    <3> QED
      BY <1>1, <2>2, <3>1, <3>2
  <2> QED
    BY <2>1, <2>2
<1>3. F = Iter(F)
  <2> HIDE DEF G, Iter
  <2> QED
    BY <1>2
<1>4. View(c) = F[{1}]
  BY <1>1, Zenon DEF View, FoldLeft, MapThenFoldSet
<1>5. F[{}] = Tables
  BY <1>3
<1>6. F[{1}] = Apply(F[{1} \ {Max({1})}], work[c][Max({1})])
  BY <1>3
<1>7. {1} \ {Max({1})} = {} /\ work[c][Max({1})] = w
  BY <1>1, MaxOfOne
<1> QED
  BY <1>4, <1>5, <1>6, <1>7

LEMMA SeesTwoWrites ==
    ASSUME NEW c, NEW w, NEW x, work[c] = <<w, x>>
    PROVE  View(c) = Apply(Apply(Tables, w), x)
<1> DEFINE Iter(g) == [s \in SUBSET {1, 2} |->
                          IF s = {} THEN Tables
                          ELSE Apply(g[s \ {Max(s)}], work[c][Max(s)])]
           One == Apply(Tables, work[c][1])
           Other == Apply(Tables, work[c][2])
           G == [s \in SUBSET {1, 2} |->
                    CASE s = {}     -> Tables
                      [] s = {1}    -> One
                      [] s = {2}    -> Other
                      [] s = {1, 2} -> Apply(One, work[c][2])]
           F == CHOOSE g : g = Iter(g)
<1>1. DOMAIN work[c] = {1, 2} /\ work[c][1] = w /\ work[c][2] = x
  OBVIOUS
<1>2. /\ G[{}] = Tables /\ G[{1}] = One /\ G[{2}] = Other
      /\ G[{1, 2}] = Apply(One, work[c][2])
  <2>1. {1} # {} /\ {2} # {} /\ {1, 2} # {} /\ {1} # {2} /\ {1, 2} # {1} /\ {1, 2} # {2}
    OBVIOUS
  <2>2. {{}, {1}, {2}, {1, 2}} \subseteq SUBSET {1, 2}
    OBVIOUS
  <2>3. ASSUME NEW s \in SUBSET {1, 2}
        PROVE  G[s] = CASE s = {}     -> Tables
                        [] s = {1}    -> One
                        [] s = {2}    -> Other
                        [] s = {1, 2} -> Apply(One, work[c][2])
    OBVIOUS
  <2> HIDE DEF G, One, Other
  <2> QED
    BY <2>1, <2>2, <2>3
<1>3. G = Iter(G)
  <2> SUFFICES ASSUME NEW s \in SUBSET {1, 2}
               PROVE  G[s] = Iter(G)[s]
    OBVIOUS
  <2>1. s = {} \/ s = {1} \/ s = {2} \/ s = {1, 2}
    OBVIOUS
  <2>2. CASE s = {1}
    <3>1. Max(s) = 1 /\ s \ {Max(s)} = {} /\ s # {}
      BY <2>2, MaxOfOne
    <3> QED
      BY <1>2, <2>2, <3>1
  <2>3. CASE s = {2}
    <3>1. Max(s) = 2 /\ s \ {Max(s)} = {} /\ s # {}
      BY <2>3, MaxOfSecond
    <3> QED
      BY <1>2, <2>3, <3>1
  <2>4. CASE s = {1, 2}
    <3>1. Max(s) = 2 /\ s \ {Max(s)} = {1} /\ s # {}
      BY <2>4, MaxOfTwo
    <3> QED
      BY <1>2, <2>4, <3>1
  <2> QED
    BY <1>2, <2>1, <2>2, <2>3, <2>4
<1>4. F = Iter(F)
  <2> HIDE DEF G, Iter
  <2> QED
    BY <1>3
<1>5. View(c) = F[{1, 2}]
  BY <1>1, Zenon DEF View, FoldLeft, MapThenFoldSet
<1>6. F[{}] = Tables
  BY <1>4
<1>7. F[{1}] = Apply(F[{1} \ {Max({1})}], work[c][Max({1})])
  <2>1. {1} # {} /\ {1} \in SUBSET {1, 2}
    OBVIOUS
  <2> HIDE DEF F
  <2> QED
    BY <1>4, <2>1
<1>8. F[{1, 2}] = Apply(F[{1, 2} \ {Max({1, 2})}], work[c][Max({1, 2})])
  BY <1>4
<1>9. {1} \ {Max({1})} = {} /\ work[c][Max({1})] = w
  BY <1>1, MaxOfOne
<1>10. {1, 2} \ {Max({1, 2})} = {1} /\ work[c][Max({1, 2})] = x
  BY <1>1, MaxOfTwo
<1> QED
  BY <1>5, <1>6, <1>7, <1>8, <1>9, <1>10

-----------------------------------------------------------------------------
(* What stays when nothing is published                                    *)

LEMMA StoreKept ==
    ASSUME UNCHANGED storeVars
    PROVE  /\ Tables' = Tables
           /\ StoreTypeOK => StoreTypeOK'
BY DEF storeVars, Tables, StoreTypeOK

LEMMA ThreadKept ==
    ASSUME NEW u \in Threads, WorkDone(u), StillTrue(u), Tables' = Tables,
           op'[u] = op[u], step'[u] = step[u], conn'[u] = conn[u],
           work'[conn[u]] = work[conn[u]], locks'[conn[u]] = locks[conn[u]]
    PROVE  WorkDone(u)' /\ StillTrue(u)'
<1>1. WorkDone(u)'
  BY DEF WorkDone, Clean, EndsWithDelete, Drop
<1>2. StillTrue(u)'
  BY DEF StillTrue, Applied, Held
<1> QED
  BY <1>1, <1>2

LEMMA OthersKept ==
    ASSUME TxnInv, NEW th \in Threads, UNCHANGED storeVars,
           \A u \in Threads : Open(u)' /\ u # th =>
               /\ Open(u)
               /\ op'[u] = op[u] /\ step'[u] = step[u] /\ conn'[u] = conn[u]
               /\ work'[conn[u]] = work[conn[u]] /\ locks'[conn[u]] = locks[conn[u]]
    PROVE  \A u \in Threads : Open(u)' /\ u # th => WorkDone(u)' /\ StillTrue(u)'
BY StoreKept, ThreadKept DEF TxnInv

LEMMA ExcludeKept ==
    ASSUME LocksExclude, \A c \in Conns : locks'[c] \subseteq locks[c]
    PROVE  LocksExclude'
BY DEF LocksExclude, Held

LEMMA IdsKept ==
    ASSUME NewIds, state' = state,
           \A u \in Threads :
               /\ Creates(u)' => /\ Creates(u) /\ op'[u] = op[u]
                                 /\ conn[u] \in lost => conn'[u] \in lost'
               /\ step'[u] # "idle" /\ op'[u].kind \in {"match", "advance"} =>
                     step[u] # "idle" /\ op'[u] = op[u]
    PROVE  NewIds'
BY DEF NewIds, Creates

(* A thread that has a connection has it to itself.                        *)
LEMMA OwnConn ==
    ASSUME PoolInv, NEW th \in Threads, conn[th] # NoConn
    PROVE  /\ conn[th] \in Conns /\ conn[th] \notin ToSet(idle)
           /\ \A u \in Threads : u # th => conn[u] # conn[th]
BY DEF PoolInv, InUse

-----------------------------------------------------------------------------
(* Calls, and the pool                                                     *)

LEMMA Beginning ==
    ASSUME PoolInv, TxnInv, NEW th \in Threads, NEW w, Legal(w), Begins(th, w),
           w.kind = "create" =>
               /\ state[w.trip] = "absent"
               /\ \A u \in Threads : step[u] # "idle" => op[u].trip # w.trip,
           w.kind \in {"match", "advance"} => state[w.trip] # "absent"
    PROVE  TxnInv'
<1> USE DEF Begins, txnVars
<1>1. conn[th] = NoConn /\ step[th] = "idle"
  BY DEF PoolInv
<1>2. SessionsTypeOK'
  BY StoreKept DEF TxnInv, SessionsTypeOK
<1>3. AtRest'
  BY DEF TxnInv, AtRest, ToSet, Clean
<1>4. op'[th] = w /\ \A u \in Threads : u # th => op'[u] = op[u] /\ step'[u] = step[u]
  BY DEF TxnInv, SessionsTypeOK, PoolInv
<1>5. \A u \in Threads : Open(u)' => u # th
  BY <1>1 DEF Open
<1>6. \A u \in Threads : Open(u)' => WorkDone(u)' /\ StillTrue(u)'
  BY <1>4, <1>5, OthersKept DEF Open
<1>7. LocksExclude'
  BY ExcludeKept DEF TxnInv
<1>8. NewIds'
  BY <1>4 DEF TxnInv, NewIds, Creates, storeVars
<1> QED
  BY <1>2, <1>3, <1>6, <1>7, <1>8 DEF TxnInv

LEMMA StepCalls ==
    ASSUME PoolInv, TxnInv, NEW th \in Threads, Calls(th)
    PROVE  TxnInv'
<1> USE DEF Call, Legal, Ops
<1>1. StoreTypeOK
  BY DEF TxnInv, SessionsTypeOK
<1>2. CASE CreateTrip(th)
  <2>1. PICK t \in Trips, k \in Keys :
           ~Minted(t) /\ Begins(th, Call("create", t, NoDriver, k, 0, "requested"))
    BY <1>2 DEF CreateTrip
  <2> DEFINE w == Call("create", t, NoDriver, k, 0, "requested")
  <2>2. Legal(w)
    BY DEF TripStates
  <2>3. state[t] = "absent" /\ \A u \in Threads : step[u] # "idle" => op[u].trip # t
    BY <2>1 DEF Minted
  <2> QED
    BY <2>1, <2>2, <2>3, Beginning
<1>3. CASE ClaimDriver(th)
  <2>1. PICK t \in Trips, d \in Drivers :
           Begins(th, Call("claim", t, d, NoKey, 0, "requested"))
    BY <1>3 DEF ClaimDriver
  <2> DEFINE w == Call("claim", t, d, NoKey, 0, "requested")
  <2>2. Legal(w)
    BY DEF TripStates
  <2> QED
    BY <2>1, <2>2, Beginning
<1>4. CASE ReleaseDriver(th)
  <2>1. PICK d \in Drivers : Begins(th, Call("release", NoTrip, d, NoKey, 0, "absent"))
    BY <1>4 DEF ReleaseDriver
  <2> DEFINE w == Call("release", NoTrip, d, NoKey, 0, "absent")
  <2>2. Legal(w)
    BY DEF NoTrip
  <2> QED
    BY <2>1, <2>2, Beginning
<1>5. CASE SaveMatch(th)
  <2>1. PICK t \in Trips, d \in Drivers :
           /\ CanTransition(state[t], "matched")
           /\ Begins(th, Call("match", t, d, NoKey, version[t], "matched"))
    BY <1>5 DEF SaveMatch
  <2> DEFINE w == Call("match", t, d, NoKey, version[t], "matched")
  <2>2. Legal(w)
    BY <1>1 DEF TripStates, StoreTypeOK
  <2>3. state[t] # "absent"
    BY <2>1 DEF CanTransition, Allowed
  <2> QED
    BY <2>1, <2>2, <2>3, Beginning
<1>6. CASE Advance(th)
  <2>1. PICK t \in Trips, dst \in Targets :
           /\ CanTransition(state[t], dst)
           /\ Begins(th, Call("advance", t, driver[t], NoKey, version[t], dst))
    BY <1>6 DEF Advance
  <2> DEFINE w == Call("advance", t, driver[t], NoKey, version[t], dst)
  <2>2. Legal(w)
    BY <1>1, SessionsAssumption DEF StoreTypeOK
  <2>3. state[t] # "absent"
    BY <2>1 DEF CanTransition, Allowed
  <2> QED
    BY <2>1, <2>2, <2>3, Beginning
<1>7. CASE Get(th)
  <2>1. Legal(Reading) /\ Reading.kind = "read"
    BY DEF Reading
  <2> QED
    BY <1>7, <2>1, Beginning DEF Get
<1> QED
  BY <1>2, <1>3, <1>4, <1>5, <1>6, <1>7 DEF Calls

LEMMA StepAcquire ==
    ASSUME PoolInv, TxnInv, NEW th \in Threads, Acquire(th)
    PROVE  TxnInv'
<1> DEFINE c == Last(idle)
<1> USE DEF Acquire, txnVars
<1>1. /\ step[th] = "wait" /\ conn' = [conn EXCEPT ![th] = c]
      /\ step' = [step EXCEPT ![th] = "ready"] /\ lost' = lost \ {c}
      /\ op' = op /\ work' = work /\ locks' = locks
  OBVIOUS
<1>2. c \in ToSet(idle) /\ c \in Conns /\ ToSet(idle)' = ToSet(idle) \ {c}
  BY PoolTaken
<1>3. Clean(c)
  BY <1>2 DEF TxnInv, AtRest
<1>4. conn'[th] = c /\ step'[th] = "ready"
      /\ \A u \in Threads : u # th => conn'[u] = conn[u] /\ step'[u] = step[u]
  BY <1>1 DEF PoolInv
<1>5. \A u \in Threads : conn[u] # c
  BY <1>2, SessionsAssumption DEF PoolInv, InUse
<1>6. SessionsTypeOK'
  BY <1>1, StoreKept DEF TxnInv, SessionsTypeOK
<1>7. AtRest'
  BY <1>1, <1>2 DEF TxnInv, AtRest, Clean
<1>8. \A u \in Threads : Open(u)' /\ u # th => WorkDone(u)' /\ StillTrue(u)'
  BY <1>1, <1>4, <1>5, OthersKept DEF Open
<1>9. WorkDone(th)' /\ StillTrue(th)'
  BY <1>1, <1>3, <1>4 DEF WorkDone, Clean, StillTrue, Applied
<1>10. LocksExclude'
  BY <1>1, ExcludeKept DEF TxnInv
<1>11. NewIds'
  <2>1. conn[th] \notin lost
    BY <1>1, SessionsAssumption DEF PoolInv, TxnInv, SessionsTypeOK
  <2>2. \A u \in Threads : conn[u] \in lost => conn'[u] \in lost'
    BY <1>1, <1>4, <1>5, <2>1
  <2> QED
    BY <1>1, <1>4, <2>2, IdsKept DEF TxnInv, Creates, storeVars
<1> QED
  BY <1>6, <1>7, <1>8, <1>9, <1>10, <1>11 DEF TxnInv

LEMMA StepPoolExhausted ==
    ASSUME PoolInv, TxnInv, NEW th \in Threads, PoolExhausted(th)
    PROVE  TxnInv'
<1> USE DEF PoolExhausted, Returned, txnVars
<1>1. /\ step' = [step EXCEPT ![th] = "idle"] /\ op' = [op EXCEPT ![th] = Reading]
      /\ UNCHANGED <<conn, work, locks, lost, idle, state>>
  BY DEF storeVars
<1>2. conn[th] = NoConn
  BY DEF PoolInv
<1>3. \A u \in Threads : u # th => op'[u] = op[u] /\ step'[u] = step[u]
  BY <1>1 DEF TxnInv, SessionsTypeOK, PoolInv
<1>4. step'[th] = "idle"
  BY <1>1 DEF PoolInv
<1>5. Legal(Reading)
  BY DEF Legal, Ops, Reading, Call, NoTrip
<1>6. SessionsTypeOK'
  BY <1>1, <1>5, StoreKept DEF TxnInv, SessionsTypeOK
<1>7. AtRest'
  BY <1>1 DEF TxnInv, AtRest, Clean, ToSet
<1>8. \A u \in Threads : Open(u)' => WorkDone(u)' /\ StillTrue(u)'
  BY <1>1, <1>2, <1>3, OthersKept DEF Open
<1>9. LocksExclude'
  BY <1>1, ExcludeKept DEF TxnInv
<1>10. NewIds'
  BY <1>1, <1>3, <1>4, IdsKept DEF TxnInv, Creates
<1> QED
  BY <1>6, <1>7, <1>8, <1>9, <1>10 DEF TxnInv

-----------------------------------------------------------------------------
(* Statements                                                              *)

(* A statement touches its own thread and connection only.                 *)
LEMMA StatementsKeep ==
    ASSUME PoolInv, TxnInv, NEW th \in Threads, Open(th), step[th] # "idle",
           NEW s \in Steps, s # "idle", step' = [step EXCEPT ![th] = s],
           UNCHANGED <<storeVars, idle, conn, op, lost>>,
           NEW W, NEW L,
           work' = [work EXCEPT ![conn[th]] = W],
           locks' = [locks EXCEPT ![conn[th]] = L],
           LocksExclude', WorkDone(th)', StillTrue(th)'
    PROVE  TxnInv'
<1>1. /\ conn[th] \in Conns /\ conn[th] \notin ToSet(idle) /\ conn[th] \notin lost
      /\ \A u \in Threads : u # th => conn[u] # conn[th]
  BY OwnConn DEF Open
<1>2. /\ step'[th] = s
      /\ \A u \in Threads : u # th => step'[u] = step[u]
  BY DEF PoolInv
<1>3. \A c \in Conns : c # conn[th] => work'[c] = work[c] /\ locks'[c] = locks[c]
  BY DEF TxnInv, SessionsTypeOK
<1>4. SessionsTypeOK'
  BY StoreKept DEF TxnInv, SessionsTypeOK
<1>5. AtRest'
  BY <1>1, <1>3 DEF TxnInv, AtRest, Clean, ToSet
<1>6. \A u \in Threads : Open(u)' /\ u # th => conn[u] \in Conns
  BY DEF Open, PoolInv
<1>7. \A u \in Threads : Open(u)' /\ u # th => WorkDone(u)' /\ StillTrue(u)'
  BY <1>1, <1>2, <1>3, <1>6, OthersKept DEF Open
<1>8. NewIds'
  BY <1>2, IdsKept DEF TxnInv, Creates, storeVars
<1> QED
  BY <1>4, <1>5, <1>7, <1>8 DEF TxnInv

LEMMA Locking ==
    ASSUME PoolInv, TxnInv, NEW c \in Conns, NEW what, NEW mode \in {"S", "X"},
           \A e \in Conns \ {c} :
               Held(e, IF mode = "S" THEN {"X"} ELSE {"S", "X"}) \cap what = {},
           locks' = [locks EXCEPT ![c] = locks[c] \cup (what \X {mode})]
    PROVE  /\ LocksExclude'
           /\ Held(c, {"X"}) \subseteq Held(c, {"X"})'
           /\ mode = "X" => what \subseteq Held(c, {"X"})'
<1>1. locks'[c] = locks[c] \cup (what \X {mode})
      /\ \A e \in Conns : e # c => locks'[e] = locks[e]
  BY DEF TxnInv, SessionsTypeOK
<1>2. \A modes : \A e \in Conns : e # c => Held(e, modes)' = Held(e, modes)
  BY <1>1 DEF Held
<1>3. /\ Held(c, {"S", "X"})' = Held(c, {"S", "X"}) \cup what
      /\ Held(c, {"X"})' = Held(c, {"X"}) \cup (IF mode = "X" THEN what ELSE {})
  <2>1. \A l \in what \X {mode} : l[1] \in what /\ l[2] = mode
    OBVIOUS
  <2>2. \A x \in what : <<x, mode>> \in what \X {mode} /\ <<x, mode>>[1] = x
                       /\ <<x, mode>>[2] = mode
    OBVIOUS
  <2> DEFINE new == what \X {mode}
  <2> HIDE DEF new
  <2>3. ASSUME NEW modes
        PROVE  {l[1] : l \in {k \in locks[c] \cup new : k[2] \in modes}}
                  = Held(c, modes) \cup {l[1] : l \in {k \in new : k[2] \in modes}}
    BY DEF Held
  <2>4. ASSUME NEW modes
        PROVE  {l[1] : l \in {k \in new : k[2] \in modes}}
                  = IF mode \in modes THEN what ELSE {}
    BY <2>1, <2>2 DEF new
  <2> QED
    BY <1>1, <2>3, <2>4 DEF Held, new
<1>4. \A e \in Conns : e # c =>
         Held(e, IF mode = "S" THEN {"X"} ELSE {"S", "X"}) \cap what = {}
  OBVIOUS
<1>5. \A e : Held(e, {"X"}) \subseteq Held(e, {"S", "X"})
  BY DEF Held
<1>6. ASSUME NEW a \in Conns, NEW e \in Conns, a # e
      PROVE  Held(a, {"X"})' \cap Held(e, {"S", "X"})' = {}
  <2>1. Held(a, {"X"}) \cap Held(e, {"S", "X"}) = {}
    BY <1>6 DEF TxnInv, LocksExclude
  <2>2. CASE a = c
    <3>1. Held(e, {"S", "X"})' = Held(e, {"S", "X"})
      BY <1>2, <1>6, <2>2
    <3>2. CASE mode = "X"
      BY <1>3, <1>4, <1>6, <2>1, <2>2, <3>1, <3>2
    <3>3. CASE mode = "S"
      <4>1. Held(c, {"X"})' = Held(c, {"X"})
        BY <1>3, <3>3
      <4> QED
        BY <2>1, <2>2, <3>1, <4>1
    <3> QED
      BY <3>2, <3>3
  <2>3. CASE e = c
    <3>1. Held(a, {"X"})' = Held(a, {"X"})
      BY <1>2, <1>6, <2>3
    <3>2. Held(a, {"X"}) \cap what = {}
      BY <1>4, <1>5, <1>6, <2>3
    <3> QED
      BY <1>3, <2>1, <2>3, <3>1, <3>2
  <2>4. CASE a # c /\ e # c
    BY <1>2, <2>1, <2>4
  <2> QED
    BY <2>2, <2>3, <2>4
<1>7. LocksExclude'
  BY <1>6 DEF LocksExclude
<1> QED
  BY <1>3, <1>7

LEMMA StepSelect ==
    ASSUME PoolInv, TxnInv, NEW th \in Threads, Select(th)
    PROVE  TxnInv'
<1> USE DEF Select, txnVars
<1>1. Open(th)
  BY DEF Open, PoolInv
<1>2. conn[th] \in Conns /\ work[conn[th]] = <<>>
  BY <1>1, OwnConn DEF TxnInv, WorkDone, Open
<1>3. step'[th] = "commit" /\ op' = op /\ conn' = conn /\ work' = work /\ locks' = locks
  BY DEF Goto, PoolInv
<1>4. /\ work' = [work EXCEPT ![conn[th]] = work[conn[th]]]
      /\ locks' = [locks EXCEPT ![conn[th]] = locks[conn[th]]]
  BY <1>3 DEF TxnInv, SessionsTypeOK
<1>5. WorkDone(th)' /\ StillTrue(th)'
  BY <1>2, <1>3 DEF WorkDone, Clean, StillTrue, Applied
<1>6. LocksExclude'
  BY <1>3, ExcludeKept DEF TxnInv
<1> QED
  BY <1>1, <1>4, <1>5, <1>6, StatementsKeep DEF Steps, Goto

LEMMA AppendToOne == \A v, x : Append(<<v>>, x) = <<v, x>>
<1> SUFFICES ASSUME NEW v, NEW x
             PROVE  Append(<<v>>, x) = <<v, x>>
  OBVIOUS
<1> DEFINE s == Append(<<v>>, x)
<1>1. <<v>> \in Seq({v, x}) /\ Len(<<v>>) = 1 /\ <<v>>[1] = v
  OBVIOUS
<1>2. s \in Seq({v, x}) /\ Len(s) = 2 /\ s[1] = v /\ s[2] = x
  BY <1>1, AppendProperties
<1> DEFINE p == <<v, x>>
<1>3. p \in Seq({v, x}) /\ Len(p) = 2 /\ p[1] = v /\ p[2] = x
  OBVIOUS
<1>4. \A i \in 1..Len(s) : s[i] = p[i]
  <2> HIDE DEF s, p
  <2> QED
    BY <1>2, <1>3
<1> HIDE DEF s, p
<1>5. s = p
  BY <1>2, <1>3, <1>4, SeqEqual
<1> QED
  BY <1>5 DEF s, p

(* Where a thread stands that executes a statement.                        *)
LEMMA Executing ==
    ASSUME PoolInv, TxnInv, NEW th \in Threads, Executes(th)
    PROVE  /\ Open(th) /\ conn[th] \in Conns /\ Legal(op[th]) /\ WorkDone(th) /\ StillTrue(th)
           /\ step[th] = "delete" => Statement(th).kind = "drop"
           /\ step[th] = "ready" => Statement(th) = op[th] /\ op[th].kind # "drop"
<1>1. Open(th)
  BY DEF Executes, Open, PoolInv
<1>2. Legal(op[th])
  BY DEF TxnInv, SessionsTypeOK
<1>3. Drop(op[th]).kind = "drop" /\ op[th].kind # "drop"
  BY <1>2 DEF Drop, Legal, Ops
<1> QED
  BY <1>1, <1>2, <1>3, OwnConn DEF TxnInv, Statement, Open

(* Nobody stands in the way of a lock that is taken.                       *)
LEMMA Unblocked ==
    ASSUME NEW c, NEW w, ~Blocked(c, w)
    PROVE  \A e \in Conns \ {c} :
               Held(e, IF Checking(c, w) THEN {"X"} ELSE {"S", "X"}) \cap Wanted(c, w) = {}
BY DEF Blocked, WaitsFor

LEMMA StepCheck ==
    ASSUME PoolInv, TxnInv, NEW th \in Threads, Check(th)
    PROVE  TxnInv'
<1> DEFINE c == conn[th]
           w == Statement(th)
           what == Wanted(c, w)
<1>1. /\ Executes(th) /\ Checking(c, w) /\ ~Blocked(c, w)
      /\ Lock(c, what, "S")
      /\ (Clashes(c, w) /\ Goto(th, "undo")) \/ UNCHANGED step
      /\ UNCHANGED <<storeVars, idle, conn, op, work, lost>>
  BY DEF Check
<1>2. /\ Open(th) /\ c \in Conns /\ Legal(op[th]) /\ WorkDone(th) /\ StillTrue(th)
      /\ step[th] \in {"ready", "delete"} /\ op[th].kind # "read"
  BY <1>1, Executing DEF Executes
<1>3. step[th] = "ready"
  <2>1. Inserts(w)
    BY <1>1 DEF Checking, Clashes
  <2>2. step[th] = "delete" => w.kind = "drop"
    BY <1>1, Executing
  <2> QED
    BY <1>2, <2>1, <2>2 DEF Inserts
<1> HIDE DEF what
<1>4. locks' = [locks EXCEPT ![c] = locks[c] \cup (what \X {"S"})]
  BY <1>1 DEF Lock
<1>5. \A e \in Conns \ {c} : Held(e, {"X"}) \cap what = {}
  BY <1>1, Unblocked DEF what
<1>6. LocksExclude'
  <2> HIDE DEF c
  <2>1. \A e \in Conns \ {c} :
           Held(e, IF "S" = "S" THEN {"X"} ELSE {"S", "X"}) \cap what = {}
    BY <1>5
  <2> QED
    BY <1>2, <1>4, <2>1, Locking
<1>7. PICK s \in {"ready", "undo"} : step' = [step EXCEPT ![th] = s]
  <2>1. step = [step EXCEPT ![th] = step[th]]
    BY DEF PoolInv
  <2> QED
    BY <1>1, <1>3, <2>1 DEF Goto
<1>8. /\ conn' = conn /\ op' = op /\ work' = work /\ step'[th] = s
      /\ work' = [work EXCEPT ![c] = work[c]]
  BY <1>1, <1>7 DEF PoolInv, TxnInv, SessionsTypeOK
<1>9. WorkDone(th)' /\ StillTrue(th)'
  BY <1>2, <1>3, <1>8 DEF WorkDone, StillTrue, Applied
<1> QED
  BY <1>1, <1>2, <1>3, <1>4, <1>6, <1>7, <1>8, <1>9, StatementsKeep DEF Steps

(* A statement that has written its last index holds all it found there,   *)
(* and an INSERT has met no duplicate.                                     *)
LEMMA LastIndex ==
    ASSUME NEW c, NEW w, Legal(w), work[c] = <<>>, ~Checking(c, w),
           Secondary(View(c), w) \subseteq Wanted(c, w), NEW H,
           Held(c, {"X"}) \subseteq H, Wanted(c, w) \subseteq H
    PROVE  Guards(w) \subseteq H /\ ~Refused(Tables, w)
<1>1. View(c) = Tables
  BY SeesTables
<1>2. ASSUME NEW k, w.kind = "create" \/ w.kind = "claim",
             k = IF w.kind = "create" THEN <<"key", w.key>> ELSE <<"claimed", w.trip>>
      PROVE  /\ Primary(w) \in Held(c, {"X"}) /\ Primary(w) \notin Indexed(Tables)
             /\ Wanted(c, w) = {k} /\ k \notin Indexed(Tables)
  <2>1. Inserts(w) /\ Secondary(Tables, w) = {k}
    BY <1>2 DEF Inserts, Secondary
  <2>2. Primary(w) # k
    BY <1>2 DEF Primary
  <2>3. Wanted(c, w) # {Primary(w)}
    BY <1>1, <2>1, <2>2
  <2>4. /\ Primary(w) \in Held(c, {"X"}) /\ Primary(w) \notin Indexed(Tables)
        /\ Wanted(c, w) = {k}
    BY <1>1, <2>1, <2>3 DEF Wanted
  <2>5. Wanted(c, w) \cap Indexed(Tables) = {}
    BY <1>1, <2>1 DEF Checking, Clashes
  <2> QED
    BY <2>4, <2>5
<1>3. CASE w.kind = "create"
  <2> DEFINE k == <<"key", w.key>>
  <2>1. k \in H /\ <<"trip", w.trip>> \notin Indexed(Tables) /\ k \notin Indexed(Tables)
    BY <1>2, <1>3 DEF Primary
  <2>2. \A t \in Trips : Tables.state[t] # "absent" =>
           <<"trip", t>> \in Indexed(Tables) /\ <<"key", Tables.idemKey[t]>> \in Indexed(Tables)
    BY DEF Indexed
  <2> QED
    BY <1>3, <2>1, <2>2 DEF Guards, Refused
<1>4. CASE w.kind = "claim"
  <2> DEFINE k == <<"claimed", w.trip>>
  <2>1. /\ k \in H /\ <<"driver", w.driver>> \in H
        /\ <<"driver", w.driver>> \notin Indexed(Tables) /\ k \notin Indexed(Tables)
    BY <1>2, <1>4 DEF Primary
  <2>2. \A r \in Tables.claims :
           <<"driver", r[1]>> \in Indexed(Tables) /\ <<"claimed", r[2]>> \in Indexed(Tables)
    BY DEF Indexed
  <2> QED
    BY <1>4, <2>1, <2>2 DEF Guards, Refused
<1>5. CASE w.kind \in {"match", "advance"}
  <2>1. <<"trip", w.trip>> \in H
    BY <1>5 DEF Wanted, Primary
  <2> QED
    BY <1>5, <2>1 DEF Guards, Refused
<1>6. CASE w.kind \in {"read", "release"}
  BY <1>6 DEF Guards, Refused
<1> QED
  BY <1>3, <1>4, <1>5, <1>6 DEF Legal, Ops

LEMMA StepWrite ==
    ASSUME PoolInv, TxnInv, NEW th \in Threads, Write(th)
    PROVE  TxnInv'
<1>0. conn[th] \in Conns
  BY Executing DEF Write
<1> PICK c \in Conns : c = conn[th]
  BY <1>0
<1> DEFINE w == op[th]
           x == Statement(th)
           what == Wanted(c, x)
           done == Secondary(View(c), x) \subseteq what
<1>1. /\ Executes(th) /\ ~Checking(c, x) /\ ~Blocked(c, x)
      /\ Lock(c, what, "X")
      /\ UNCHANGED <<storeVars, idle, conn, op, lost>>
  BY DEF Write
<1>2. \/ ~done /\ UNCHANGED <<work, step>>
      \/ done /\ Missed(View(c), x) /\ Goto(th, "undo") /\ UNCHANGED work
      \/ /\ done /\ ~Missed(View(c), x)
         /\ work' = [work EXCEPT ![c] = Append(@, x)]
         /\ Goto(th, IF EndsWithDelete(x) THEN "delete" ELSE "commit")
  BY DEF Write
<1>3. /\ Open(th) /\ c \in Conns /\ Legal(w) /\ WorkDone(th) /\ StillTrue(th)
      /\ step[th] \in {"ready", "delete"} /\ w.kind # "read"
      /\ step[th] = "delete" => x.kind = "drop"
      /\ step[th] = "ready" => x = w
  BY <1>1, Executing DEF Executes
<1>4. locks' = [locks EXCEPT ![c] = locks[c] \cup (what \X {"X"})]
  BY <1>1 DEF Lock
<1>5. \A e \in Conns \ {c} : Held(e, {"S", "X"}) \cap what = {}
  BY <1>1, Unblocked
<1>6. LocksExclude' /\ Held(c, {"X"}) \subseteq Held(c, {"X"})' /\ what \subseteq Held(c, {"X"})'
  <2> HIDE DEF what
  <2>1. \A e \in Conns \ {c} :
           Held(e, IF "X" = "S" THEN {"X"} ELSE {"S", "X"}) \cap what = {}
    BY <1>5
  <2> QED
    BY <1>3, <1>4, <2>1, Locking
<1>7. /\ conn' = conn /\ op' = op /\ Tables' = Tables
      /\ work = [e \in Conns |-> work[e]] /\ work = [work EXCEPT ![c] = work[c]]
      /\ step = [step EXCEPT ![th] = step[th]]
  BY <1>1, StoreKept DEF TxnInv, SessionsTypeOK, PoolInv
<1>8. Held(conn[th], {"X"})' = Held(c, {"X"})'
  BY <1>7 DEF Held
<1>9. CASE UNCHANGED <<work, step>>
  <2>1. WorkDone(th)' /\ StillTrue(th)'
    BY <1>3, <1>6, <1>7, <1>8, <1>9 DEF WorkDone, StillTrue, Applied
  <2> QED
    BY <1>1, <1>3, <1>4, <1>6, <1>7, <1>9, <2>1, StatementsKeep DEF Steps
<1>10. CASE done /\ Missed(View(c), x) /\ Goto(th, "undo") /\ UNCHANGED work
  <2>1. step[th] = "ready"
    BY <1>3, <1>10 DEF Missed
  <2>2. step' = [step EXCEPT ![th] = "undo"] /\ step'[th] = "undo"
    BY <1>10 DEF Goto, PoolInv
  <2>3. WorkDone(th)' /\ StillTrue(th)'
    BY <1>3, <1>7, <1>10, <2>1, <2>2 DEF WorkDone, StillTrue, Applied
  <2> QED
    BY <1>1, <1>3, <1>4, <1>6, <1>7, <1>10, <2>1, <2>2, <2>3, StatementsKeep DEF Steps
<1>11. ASSUME done, ~Missed(View(c), w), step[th] = "ready",
              work' = [work EXCEPT ![c] = Append(@, w)],
              NEW s \in {"delete", "commit"}, s = "delete" <=> EndsWithDelete(w), Goto(th, s)
       PROVE  TxnInv'
  <2>1. work[c] = <<>>
    BY <1>3, <1>11 DEF WorkDone
  <2>2. work' = [work EXCEPT ![c] = <<w>>] /\ work'[c] = <<w>>
    <3>1. Append(<<>>, w) = <<w>>
      OBVIOUS
    <3> HIDE DEF w
    <3>2. work' = [work EXCEPT ![c] = <<w>>]
      BY <1>11, <2>1, <3>1
    <3> QED
      BY <1>3, <1>7, <3>2
  <2>3. step' = [step EXCEPT ![th] = s] /\ step'[th] = s
    BY <1>11 DEF Goto, PoolInv
  <2>4. Guards(w) \subseteq Held(c, {"X"})' /\ ~Refused(Tables, w)
    BY <1>1, <1>3, <1>6, <1>11, <2>1, LastIndex
  <2>5. ~Missed(Tables, w)
    BY <1>11, <2>1, SeesTables
  <2>6. WorkDone(th)'
    BY <1>3, <1>7, <1>11, <2>2, <2>3 DEF WorkDone, EndsWithDelete, Drop
  <2>7. StillTrue(th)'
    BY <1>7, <1>8, <2>4, <2>5 DEF StillTrue
  <2> QED
    BY <1>1, <1>3, <1>4, <1>6, <1>11, <2>2, <2>3, <2>6, <2>7, StatementsKeep DEF Steps
<1>12. ASSUME step[th] = "delete", work' = [work EXCEPT ![c] = Append(@, x)], Goto(th, "commit")
       PROVE  TxnInv'
  <2>1. work[c] = <<w>> /\ EndsWithDelete(w) /\ x = Drop(w)
    BY <1>3, <1>12 DEF WorkDone, Statement
  <2>2. work' = [work EXCEPT ![c] = <<w, Drop(w)>>] /\ work'[c] = <<w, Drop(w)>>
    <3>1. Append(<<w>>, Drop(w)) = <<w, Drop(w)>>
      BY AppendToOne
    <3> QED
      BY <1>3, <1>7, <1>12, <2>1, <3>1
  <2>3. step' = [step EXCEPT ![th] = "commit"] /\ step'[th] = "commit"
    BY <1>12 DEF Goto, PoolInv
  <2>4. WorkDone(th)'
    BY <1>3, <1>7, <2>1, <2>2, <2>3 DEF WorkDone, EndsWithDelete, Drop
  <2>5. StillTrue(th)'
    <3>1. Applied(th)
      BY <1>3, <1>12 DEF Applied
    <3> QED
      BY <1>3, <1>6, <1>7, <1>8, <3>1 DEF StillTrue
  <2> QED
    BY <1>1, <1>3, <1>4, <1>6, <1>12, <2>2, <2>3, <2>4, <2>5, StatementsKeep DEF Steps
<1>13. CASE /\ done /\ ~Missed(View(c), x)
            /\ work' = [work EXCEPT ![c] = Append(@, x)]
            /\ Goto(th, IF EndsWithDelete(x) THEN "delete" ELSE "commit")
  <2>1. CASE step[th] = "ready"
    BY <1>3, <1>11, <1>13, <2>1
  <2>2. CASE step[th] = "delete"
    BY <1>3, <1>12, <1>13, <2>2 DEF EndsWithDelete
  <2> QED
    BY <1>3, <2>1, <2>2
<1> QED
  BY <1>2, <1>9, <1>10, <1>13

-----------------------------------------------------------------------------
(* Ends of transactions                                                    *)

(* What a step does to the tables takes nothing from a call that is under  *)
(* way, and no row.                                                        *)
Spares(u) ==
    /\ Applied(u) => ~Refused(Tables', op[u]) /\ ~Missed(Tables', op[u])
    /\ Creates(u) => state'[op[u].trip] = "absent"

RowsRemain == \A t \in Trips : state[t] # "absent" => state'[t] # "absent"

LEMMA NothingSpares ==
    ASSUME PoolInv, TxnInv, UNCHANGED storeVars
    PROVE  RowsRemain /\ \A u \in Threads : conn[u] \notin lost => Spares(u)
<1>1. Tables' = Tables /\ state' = state
  BY StoreKept DEF storeVars
<1>2. \A u \in Threads : Applied(u) => conn[u] # NoConn
  BY DEF Applied, PoolInv
<1> QED
  BY <1>1, <1>2 DEF RowsRemain, Spares, TxnInv, Open, StillTrue, NewIds

(* A bystander of the end of somebody's transaction.                       *)
LEMMA BystanderKept ==
    ASSUME NEW u \in Threads, WorkDone(u), StillTrue(u), Spares(u),
           op'[u] = op[u], step'[u] = step[u], conn'[u] = conn[u],
           work'[conn[u]] = work[conn[u]], locks'[conn[u]] = locks[conn[u]]
    PROVE  WorkDone(u)' /\ StillTrue(u)'
<1>1. WorkDone(u)'
  BY DEF WorkDone, Clean, EndsWithDelete, Drop
<1>2. StillTrue(u)'
  BY DEF StillTrue, Spares, Applied, Held
<1> QED
  BY <1>1, <1>2

LEMMA Returning ==
    ASSUME PoolInv, TxnInv, NEW th \in Threads, conn[th] # NoConn,
           NEW s \in {"idle", "wait"},
           PutBack(th), op' = [op EXCEPT ![th] = Reading],
           step' = [step EXCEPT ![th] = s], lost' = lost, Over(conn[th]),
           StoreTypeOK', RowsRemain,
           \A u \in Threads : u # th /\ conn[u] \notin lost => Spares(u)
    PROVE  TxnInv'
<1> PICK c \in Conns : c = conn[th]
  BY OwnConn
<1>1. \A u \in Threads : u # th => conn[u] # c
  BY OwnConn
<1>2. /\ work' = [work EXCEPT ![c] = <<>>] /\ locks' = [locks EXCEPT ![c] = {}]
      /\ work'[c] = <<>> /\ locks'[c] = {}
      /\ \A e \in Conns : e # c => work'[e] = work[e] /\ locks'[e] = locks[e]
  BY DEF Over, TxnInv, SessionsTypeOK
<1>3. /\ conn'[th] = NoConn /\ op'[th] = Reading
      /\ \A u \in Threads : u # th =>
            conn'[u] = conn[u] /\ op'[u] = op[u] /\ step'[u] = step[u]
  BY DEF PutBack, PoolInv, TxnInv, SessionsTypeOK
<1>4. ToSet(idle)' = ToSet(idle) \cup {c}
  BY PoolReturned
<1>5. SessionsTypeOK'
  <2>1. Legal(Reading)
    BY DEF Legal, Ops, Reading, Call, NoTrip
  <2> QED
    BY <1>2, <2>1 DEF TxnInv, SessionsTypeOK
<1>6. AtRest'
  BY <1>2, <1>4 DEF TxnInv, AtRest, Clean
<1>7. ASSUME NEW u \in Threads, Open(u)'
      PROVE  WorkDone(u)' /\ StillTrue(u)'
  <2>1. u # th
    BY <1>3, <1>7 DEF Open
  <2>2. Open(u) /\ conn[u] \in Conns /\ conn[u] # c
    BY <1>1, <1>3, <1>7, <2>1, OwnConn DEF Open
  <2>3. WorkDone(u) /\ StillTrue(u) /\ Spares(u)
    BY <2>1, <2>2 DEF TxnInv, Open
  <2> QED
    BY <1>2, <1>3, <2>1, <2>2, <2>3, BystanderKept
<1>8. LocksExclude'
  BY <1>2, ExcludeKept DEF TxnInv
<1>9. NewIds'
  <2>1. Reading.kind = "read"
    BY DEF Reading, Call
  <2>2. \A u \in Threads : Creates(u)' => u # th /\ Creates(u) /\ op'[u] = op[u]
    BY <1>3, <2>1 DEF Creates
  <2>3. \A u \in Threads : Creates(u)' /\ conn'[u] \notin lost' => state'[op'[u].trip] = "absent"
    BY <1>3, <2>2 DEF Spares
  <2>4. \A u \in Threads : step'[u] # "idle" /\ op'[u].kind \in {"match", "advance"} =>
                              /\ u # th /\ step[u] # "idle" /\ op'[u] = op[u]
                              /\ op[u].trip \in Trips
    BY <1>3, <2>1 DEF TxnInv, SessionsTypeOK, Legal
  <2> QED
    BY <2>2, <2>3, <2>4 DEF TxnInv, NewIds, RowsRemain
<1> QED
  BY <1>5, <1>6, <1>7, <1>8, <1>9 DEF TxnInv

LEMMA Losing ==
    ASSUME PoolInv, TxnInv, NEW c \in Conns, lost' = lost \cup {c}, Over(c),
           UNCHANGED <<idle, conn, op, step>>, StoreTypeOK', RowsRemain,
           \A u \in Threads : conn[u] # c /\ conn[u] \notin lost => Spares(u)
    PROVE  TxnInv'
<1>1. /\ work'[c] = <<>> /\ locks'[c] = {}
      /\ \A e \in Conns : e # c => work'[e] = work[e] /\ locks'[e] = locks[e]
  BY DEF Over, TxnInv, SessionsTypeOK
<1>2. SessionsTypeOK'
  BY DEF TxnInv, SessionsTypeOK, Over
<1>3. AtRest'
  BY <1>1 DEF TxnInv, AtRest, Clean, ToSet
<1>4. ASSUME NEW u \in Threads, Open(u)'
      PROVE  WorkDone(u)' /\ StillTrue(u)'
  <2>1. Open(u) /\ conn[u] \in Conns /\ conn[u] # c
    BY <1>4, OwnConn DEF Open
  <2>2. WorkDone(u) /\ StillTrue(u) /\ Spares(u)
    BY <2>1 DEF TxnInv, Open
  <2> QED
    BY <1>1, <2>1, <2>2, BystanderKept
<1>5. LocksExclude'
  BY <1>1, ExcludeKept DEF TxnInv
<1>6. NewIds'
  <2>1. \A u \in Threads : op[u].kind \in {"match", "advance"} => op[u].trip \in Trips
    BY DEF TxnInv, SessionsTypeOK, Legal
  <2> QED
    BY <2>1 DEF TxnInv, NewIds, RowsRemain, Creates, Spares
<1> QED
  BY <1>2, <1>3, <1>4, <1>5, <1>6 DEF TxnInv

LEMMA StepUndo ==
    ASSUME PoolInv, TxnInv, NEW th \in Threads, Undo(th)
    PROVE  TxnInv'
<1>1. conn[th] # NoConn
  BY DEF Undo, PoolInv
<1>2. PICK s \in {"idle", "wait"} :
         step' = [step EXCEPT ![th] = s] /\ op' = [op EXCEPT ![th] = Reading]
  BY DEF Undo, AfterUndo, Returned
<1>3. UNCHANGED storeVars /\ lost' = lost /\ Over(conn[th]) /\ PutBack(th)
  BY DEF Undo
<1>4. StoreTypeOK'
  BY <1>3, StoreKept DEF TxnInv, SessionsTypeOK
<1> QED
  BY <1>1, <1>2, <1>3, <1>4, NothingSpares, Returning

LEMMA StepRaises ==
    ASSUME PoolInv, TxnInv, NEW th \in Threads, Raises(th)
    PROVE  TxnInv'
<1>1. /\ conn[th] # NoConn /\ conn[th] \in lost /\ PutBack(th) /\ Returned(th)
      /\ UNCHANGED <<storeVars, work, locks, lost>>
  BY DEF Raises, txnVars
<1>2. Clean(conn[th])
  BY <1>1, OwnConn DEF TxnInv, AtRest
<1>3. Over(conn[th])
  BY <1>1, <1>2 DEF Over, Clean, TxnInv, SessionsTypeOK
<1>4. StoreTypeOK'
  BY <1>1, StoreKept DEF TxnInv, SessionsTypeOK
<1> QED
  BY <1>1, <1>3, <1>4, NothingSpares, Returning DEF Returned

LEMMA StepVictim ==
    ASSUME PoolInv, TxnInv, NEW th \in Threads, DeadlockVictim(th)
    PROVE  TxnInv'
<1>1. conn[th] # NoConn
  BY Executing DEF DeadlockVictim, Open
<1>2. /\ UNCHANGED storeVars /\ lost' = lost /\ Over(conn[th]) /\ PutBack(th)
      /\ Returned(th)
  BY DEF DeadlockVictim
<1>3. StoreTypeOK'
  BY <1>2, StoreKept DEF TxnInv, SessionsTypeOK
<1> QED
  BY <1>1, <1>2, <1>3, NothingSpares, Returning DEF Returned

LEMMA StepConnectionLost ==
    ASSUME PoolInv, TxnInv, NEW c \in Conns, ConnectionLost(c)
    PROVE  TxnInv'
<1>1. /\ lost' = lost \cup {c} /\ Over(c)
      /\ UNCHANGED <<storeVars, idle, conn, op, step>>
  BY DEF ConnectionLost, threadVars
<1>2. StoreTypeOK'
  BY <1>1, StoreKept DEF TxnInv, SessionsTypeOK
<1> QED
  BY <1>1, <1>2, NothingSpares, Losing

-----------------------------------------------------------------------------
(* What is published                                                       *)

(* The tables after the writes of w, read off Apply and Drop.              *)
LEMMA PublishedTables ==
    ASSUME PoolInv, TxnInv, NEW th \in Threads,
           step[th] = "commit", conn[th] \notin lost, Publish(conn[th])
    PROVE  LET w == op[th]
           IN  /\ w.kind = "read" => UNCHANGED storeVars
               /\ w.kind # "read" =>
                     LET db == Apply(Tables, w)
                     IN  /\ state' = db.state /\ driver' = db.driver
                         /\ version' = db.version /\ idemKey' = db.idemKey
                         /\ claims' = IF EndsWithDelete(w)
                                      THEN db.claims \ {<<w.driver, w.trip>>}
                                      ELSE db.claims
<1> DEFINE c == conn[th]
           w == op[th]
<1>1. Open(th)
  BY DEF Open, PoolInv
<1>2. WorkDone(th) /\ Legal(w)
  BY <1>1 DEF TxnInv, SessionsTypeOK
<1>3. CASE w.kind = "read"
  <2>1. View(c) = Tables
    BY <1>2, <1>3, SeesTables DEF WorkDone
  <2> QED
    BY <1>3, <2>1 DEF Publish, Tables, storeVars
<1>4. CASE w.kind # "read" /\ ~EndsWithDelete(w)
  <2>1. View(c) = Apply(Tables, w)
    BY <1>2, <1>4, SeesOneWrite DEF WorkDone
  <2> QED
    BY <1>4, <2>1 DEF Publish
<1>5. CASE w.kind # "read" /\ EndsWithDelete(w)
  <2>1. View(c) = Apply(Apply(Tables, w), Drop(w))
    BY <1>2, <1>5, SeesTwoWrites DEF WorkDone
  <2>2. /\ Drop(w).kind = "drop" /\ Drop(w).driver = w.driver /\ Drop(w).trip = w.trip
    BY <1>2 DEF Drop, Legal, Ops
  <2> DEFINE db == Apply(Tables, w)
  <2>3. Apply(db, Drop(w)) = [db EXCEPT !.claims = @ \ {<<w.driver, w.trip>>}]
    BY <2>2 DEF Apply
  <2>4. db = [state |-> db.state, driver |-> db.driver, version |-> db.version,
              idemKey |-> db.idemKey, claims |-> db.claims]
    BY <1>5 DEF EndsWithDelete, Apply, Tables
  <2>5. /\ View(c).state = db.state /\ View(c).driver = db.driver
        /\ View(c).version = db.version /\ View(c).idemKey = db.idemKey
        /\ View(c).claims = db.claims \ {<<w.driver, w.trip>>}
    <3> HIDE DEF db
    <3>1. View(c) = Apply(db, Drop(w))
      BY <2>1 DEF db
    <3> QED
      BY <2>3, <2>4, <3>1
  <2> QED
    BY <1>5, <2>5 DEF Publish
<1> QED
  BY <1>3, <1>4, <1>5

(* At its commit a call performs its operation of TripStore: what its      *)
(* first statement found is still true.                                    *)
LEMMA PublishPerforms ==
    ASSUME PoolInv, TxnInv, NEW th \in Threads,
           step[th] = "commit", conn[th] \notin lost, Publish(conn[th])
    PROVE  \/ UNCHANGED storeVars
           \/ op[th].kind # "read" /\ Performed(op[th])
<1> DEFINE w == op[th]
           db == Apply(Tables, w)
<1>1. Open(th) /\ StillTrue(th) /\ Legal(w)
  BY DEF Open, PoolInv, TxnInv, SessionsTypeOK
<1>2. CASE w.kind = "read"
  BY <1>2, PublishedTables
<1>3. CASE w.kind # "read"
  <2>1. ~Refused(Tables, w) /\ ~Missed(Tables, w)
    BY <1>1, <1>3 DEF StillTrue, Applied
  <2>2. /\ state' = db.state /\ driver' = db.driver
        /\ version' = db.version /\ idemKey' = db.idemKey
        /\ claims' = IF EndsWithDelete(w)
                     THEN db.claims \ {<<w.driver, w.trip>>}
                     ELSE db.claims
    BY <1>3, PublishedTables
  <2>3. /\ Tables.state = state /\ Tables.driver = driver /\ Tables.version = version
        /\ Tables.idemKey = idemKey /\ Tables.claims = claims
    BY DEF Tables
  <2>4. CASE w.kind = "create"
    <3>1. db = [Tables EXCEPT !.state[w.trip] = "requested", !.idemKey[w.trip] = w.key]
      BY <2>4 DEF Apply
    <3>2. /\ state' = [state EXCEPT ![w.trip] = "requested"]
          /\ idemKey' = [idemKey EXCEPT ![w.trip] = w.key]
          /\ driver' = driver /\ version' = version /\ claims' = claims
      BY <2>2, <2>4, <3>1 DEF Tables, EndsWithDelete
    <3>3. ~InsertRefused(w.trip, w.key)
      BY <1>1, <2>1, <2>3, <2>4 DEF InsertRefused, KeyTaken, Refused, Legal
    <3> QED
      BY <1>3, <2>4, <3>2, <3>3 DEF Performed, InsertTrip
  <2>5. CASE w.kind = "claim"
    <3>1. db = [Tables EXCEPT !.claims = @ \cup {<<w.driver, w.trip>>}]
      BY <2>5 DEF Apply
    <3>2. claims' = claims \cup {<<w.driver, w.trip>>} /\ UNCHANGED tripRows
      BY <2>2, <2>5, <3>1 DEF Tables, EndsWithDelete, tripRows
    <3>3. ~ClaimRefused(w.driver, w.trip)
      BY <2>1, <2>3, <2>5 DEF ClaimRefused, Refused
    <3> QED
      BY <1>3, <2>5, <3>2, <3>3 DEF Performed, InsertClaim
  <2>6. CASE w.kind = "release"
    <3>1. db = [Tables EXCEPT !.claims = {c \in @ : c[1] # w.driver}]
      BY <2>6 DEF Apply
    <3>2. claims' = {c \in claims : c[1] # w.driver} /\ UNCHANGED tripRows
      BY <2>2, <2>6, <3>1 DEF Tables, EndsWithDelete, tripRows
    <3> QED
      BY <1>3, <2>6, <3>2 DEF Performed, DeleteClaim
  <2>7. CASE w.kind = "match"
    <3>1. db = [Tables EXCEPT !.state[w.trip] = "matched", !.driver[w.trip] = w.driver,
                              !.version[w.trip] = @ + 1]
      BY <2>7 DEF Apply
    <3>2. /\ state' = [state EXCEPT ![w.trip] = "matched"]
          /\ driver' = [driver EXCEPT ![w.trip] = w.driver]
          /\ version' = [version EXCEPT ![w.trip] = @ + 1]
          /\ idemKey' = idemKey /\ claims' = claims
      BY <2>2, <2>7, <3>1 DEF Tables, EndsWithDelete
    <3>3. VersionMatches(w.trip, w.ver)
      BY <2>1, <2>3, <2>7 DEF VersionMatches, Missed
    <3> QED
      BY <1>3, <2>7, <3>2, <3>3 DEF Performed, UpdateMatch
  <2>8. CASE w.kind = "advance"
    <3>1. db = [Tables EXCEPT !.state[w.trip] = w.dst, !.version[w.trip] = @ + 1]
      BY <2>8 DEF Apply
    <3>2. /\ state' = [state EXCEPT ![w.trip] = w.dst]
          /\ version' = [version EXCEPT ![w.trip] = @ + 1]
          /\ driver' = driver /\ idemKey' = idemKey
          /\ claims' = IF w.dst \in {"complete", "cancelled"} /\ w.driver # NoDriver
                       THEN claims \ {<<w.driver, w.trip>>} ELSE claims
      BY <2>2, <2>8, <3>1 DEF Tables, EndsWithDelete
    <3>3. VersionMatches(w.trip, w.ver)
      BY <2>1, <2>3, <2>8 DEF VersionMatches, Missed
    <3> QED
      BY <1>3, <2>8, <3>2, <3>3 DEF Performed, UpdateState
  <2> QED
    BY <1>1, <1>3, <2>4, <2>5, <2>6, <2>7, <2>8 DEF Legal, Ops
<1> QED
  BY <1>2, <1>3

(* Whoever is to publish holds what the call needs, exclusively, and so    *)
(* does every other.                                                       *)
LEMMA GuardsDiffer ==
    ASSUME PoolInv, TxnInv, NEW th \in Threads, NEW u \in Threads, u # th,
           Open(th), Applied(th), Open(u), Applied(u)
    PROVE  Guards(op[th]) \cap Guards(op[u]) = {}
<1>1. conn[th] \in Conns /\ conn[u] \in Conns /\ conn[u] # conn[th]
  BY OwnConn DEF Open
<1>2. Held(conn[u], {"X"}) \subseteq Held(conn[u], {"S", "X"})
  BY DEF Held
<1>3. Held(conn[th], {"X"}) \cap Held(conn[u], {"S", "X"}) = {}
  BY <1>1 DEF TxnInv, LocksExclude
<1>4. /\ Guards(op[th]) \subseteq Held(conn[th], {"X"})
      /\ Guards(op[u]) \subseteq Held(conn[u], {"X"})
  BY DEF TxnInv, StillTrue
<1> QED
  BY <1>2, <1>3, <1>4

LEMMA PublishSpares ==
    ASSUME PoolInv, TxnInv, NEW th \in Threads,
           step[th] = "commit", conn[th] \notin lost, Publish(conn[th])
    PROVE  /\ StoreTypeOK' /\ RowsRemain
           /\ \A u \in Threads : u # th /\ conn[u] \notin lost => Spares(u)
<1> DEFINE w == op[th]
<1>1. CASE UNCHANGED storeVars
  BY <1>1, StoreKept, NothingSpares DEF TxnInv, SessionsTypeOK
<1>2. ASSUME w.kind # "read", Performed(w)
      PROVE  /\ StoreTypeOK' /\ RowsRemain
             /\ \A u \in Threads : u # th /\ conn[u] \notin lost => Spares(u)
  <2>1. Open(th) /\ Applied(th) /\ Legal(w)
    BY <1>2 DEF Open, Applied, PoolInv, TxnInv, SessionsTypeOK
  <2>2. StoreTypeOK /\ NewIds
    BY DEF TxnInv, SessionsTypeOK
  <2>3. w.kind \in {"match", "advance"} => state[w.trip] # "absent"
    BY <2>2 DEF NewIds
  <2>4. w.kind = "advance" => w.dst \in TripStates
    BY <2>1, SessionsAssumption DEF Legal
  <2>5. StoreTypeOK'
    <3>1. CASE w.kind = "create" /\ InsertTrip(w.trip, w.key)
      BY <2>1, <2>2, <3>1 DEF InsertTrip, StoreTypeOK, Legal, TripStates
    <3>2. CASE w.kind = "claim" /\ InsertClaim(w.driver, w.trip)
      BY <2>1, <2>2, <3>2 DEF InsertClaim, StoreTypeOK, Legal, tripRows
    <3>3. CASE w.kind = "release" /\ DeleteClaim(w.driver)
      BY <2>1, <2>2, <3>3 DEF DeleteClaim, StoreTypeOK, Legal, tripRows
    <3>4. CASE w.kind = "match" /\ UpdateMatch(w.trip, w.ver, w.driver)
      BY <2>1, <2>2, <3>4 DEF UpdateMatch, StoreTypeOK, Legal, TripStates
    <3>5. CASE w.kind = "advance" /\ UpdateState(w.trip, w.ver, w.driver, w.dst)
      BY <2>1, <2>2, <2>4, <3>5 DEF UpdateState, StoreTypeOK, Legal
    <3> QED
      BY <1>2, <3>1, <3>2, <3>3, <3>4, <3>5 DEF Performed
  <2>6. RowsRemain
    BY <1>2, <2>1, <2>2, <2>4
       DEF RowsRemain, Performed, InsertTrip, InsertClaim, DeleteClaim, UpdateMatch,
           UpdateState, tripRows, StoreTypeOK, TripStates
  <2>7. ASSUME NEW u \in Threads, u # th, conn[u] \notin lost
        PROVE  Spares(u)
    <3> DEFINE x == op[u]
    <3>1. Legal(x)
      BY DEF TxnInv, SessionsTypeOK
    <3>2. Creates(u) => state'[x.trip] = "absent"
      <4> SUFFICES ASSUME Creates(u)
                   PROVE  state'[x.trip] = "absent"
        OBVIOUS
      <4>1. x.trip \in Trips /\ state[x.trip] = "absent"
        BY <2>2, <2>7, <3>1 DEF NewIds, Creates, Legal
      <4>2. w.kind = "create" => x.trip # w.trip
        BY <2>1, <2>2, <2>7 DEF NewIds, Creates, Applied
      <4>3. state'[x.trip] = state[x.trip]
        BY <1>2, <2>2, <2>3, <4>1, <4>2
           DEF Performed, InsertTrip, InsertClaim, DeleteClaim, UpdateMatch,
               UpdateState, tripRows, StoreTypeOK
      <4> QED
        BY <4>1, <4>3
    <3>3. ASSUME Applied(u)
          PROVE  ~Refused(Tables', x) /\ ~Missed(Tables', x)
      <4>1. Open(u)
        BY <2>7, <3>3 DEF Open, Applied, PoolInv
      <4>2. Guards(w) \cap Guards(x) = {}
        BY <2>1, <2>7, <3>3, <4>1, GuardsDiffer
      <4>3. ~Refused(Tables, x) /\ ~Missed(Tables, x)
        BY <3>3, <4>1 DEF TxnInv, StillTrue
      <4>4. /\ Tables.state = state /\ Tables.version = version
            /\ Tables.idemKey = idemKey /\ Tables.claims = claims
            /\ Tables'.state = state' /\ Tables'.version = version'
            /\ Tables'.idemKey = idemKey' /\ Tables'.claims = claims'
        BY DEF Tables
      <4>5. CASE x.kind = "create"
        <5>1. state'[x.trip] = "absent"
          BY <3>2, <3>3, <4>5 DEF Creates, Applied
        <5>2. w.kind = "create" => w.key # x.key
          BY <4>2, <4>5 DEF Guards
        <5>3. ASSUME NEW t \in Trips, state'[t] # "absent"
              PROVE  idemKey'[t] # x.key
          <6>1. CASE w.kind = "create"
            BY <1>2, <2>2, <4>3, <4>4, <4>5, <5>2, <5>3, <6>1
               DEF Performed, InsertTrip, Refused, StoreTypeOK
          <6>2. CASE w.kind # "create"
            <7>1. idemKey' = idemKey /\ state[t] # "absent"
              BY <1>2, <2>2, <2>3, <5>3, <6>2
                 DEF Performed, InsertClaim, DeleteClaim, UpdateMatch, UpdateState,
                     tripRows, StoreTypeOK
            <7> QED
              BY <4>3, <4>4, <4>5, <7>1 DEF Refused
          <6> QED
            BY <6>1, <6>2
        <5> QED
          BY <4>4, <4>5, <5>1, <5>3 DEF Refused, Missed
      <4>6. CASE x.kind = "claim"
        <5>1. w.kind = "claim" => w.driver # x.driver /\ w.trip # x.trip
          BY <4>2, <4>6 DEF Guards
        <5>2. ASSUME NEW r \in claims'
              PROVE  r[1] # x.driver /\ r[2] # x.trip
          <6>1. r \in claims \/ (w.kind = "claim" /\ r = <<w.driver, w.trip>>)
            BY <1>2, <5>2
               DEF Performed, InsertTrip, InsertClaim, DeleteClaim, UpdateMatch, UpdateState
          <6> QED
            BY <4>3, <4>4, <4>6, <5>1, <6>1 DEF Refused
        <5> QED
          BY <4>4, <4>6, <5>2 DEF Refused, Missed
      <4>7. CASE x.kind \in {"match", "advance"}
        <5>1. w.kind \in {"match", "advance"} => w.trip # x.trip
          BY <4>2, <4>7 DEF Guards
        <5>2. x.trip \in Trips
          BY <3>1, <4>7 DEF Legal
        <5>3. version'[x.trip] = version[x.trip]
          BY <1>2, <2>2, <5>1, <5>2
             DEF Performed, InsertTrip, InsertClaim, DeleteClaim, UpdateMatch,
                 UpdateState, tripRows, StoreTypeOK
        <5> QED
          BY <4>3, <4>4, <4>7, <5>3 DEF Refused, Missed
      <4>8. CASE x.kind \in {"read", "release"}
        BY <4>8 DEF Refused, Missed
      <4> QED
        BY <3>1, <4>5, <4>6, <4>7, <4>8 DEF Legal, Ops
    <3> QED
      BY <3>2, <3>3 DEF Spares
  <2> QED
    BY <2>5, <2>6, <2>7
<1> QED
  BY <1>1, <1>2, PublishPerforms

LEMMA StepCommit ==
    ASSUME PoolInv, TxnInv, NEW th \in Threads, Commit(th)
    PROVE  TxnInv'
<1>1. /\ step[th] = "commit" /\ conn[th] \notin lost /\ Publish(conn[th])
      /\ PutBack(th) /\ Returned(th) /\ lost' = lost
  BY DEF Commit
<1>2. conn[th] # NoConn /\ Over(conn[th])
  BY <1>1 DEF PoolInv, Publish
<1> QED
  BY <1>1, <1>2, PublishSpares, Returning DEF Returned

LEMMA StepCommitUnacked ==
    ASSUME PoolInv, TxnInv, NEW th \in Threads, CommitUnacked(th)
    PROVE  TxnInv'
<1>1. /\ step[th] = "commit" /\ conn[th] \notin lost /\ Publish(conn[th])
      /\ UNCHANGED <<idle, conn, op, step>>
  BY DEF CommitUnacked, threadVars
<1> PICK c \in Conns : c = conn[th]
  BY <1>1, OwnConn DEF PoolInv
<1>2. lost' = lost \cup {c} /\ Over(c)
  BY <1>1 DEF CommitUnacked, Publish
<1>3. \A u \in Threads : conn[u] # c => u # th
  OBVIOUS
<1> QED
  BY <1>1, <1>2, <1>3, PublishSpares, Losing

-----------------------------------------------------------------------------
(* The invariant, and what follows                                         *)

LEMMA SessionsInitially == SessionsInit => SessionsInv
<1> SUFFICES ASSUME SessionsInit
             PROVE  TxnInv
  BY PoolInitially DEF SessionsInv, SessionsInit
<1> USE DEF SessionsInit
<1>1. SessionsTypeOK
  BY StoreAssumption
     DEF SessionsTypeOK, StoreInit, StoreTypeOK, Legal, Ops, Reading, Call, NoTrip
<1>2. AtRest /\ LocksExclude
  BY DEF AtRest, Clean, LocksExclude, Held
<1>3. NewIds /\ \A th \in Threads : ~Open(th)
  BY DEF NewIds, Creates, Open
<1> QED
  BY <1>1, <1>2, <1>3 DEF TxnInv

LEMMA StepOfThread ==
    ASSUME PoolInv, TxnInv, NEW th \in Threads,
           Calls(th) \/ Proceeds(th) \/ DeadlockVictim(th) \/ CommitUnacked(th)
    PROVE  TxnInv'
BY StepCalls, StepAcquire, StepPoolExhausted, StepSelect, StepCheck, StepWrite,
   StepVictim, StepCommit, StepUndo, StepRaises, StepCommitUnacked DEF Proceeds

LEMMA StepUnchanged ==
    ASSUME TxnInv, UNCHANGED vars
    PROVE  TxnInv'
<1>1. /\ op' = op /\ step' = step /\ conn' = conn /\ work' = work /\ locks' = locks
      /\ idle' = idle /\ lost' = lost /\ UNCHANGED storeVars
  BY DEF vars, threadVars, txnVars
<1>2. SessionsTypeOK'
  BY <1>1, StoreKept DEF TxnInv, SessionsTypeOK
<1>3. AtRest' /\ LocksExclude'
  BY <1>1 DEF TxnInv, AtRest, Clean, LocksExclude, Held
<1>4. \A u \in Threads : Open(u)' => WorkDone(u)' /\ StillTrue(u)'
  BY <1>1, StoreKept, ThreadKept DEF TxnInv, Open
<1>5. NewIds'
  BY <1>1, IdsKept DEF TxnInv, Creates, storeVars
<1> QED
  BY <1>2, <1>3, <1>4, <1>5 DEF TxnInv

(* A wait that times out is the end of TxnInv and counts itself.           *)
LEMMA TimeoutsCount ==
    ASSUME PoolInv, timeouts \in Nat, [SessionsNext]_vars
    PROVE  /\ timeouts' \in Nat /\ timeouts' >= timeouts
           /\ timeouts' = timeouts \/ \E th \in Threads : LockTimeout(th)
           /\ (\E th \in Threads : LockTimeout(th)) => timeouts' # 0
<1>1. (\E th \in Threads : LockTimeout(th)) => timeouts' = timeouts + 1
  BY DEF LockTimeout
<1>2. timeouts' = timeouts \/ \E th \in Threads : LockTimeout(th)
  BY DEF vars, SessionsNext, Proceeds, Calls, CreateTrip, ClaimDriver, ReleaseDriver,
         SaveMatch, Advance, Get, Begins, Acquire, PoolExhausted, Select, Check, Write,
         Commit, Undo, Raises, DeadlockVictim, CommitUnacked, ConnectionLost
<1> QED
  BY <1>1, <1>2

LEMMA SessionsInductive == SessionsInv /\ [SessionsNext]_vars => SessionsInv'
<1> SUFFICES ASSUME SessionsInv, [SessionsNext]_vars
             PROVE  SessionsInv'
  OBVIOUS
<1>1. PoolInv /\ PoolInv' /\ timeouts \in Nat
  BY PoolNext DEF SessionsInv
<1>2. ASSUME timeouts' = 0
      PROVE  TxnInv'
  <2>1. TxnInv
    BY <1>1, <1>2, TimeoutsCount DEF SessionsInv
  <2>2. ~ \E th \in Threads : LockTimeout(th)
    BY <1>1, <1>2, TimeoutsCount
  <2> QED
    BY <1>1, <2>1, <2>2, StepOfThread, StepConnectionLost, StepUnchanged DEF SessionsNext
<1> QED
  BY <1>1, <1>2, TimeoutsCount DEF SessionsInv

LEMMA SessionsInvariant == SessionsSpec => []SessionsInv
<1> QED
  BY SessionsInitially, SessionsInductive, PTL DEF SessionsSpec

(* A connection rests without a transaction: as long as no wait for a lock *)
(* has timed out, every way out of a call has ended what it began.         *)
THEOREM RestsClean == SessionsSpec => []RestIsClean
<1>1. SessionsInv => RestIsClean
  BY DEF SessionsInv, PoolInv, TxnInv, AtRest, Clean, RestIsClean
<1> QED
  BY <1>1, SessionsInvariant, PTL

LEMMA OnlyCommitsPublish ==
    ASSUME SessionsInv, timeouts = 0, [SessionsNext]_vars, storeVars' # storeVars
    PROVE  \E th \in Threads : step[th] = "commit" /\ Performed(op[th])
<1>1. PoolInv /\ TxnInv
  BY DEF SessionsInv
<1>2. PICK th \in Threads : Commit(th) \/ CommitUnacked(th)
  BY DEF vars, SessionsNext, Proceeds, Calls, CreateTrip, ClaimDriver, ReleaseDriver,
         SaveMatch, Advance, Get, Begins, Acquire, PoolExhausted, Select, Check, Write,
         Undo, Raises, LockTimeout, DeadlockVictim, ConnectionLost
<1>3. step[th] = "commit" /\ conn[th] \notin lost /\ Publish(conn[th])
  BY <1>2 DEF Commit, CommitUnacked
<1> QED
  BY <1>1, <1>3, PublishPerforms

(* Statements of any number of sessions interleave, fail and lose their    *)
(* connections, and what is committed is one whole operation of TripStore  *)
(* after another, each with the arguments of a call about to commit.       *)
THEOREM StoreImplemented == SessionsSpec => ImplementsStore
<1>1. SessionsInv /\ [SessionsNext]_vars =>
         [timeouts = 0 =>
             \E th \in Threads : step[th] = "commit" /\ Performed(op[th])]_storeVars
  BY OnlyCommitsPublish
<1> QED
  BY <1>1, SessionsInvariant, PTL DEF SessionsSpec, ImplementsStore

-----------------------------------------------------------------------------
(* Waits                                                                   *)

(* A lock is held by a thread that is on its way.                          *)
LEMMA HolderInUse ==
    ASSUME PoolInv, TxnInv, NEW c \in Conns, locks[c] # {}
    PROVE  \E u \in Threads : conn[u] = c /\ step[u] \notin {"idle", "wait"}
<1>1. c \notin ToSet(idle)
  BY DEF TxnInv, AtRest, Clean
<1>2. PICK u \in Threads : conn[u] = c
  BY <1>1 DEF PoolInv, InUse
<1> QED
  BY <1>2, SessionsAssumption DEF PoolInv

LEMMA StandstillIsCircle ==
    ASSUME PoolInv, TxnInv, NEW th \in Threads, Waiting(th),
           \A u \in Threads : step[u] # "idle" => Waiting(u)
    PROVE  Deadlocked({u \in Threads : LockWait(u)})
<1> DEFINE S == {u \in Threads : LockWait(u)}
<1>1. ASSUME NEW u \in Threads, step[u] \notin {"idle", "wait"}
      PROVE  u \in S
  BY <1>1 DEF Waiting
<1>2. S # {}
  <2>1. CASE LockWait(th)
    BY <2>1
  <2>2. CASE idle = <<>>
    <3>1. ToSet(idle) = {}
      BY <2>2 DEF ToSet
    <3>2. PICK u \in Threads : conn[u] # NoConn
      BY <3>1, SessionsAssumption DEF PoolInv, InUse
    <3> QED
      BY <1>1, <3>2 DEF PoolInv
  <2> QED
    BY <2>1, <2>2 DEF Waiting
<1>3. \A u \in S : Executes(u)
  BY DEF LockWait
<1>4. ASSUME NEW u \in S
      PROVE  \E v \in S : WaitsFor(conn[u], conn[v], Statement(u))
  <2>1. PICK e \in Conns : WaitsFor(conn[u], e, Statement(u))
    BY DEF LockWait, Blocked
  <2>2. locks[e] # {}
    BY <2>1 DEF WaitsFor, Held
  <2>3. PICK v \in Threads : conn[v] = e /\ step[v] \notin {"idle", "wait"}
    BY <2>2, HolderInUse
  <2> QED
    BY <1>1, <2>1, <2>3
<1> HIDE DEF S
<1>5. Deadlocked(S)
  BY <1>2, <1>3, <1>4 DEF Deadlocked
<1> QED
  BY <1>5 DEF S

(* With any number of threads, connections and rows: when everybody waits, *)
(* InnoDB has a circle of lock waits to find and breaks it.                *)
THEOREM StandstillsSeen == SessionsSpec => []StandstillIsSeen
<1>1. ASSUME SessionsInv, timeouts = 0, NEW th \in Threads, Waiting(th),
             \A u \in Threads : step[u] # "idle" => Waiting(u)
      PROVE  \E S \in SUBSET Threads : Deadlocked(S)
  <2>1. {u \in Threads : LockWait(u)} \in SUBSET Threads
    OBVIOUS
  <2>2. Deadlocked({u \in Threads : LockWait(u)})
    BY <1>1, StandstillIsCircle DEF SessionsInv
  <2> QED
    BY <2>1, <2>2
<1>2. SessionsInv => StandstillIsSeen
  BY <1>1 DEF StandstillIsSeen
<1> QED
  BY <1>2, SessionsInvariant, PTL

-----------------------------------------------------------------------------
(* The claim of a trip that ends                                           *)

(* A caller's copy is stale or right: what save_match writes comes with a  *)
(* new version.                                                            *)
CopiesTell ==
    \A th \in Threads :
        step[th] # "idle" /\ op[th].kind = "advance" =>
            /\ op[th].ver <= version[op[th].trip]
            /\ op[th].ver = version[op[th].trip] => op[th].driver = driver[op[th].trip]

CopiesInv == timeouts = 0 => CopiesTell

LEMMA VersionsTell ==
    ASSUME SessionsInv, timeouts = 0, [SessionsNext]_vars, NEW t \in Trips
    PROVE  /\ version[t] \in Nat /\ version'[t] \in Nat /\ version'[t] >= version[t]
           /\ version'[t] = version[t] => driver'[t] = driver[t]
<1>1. StoreTypeOK
  BY DEF SessionsInv, TxnInv, SessionsTypeOK
<1>2. CASE UNCHANGED storeVars
  BY <1>1, <1>2 DEF storeVars, StoreTypeOK
<1>3. CASE storeVars' # storeVars
  <2>1. PICK th \in Threads : Performed(op[th])
    BY <1>3, OnlyCommitsPublish
  <2> QED
    BY <1>1, <2>1
       DEF Performed, InsertTrip, InsertClaim, DeleteClaim, UpdateMatch, UpdateState,
           tripRows, StoreTypeOK
<1> QED
  BY <1>2, <1>3

(* The calls of the next state are those of this one, but for one that     *)
(* begins, with a copy of the row as it is.                                *)
LEMMA AdvancesBegin ==
    ASSUME SessionsInv, timeouts = 0, [SessionsNext]_vars,
           NEW th \in Threads, step'[th] # "idle", op'[th].kind = "advance"
    PROVE  \/ step[th] # "idle" /\ op'[th] = op[th]
           \/ /\ op'[th].trip \in Trips /\ UNCHANGED storeVars
              /\ op'[th].ver = version[op'[th].trip]
              /\ op'[th].driver = driver[op'[th].trip]
<1>1. /\ op = [u \in Threads |-> op[u]] /\ step = [u \in Threads |-> step[u]]
      /\ Reading.kind = "read"
  BY DEF SessionsInv, PoolInv, TxnInv, SessionsTypeOK, Reading, Call
<1>2. CASE UNCHANGED <<op, step>>
  BY <1>2
<1>3. ASSUME NEW u \in Threads, NEW w, Begins(u, w)
      PROVE  /\ UNCHANGED storeVars /\ op'[u] = w
             /\ u # th => op'[th] = op[th] /\ step'[th] = step[th]
  BY <1>1, <1>3 DEF Begins
<1>4. ASSUME NEW u \in Threads, Calls(u)
      PROVE  \/ step[th] # "idle" /\ op'[th] = op[th]
             \/ /\ op'[th].trip \in Trips /\ UNCHANGED storeVars
                /\ op'[th].ver = version[op'[th].trip]
                /\ op'[th].driver = driver[op'[th].trip]
  <2>1. CASE Advance(u)
    <3>1. PICK t \in Trips, dst \in Targets :
             Begins(u, Call("advance", t, driver[t], NoKey, version[t], dst))
      BY <2>1 DEF Advance
    <3> QED
      BY <1>3, <3>1 DEF Call
  <2>2. CASE ~Advance(u)
    <3>1. \A k, t, d, key, v, dst : Call(k, t, d, key, v, dst).kind = k
      BY DEF Call
    <3>2. PICK w : Begins(u, w) /\ w.kind # "advance"
      <4>1. CASE Get(u)
        BY <1>1, <4>1 DEF Get
      <4>2. CASE CreateTrip(u)
        BY <3>1, <4>2 DEF CreateTrip
      <4>3. CASE ClaimDriver(u)
        BY <3>1, <4>3 DEF ClaimDriver
      <4>4. CASE ReleaseDriver(u)
        BY <3>1, <4>4 DEF ReleaseDriver
      <4>5. CASE SaveMatch(u)
        BY <3>1, <4>5 DEF SaveMatch
      <4> QED
        BY <1>4, <2>2, <4>1, <4>2, <4>3, <4>4, <4>5 DEF Calls
    <3> QED
      BY <1>3, <3>2
  <2> QED
    BY <2>1, <2>2
<1>5. ASSUME NEW u \in Threads, NEW s, UNCHANGED op, step[u] # "idle",
             step' = [step EXCEPT ![u] = s]
      PROVE  step[th] # "idle" /\ op'[th] = op[th]
  BY <1>1, <1>5
<1>6. ASSUME NEW u \in Threads, NEW s, op' = [op EXCEPT ![u] = Reading],
             step' = [step EXCEPT ![u] = s]
      PROVE  step[th] # "idle" /\ op'[th] = op[th]
  BY <1>1, <1>6
<1>7. ASSUME NEW u \in Threads, Acquire(u) \/ Select(u) \/ Check(u) \/ Write(u)
      PROVE  step[th] # "idle" /\ op'[th] = op[th]
  BY <1>2, <1>5, <1>7 DEF Acquire, Select, Check, Write, Executes, Goto
<1>8. ASSUME NEW u \in Threads,
             \/ PoolExhausted(u) \/ Commit(u) \/ Undo(u) \/ Raises(u)
             \/ LockTimeout(u) \/ DeadlockVictim(u)
      PROVE  step[th] # "idle" /\ op'[th] = op[th]
  BY <1>6, <1>8
     DEF PoolExhausted, Commit, Undo, AfterUndo, Raises, LockTimeout, DeadlockVictim, Returned
<1> QED
  BY <1>2, <1>4, <1>7, <1>8
     DEF SessionsNext, Proceeds, CommitUnacked, ConnectionLost, threadVars, vars

LEMMA CopiesInductive ==
    SessionsInv /\ SessionsInv' /\ CopiesInv /\ [SessionsNext]_vars => CopiesInv'
<1> SUFFICES ASSUME SessionsInv, SessionsInv', CopiesInv, [SessionsNext]_vars, timeouts' = 0,
                    NEW th \in Threads, step'[th] # "idle", op'[th].kind = "advance"
             PROVE  /\ op'[th].ver <= version'[op'[th].trip]
                    /\ op'[th].ver = version'[op'[th].trip] =>
                          op'[th].driver = driver'[op'[th].trip]
  BY DEF CopiesInv, CopiesTell
<1>1. timeouts = 0 /\ CopiesTell
  BY TimeoutsCount DEF SessionsInv, CopiesInv
<1>2. op'[th].trip \in Trips /\ op'[th].ver \in Nat
  BY DEF SessionsInv, TxnInv, SessionsTypeOK, Legal, Ops
<1> DEFINE t == op'[th].trip
<1>3. CASE step[th] # "idle" /\ op'[th] = op[th]
  <2>1. op'[th].ver <= version[t] /\ (op'[th].ver = version[t] => op'[th].driver = driver[t])
    BY <1>1, <1>3 DEF CopiesTell
  <2> HIDE DEF t
  <2>2. /\ version[t] \in Nat /\ version'[t] \in Nat /\ version'[t] >= version[t]
        /\ version'[t] = version[t] => driver'[t] = driver[t]
    BY <1>1, <1>2, VersionsTell DEF t
  <2> QED
    BY <1>2, <2>1, <2>2 DEF t
<1>4. CASE /\ t \in Trips /\ UNCHANGED storeVars
           /\ op'[th].ver = version[t] /\ op'[th].driver = driver[t]
  BY <1>2, <1>4 DEF storeVars
<1> QED
  BY <1>1, <1>3, <1>4, AdvancesBegin

LEMMA ClaimGoesWithTrip ==
    ASSUME SessionsInv, SessionsInv', CopiesInv, timeouts = 0, [SessionsNext]_vars
    PROVE  ClaimGoes
<1> SUFFICES ASSUME NEW t \in Trips, ~IsTerminal(state[t]), IsTerminal(state'[t])
             PROVE  <<driver[t], t>> \notin claims'
  BY DEF ClaimGoes
<1>0. timeouts' = 0
  <2>1. UNCHANGED storeVars => state' = state
    BY DEF storeVars
  <2>2. \A u \in Threads : ~LockTimeout(u)
    BY <2>1 DEF LockTimeout
  <2> QED
    BY <2>2, TimeoutsCount DEF SessionsInv
<1>1. StoreTypeOK /\ StoreTypeOK' /\ CopiesTell
  BY <1>0 DEF SessionsInv, TxnInv, SessionsTypeOK, CopiesInv
<1>2. state'[t] # state[t]
  OBVIOUS
<1>3. PICK th \in Threads : step[th] = "commit" /\ Performed(op[th])
  BY <1>2, OnlyCommitsPublish DEF storeVars
<1> DEFINE w == op[th]
<1>4. ~IsTerminal("requested") /\ ~IsTerminal("matched")
  BY DEF IsTerminal, CanTransition, Allowed, TripStates
<1>5. w.kind = "advance" /\ UpdateState(w.trip, w.ver, w.driver, w.dst)
  BY <1>1, <1>2, <1>3, <1>4
     DEF Performed, InsertTrip, InsertClaim, DeleteClaim, UpdateMatch, tripRows, StoreTypeOK
<1>6. w.trip = t /\ w.dst = state'[t] /\ w.ver = version[t]
  BY <1>1, <1>2, <1>5 DEF UpdateState, StoreTypeOK, VersionMatches
<1>7. w.driver = driver[t]
  BY <1>1, <1>3, <1>5, <1>6 DEF CopiesTell
<1>8. w.dst \in {"complete", "cancelled"}
  <2>1. w.dst \in TripStates
    BY <1>5, SessionsAssumption DEF SessionsInv, TxnInv, SessionsTypeOK, Legal
  <2> QED
    BY <1>6, <2>1 DEF IsTerminal, CanTransition, Allowed, TripStates
<1>9. CASE driver[t] = NoDriver
  BY <1>1, <1>9, StoreAssumption DEF StoreTypeOK
<1>10. CASE driver[t] # NoDriver
  BY <1>5, <1>6, <1>7, <1>8, <1>10 DEF UpdateState
<1> QED
  BY <1>9, <1>10

(* What schema.sql says of a terminal state is true until a wait for a     *)
(* lock times out: the driver in the caller's copy is the driver of the    *)
(* row, for the version would tell, so the claim that goes is the trip's.  *)
THEOREM ClaimsGoWithTrips == SessionsSpec => EndsUntilTimeout
<1>1. SessionsInit => CopiesInv
  BY DEF SessionsInit, CopiesInv, CopiesTell
<1>2. SessionsInv /\ SessionsInv' /\ CopiesInv /\ [SessionsNext]_vars =>
         [timeouts = 0 => ClaimGoes]_vars
  BY ClaimGoesWithTrip
<1> QED
  BY <1>1, <1>2, CopiesInductive, SessionsInvariant, PTL DEF SessionsSpec, EndsUntilTimeout
=============================================================================
