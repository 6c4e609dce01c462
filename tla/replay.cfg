SPECIFICATION Spec
CONSTANTS
    MaxTrips = 2
    Drivers = {d1, d2}
    Keys = {k1, k2}
    NoDriver = NoDriver
    NoKey = NoKey
    Budget <- ReplayBudget
    Matchers = {m1}
    Nearby <- AnyRanking
    MaxClaimAttempts = 2
    Handlers = {h1, h2}
    SweepLimit = 200
    BacklogCap = 0
    HasConn = FALSE
    Callers = {c1}
    AdvanceTargets = {"en_route", "complete", "cancelled"}
SYMMETRY Symmetric
INVARIANTS
    OneTripPerKey
    CollisionHasRow
    HintsNameRows
PROPERTIES
    RiderKeepsDriver
    TripsFollowTable
