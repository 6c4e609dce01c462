SPECIFICATION Spec
CONSTANTS
    MaxTrips = 2
    Drivers = {d1}
    Keys = {k1, k2}
    NoDriver = NoDriver
    NoKey = NoKey
    Budget <- AckLost
    Matchers = {m1}
    Nearby <- FullRanking
    MaxClaimAttempts = 2
    Handlers = {h1}
    SweepLimit = 200
    BacklogCap = 0
    HasConn = FALSE
    Callers = {}
    AdvanceTargets = {"en_route", "complete", "cancelled"}
SYMMETRY Symmetric
INVARIANTS
    NoDoubleBooking
