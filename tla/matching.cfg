SPECIFICATION Spec
CONSTANTS
    MaxTrips = 2
    Drivers = {d1, d2}
    Keys = {k1, k2}
    NoDriver = NoDriver
    NoKey = NoKey
    Budget <- ErrorBudget
    Matchers = {m1, m2}
    Nearby <- FullRanking
    MaxClaimAttempts = 2
    Handlers = {h1}
    SweepLimit = 200
    BacklogCap = 0
    HasConn = FALSE
    Callers = {c1}
    AdvanceTargets = {"en_route", "complete", "cancelled"}
SYMMETRY Symmetric
INVARIANTS
    TypeOK
    NoDoubleBooking
    MatcherHoldsItsClaim
    LiveTripKeepsItsClaim
    NoLeakWithoutFailure
PROPERTIES
    ImplementsMarketplace
    RiderKeepsDriver
