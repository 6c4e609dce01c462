SPECIFICATION FairSpec
CONSTANTS
    MaxTrips = 1
    Drivers = {d1}
    Keys = {k1}
    NoDriver = NoDriver
    NoKey = NoKey
    Budget <- KillBudget
    Matchers = {m1}
    Nearby <- FullRanking
    MaxClaimAttempts = 2
    Handlers = {h1}
    SweepLimit = 200
    BacklogCap = 0
    HasConn = FALSE
    Callers = {}
    AdvanceTargets = {"en_route", "complete", "cancelled"}
PROPERTIES
    OrphansReleased
