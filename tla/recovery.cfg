SPECIFICATION FairSpec
CONSTANTS
    MaxTrips = 2
    Drivers = {d1, d2}
    Keys = {k1, k2}
    NoDriver = NoDriver
    NoKey = NoKey
    Budget <- RecoveryBudget
    Matchers = {m1}
    Nearby <- SameRanking
    MaxClaimAttempts = 2
    Handlers = {h1}
    SweepLimit = 200
    BacklogCap = 0
    HasConn = FALSE
    Callers = {}
    AdvanceTargets = {"en_route", "complete", "cancelled"}
PROPERTIES
    StrandedOnlyByOrphan
    QueueRebuilt
