SPECIFICATION FairSpec
CONSTANTS
    Threads = {t1, t2, t3}
    Threshold = 2
    Cooldown = 3
    Deadline = 2
    Outages = 2
    OddErrors = 1
    Legs <- SomeLegs
    SurgeKeys <- SomeSurges
    NoSurge = NoSurge
    PerKm <- PerKmBelow
INVARIANTS
    TypeOK
    HalfOpenOneCall
    ProbeFlagTruthful
    FallbackNeverDearer
    SurgeBounded
PROPERTIES
    HealsUnlessOdd
