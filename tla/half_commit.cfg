SPECIFICATION SessionsSpec
CONSTANTS
    MaxTrips = 2
    Drivers = {d1}
    Keys = {k1}
    NoDriver = NoDriver
    NoKey = NoKey
    Threads = {t1, t2}
    Conns = {c1, c2}
    NoConn = NoConn
    Targets = {"en_route", "complete", "cancelled"}
    Losses = 1
    Timeouts = 1
SYMMETRY Symmetric
PROPERTIES
    EndsWithItsClaim
