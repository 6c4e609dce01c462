SPECIFICATION GeoFairSpec
CONSTANTS
    Drivers = {d1}
    Points <- ThreePoints
    Pickups <- OneCorner
    CellSize = 10
    MaxRing = 2
    Nowhere = Nowhere
    NoPickup = NoPickup
    NoAnswer = NoAnswer
    Handlers = {h1, h2}
    NoRequest = NoRequest
    NoCell = NoCell
    Clients = {TRUE, FALSE}
INVARIANTS
    GeoTypeOK
    FreshIsListed
PROPERTIES
    ImplementsBoard
    GhostsFade
