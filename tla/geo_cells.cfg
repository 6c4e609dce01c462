SPECIFICATION GeoSpec
CONSTANTS
    Drivers = {d1}
    Points <- TwoPoints
    Pickups <- OneCorner
    CellSize = 10
    MaxRing = 2
    Nowhere = Nowhere
    NoPickup = NoPickup
    NoAnswer = NoAnswer
    Handlers = {h1}
    NoRequest = NoRequest
    NoCell = NoCell
    Clients = {FALSE}
INVARIANTS
    OneCell
