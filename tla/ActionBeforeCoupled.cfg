\* An action of the server reaches the client before its queued coupled.
SPECIFICATION Spec
CONSTANTS
    c1 = c1
    c2 = c2
    Clients = {c1, c2}
    Ports = {c1, c2}
    NoPort = NoPort
    Server = Server
    None = None
    ChanCap = 2
    MaxLost = 0
    MaxDrops = 0
    Actors = {c1, c2, Server}
    Mortal = {c1, c2}
SYMMETRY ClientSymmetry
INVARIANTS
    ClientRoutes
CHECK_DEADLOCK FALSE
