\* A drop between the emission of coupled and its delivery.
SPECIFICATION Spec
CONSTANTS
    c1 = c1
    c2 = c2
    Clients = {c1, c2}
    Ports = {c1, c2}
    NoPort = NoPort
    Server = Server
    None = None
    ChanCap = 2
    MaxLost = 0
    MaxDrops = 1
    Actors = {c1, c2}
    Mortal = {c1, c2}
SYMMETRY ClientSymmetry
INVARIANTS
    ServerAssertsHold
CHECK_DEADLOCK FALSE
