\* Two attempts, of which one may lose its host, under the fairness of the loops.
SPECIFICATION FairSpec
CONSTANTS
    c1 = c1
    c2 = c2
    Clients = {c1, c2}
    Ports = {c1, c2}
    NoPort = NoPort
    Server = Server
    None = None
    ChanCap = 1
    MaxLost = 1
    MaxDrops = 0
    Actors = {}
    Mortal = {c1}
PROPERTIES
    AttemptEnds
    SlotFreedOnClose
    SlotFreedOnSilence
    EndReachesClient
CHECK_DEADLOCK FALSE
