\* Two clients and the single slot; both sides send actions, and the server may be restarted.
SPECIFICATION HistorySpec
CONSTANTS
    c1 = c1
    c2 = c2
    Clients = {c1, c2}
    Ports = {c1, c2}
    NoPort = NoPort
    Server = Server
    None = None
    ChanCap = 2
    MaxLost = 1
    MaxDrops = 0
    Actors = {c1, c2, Server}
    Mortal = {c1, c2}
SYMMETRY ClientSymmetry
INVARIANTS
    TypeOK
    SlotConsistent
    NothingForgotten
    CoupledTogether
    NeverOutOfTurn
    ClientAssertsHold
    ServerAssertsHold
    ServerRoutes
    EventsOfThisSession
    DeviceOfTheSlot
PROPERTIES
    EndsForItsOwnCause
    ImplementsService
CHECK_DEADLOCK FALSE
