\* Two sessions of one client, with a worker in the server and faults.
SPECIFICATION FairSpec
CONSTANTS
    Sessions = {1, 2}
    Client = Client
    Server = Server
    Workers = {Server}
    Faults = {Client, Server}
    QueueCap = 3
INVARIANTS
    TypeOK
    StateFollowsChannel
    ReleaseHitsOwn
    ConnectionFollowsCoupling
    FailureTearsDown
PROPERTY
    CoupledConnects
CHECK_DEADLOCK FALSE
