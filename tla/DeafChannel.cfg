\* A datagram that comes before, or between, the connections of its receiver.
SPECIFICATION Spec
CONSTANTS
    Sessions = {1, 2}
    Client = Client
    Server = Server
    Workers = {Server}
    Faults = {}
    QueueCap = 3
INVARIANT
    NeverDeaf
CHECK_DEADLOCK FALSE
