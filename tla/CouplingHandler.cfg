\* One server-side handler against an arbitrary client.
SPECIFICATION Spec
CONSTANTS
    p1 = p1
    p2 = p2
    Ports <- MCPorts
    NoPort = NoPort
    MaxReplies = 5
INVARIANTS
    TypeOK
    AcceptedInOrder
    FlagsMatchReplies
    WatchedByTimer
PROPERTY
    ImplementsGate
