\* Two sessions, two ids, three calls: ids may be shared and a message lost.
SPECIFICATION FairSpec
CONSTANTS
    client = client
    server = server
    a1 = a1
    a2 = a2
    b1 = b1
    Peers = {client, server}
    Calls = {a1, a2, b1}
    Caller <- MCCaller
    Ids = {1, 2}
    Nobody = Nobody
    MaxSessions = 2
    MaxLost = 1
INVARIANTS
    TypeOK
    AnsweredOnce
    OwnAnswer
    NoLostCallback
PROPERTY
    Answered
CHECK_DEADLOCK FALSE
