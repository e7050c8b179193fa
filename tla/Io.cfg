SPECIFICATION MCSpec
CONSTANTS
    w1 = w1
    w2 = w2
    Writers <- MCWriters
    WLen <- MCWLen
    RLen = 4
    Capacity = 2
    MaxIntr = 2
    Clients = {"c1", "c2"}
    Requests <- MCRequests
    ServerPorts = {258}
    ClientPorts = {513, 772}
    Backlog = 1
    BufLen = 2
    Kids = {"k1", "k2"}
    Body <- MCBody
    Patch = 9
    Segments <- MCSegments
    MaxRounds = 2
INVARIANTS
    StreamIntegrity
    EndpointsAgree
    BodyConsumedOnce
PROPERTIES
    PipeCallsReturn
    Echoed
    ImplementsByteStream
CHECK_DEADLOCK FALSE
