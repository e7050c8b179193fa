SPECIFICATION Spec
CONSTANTS
    ns1 = ns1
    ns2 = ns2
    Stranger = Stranger
    ServerLists <- MCServerLists
    Kinds = {"answer", "nxdomain", "short"}
    MaxQueue = 2
    MaxStray = 1
    MaxDup = 1

    
PROPERTIES
    Resolves
CHECK_DEADLOCK FALSE
