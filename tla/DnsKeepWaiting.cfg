SPECIFICATION Spec
CONSTANTS
    ns1 = ns1
    ns2 = ns2
    Stranger = Stranger
    ServerLists <- MCServerLists
    Kinds = {"answer"}
    MaxQueue = 1
    MaxStray = 1
    MaxDup = 1
PROPERTY KeepsWaiting
CHECK_DEADLOCK FALSE
