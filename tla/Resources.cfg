SPECIFICATION MCSpec
SYMMETRY Symmetry
CONSTANTS
    Threads = {t1, t2}
    Fds = {0, 1, 2, 3}
    PtyNumbers = {12, 21}
    MaxCalls = 4
    Lockers = {"l1", "l2"}
    MaxSwaps = 6
    Pages = {0, 1}
    Vals = {0, 1, 7}
    Secret = 7
    MEMLOCK = 1
    Locals <- MCLocals
    Remotes <- MCRemotes
    MaxStores = 2
    Keys = {3, 10, 13, 19, 255, 256}
    Cooked <- MCCooked
    MaxTyped = 2
    MaxWritten = 2
INVARIANTS
    Accounted
    TargetUntouched
    LockExcludes
    PublishedWhole
    
    SecretStaysInMemory
    
    RawTransparent
    SentAsWritten
PROPERTIES
    PtyPair
CHECK_DEADLOCK FALSE
