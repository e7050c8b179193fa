SPECIFICATION MCSpec
CONSTANTS
    Arch = "x86_64"
    Kids = {k1, k2}
    MaxInt = 2
    CounterMax = 3
    Adds = {1, 2}
    MaxPosts = 3
    Payloads = {7, 8}
    Threads = {"t1", "t2"}
    Images <- MCImages
    Clocks = {"realtime", "tai"}
    VdsoClocks = {"realtime"}
    BadClock = "bad"
    FdLimit = 2
    MaxTime = 1
    MaxCalls = 2
    Interval = 3
    Latency = 1
    Work = 1
    MaxSignals = 2
    Jump = 4
    MaxTicks = 14
INVARIANTS
    MaskRestored
    PointerIsReal
    
    NoDrift
PROPERTIES
    DeathsNoticed
    NoWakeupLost
    ResultIsCurrent
CHECK_DEADLOCK FALSE
