SPECIFICATION MCSpec
CONSTANTS
    Pids = {1, 2}
    MaxProcs = 4
    HasClone3 = TRUE
    JobEvents <- MCJobEvents
    OptionSets <- MCOptionSets
    Nrs = {39, 60}
    MaxOps = 3
    Shell = 2
    Kids = {3, 4}
    Daemon = 5
    Threads = {"t1", "t2"}
    First = "t1"
    Ids = {0, 1}
    GroupLists = {{}, {0}}
INVARIANTS
    PidfdReachesChild
    
    ViewIsCurrent
    EntryExitTracked
    SignalsReinjected
    SignalReachesJob
    
PROPERTIES
    OrphansDie
CHECK_DEADLOCK FALSE
