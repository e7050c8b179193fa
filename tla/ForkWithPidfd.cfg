SPECIFICATION Spec
CONSTANTS
    Pids = {1, 2}
    MaxProcs = 2
    HasClone3 = TRUE
PROPERTY ForkReturnsPidfd
