SPECIFICATION Spec
CONSTANTS
    Threads = {t1, t2}
    First = t1
    Ids = {0, 1}
    GroupLists = {{}, {0}}
INVARIANTS
    IdsAreProcessWide
CHECK_DEADLOCK FALSE
