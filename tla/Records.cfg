SPECIFICATION MCSpec
CONSTANTS
    BufLen <- MCBufLen
    MAX_ADDRS = 2
    Replies <- MCReplies
INVARIANTS
    NoOverread
    ParsesWhatWasSent
    CopyIsCurrent
PROPERTIES
    ParseTerminates
CHECK_DEADLOCK FALSE
