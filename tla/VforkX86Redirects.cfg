SPECIFICATION Spec
CONSTANTS
    Archs = {"x86_64"}
    Fds <- MCFds
    FdArgs <- MCFdArgs
    Files <- MCFiles
    NoFile = NoFile
    InitTables <- MCInitTables
    MaxRedirects = 2
    RetRip = 1000
    ImageCodes = {0, 126, 127}
INVARIANT RedirectsApplied
CHECK_DEADLOCK FALSE
