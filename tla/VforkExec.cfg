SPECIFICATION Spec
CONSTANTS
    Archs = {"x86_64", "aarch64"}
    Fds <- MCFds
    FdArgs <- MCFdArgs
    Files <- MCFiles
    NoFile = NoFile
    InitTables <- MCInitTables
    MaxRedirects = 3
    RetRip = 1000
    ImageCodes = {0, 126, 127}
INVARIANTS
    Aarch64RedirectsApplied
    ExitCodeNamesFailure
PROPERTIES
    CallerReleased
CHECK_DEADLOCK FALSE
