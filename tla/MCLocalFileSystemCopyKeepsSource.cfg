CONSTANTS
    Procs = {p1, p2}
    MaxOps = 1
    MaxWriteBytes = 2
    MaxCopyBytes = 2
    MaxListEntries = 1
    MaxDeleteEntries = 1
    DiskMayFail = TRUE
    Paths <- MCPaths
    Bytes <- MCBytes
    InitialTrees <- MCInitialTrees
    Requests <- AllRequests
SPECIFICATION Spec
INVARIANTS
    CopyKeepsSource
CHECK_DEADLOCK FALSE
