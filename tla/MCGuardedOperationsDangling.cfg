CONSTANTS
    HiddenNames = {".h"}
    UNCNames = {"unc"}
    MaxLinks = 3
    MaxExchanges = 0
    Worlds <- MCWorlds
    RootPaths <- MCRootPaths
    WorkingDirectory <- MCWorkingDirectory
    UserPaths = {}
    Calls <- MCCalls
    Entries <- MCEntries
    Nodes <- MCNodes
SPECIFICATION MCSpec
INVARIANTS
    EffectivePathInside
CHECK_DEADLOCK FALSE
