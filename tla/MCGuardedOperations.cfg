CONSTANTS
    HiddenNames = {".h"}
    UNCNames = {"unc"}
    MaxLinks = 3
    MaxExchanges = 2
    Worlds <- MCWorlds
    RootPaths <- MCRootPaths
    WorkingDirectory <- MCWorkingDirectory
    UserPaths = {}
    Calls <- MCCalls
    Entries <- MCEntries
    Nodes <- MCNodes
SPECIFICATION MCSpec
INVARIANTS
    StaysUnlessCrossed
    ActsOnEntries
CHECK_DEADLOCK FALSE
