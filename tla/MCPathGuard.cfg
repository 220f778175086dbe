CONSTANTS
    HiddenNames = {".h"}
    UNCNames = {"unc"}
    MaxLinks = 3
    Worlds <- MCWorlds
    RootPaths <- MCRootPaths
    WorkingDirectory <- MCWorkingDirectory
    UserPaths <- MCUserPaths
SPECIFICATION Spec
INVARIANTS
    ExistingExact
    CreateExact
    ListingConsistent
CHECK_DEADLOCK FALSE
