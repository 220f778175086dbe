CONSTANTS
    Arguments <- MCArguments
    Environments <- MCEnvironments
    RootErrors <- MCRootErrors
SPECIFICATION Spec
INVARIANTS
    ServesOnlyValidated
    ProfileHonoured
    SafeDiagnostics
    ExitCodes
CHECK_DEADLOCK FALSE
