CONSTANTS
    Writers = {w1, w2}
    Dirs = {d1, d2, d3}
    Missing = Missing
    MaxEvents = 2
SPECIFICATION Spec
INVARIANTS
    TypeOK
    TargetComplete
    FailsClosed
    NoLeftovers
    AllOrNothing
PROPERTIES
    ProtectedUntouched
SYMMETRY Symmetry
CHECK_DEADLOCK FALSE
