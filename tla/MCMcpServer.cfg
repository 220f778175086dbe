CONSTANTS
    A = A
    B = B
    NullId = NullId
    MaxReadBytes = 2
    MaxArgumentBytes = 1
    MaxLines = 3
    ReadOnly = TRUE
    Messages <- PipelineMessages
    TailBytes <- MCTailBytes
SPECIFICATION Spec
INVARIANTS
    TypeOK
    Aligned
    OnlyValidRequestsExecute
    ExecutionReported
PROPERTIES
    ReadsWholeLines
    ImplementsContract
    LineEventuallyAnswered
    EOFStopsServer
CHECK_DEADLOCK FALSE
