CONSTANTS
    A = A
    B = B
    NullId = NullId
    MaxReadBytes = 2
    MaxArgumentBytes = 1
    MaxLines = 1
    ReadOnly = FALSE
    Messages <- ShapeMessages
    TailBytes = {0}
SPECIFICATION Spec
INVARIANTS
    AnswerIdentity
    AnswerCodes
    ArgumentsAsPublished
CHECK_DEADLOCK FALSE
