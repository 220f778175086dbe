CONSTANTS
    MaxReadBytes = 2
    MaxLines = 3
    Messages <- MCMessages
    TailBytes <- MCTailBytes
SPECIFICATION TransportSpec
PROPERTIES
    ReadsSingleMessage
CHECK_DEADLOCK FALSE
