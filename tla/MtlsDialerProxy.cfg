\* A call through an HTTP CONNECT proxy that does not answer.
CONSTANTS
    Dials = {d1}
    ViaProxy = TRUE
SPECIFICATION FairSpec
CHECK_DEADLOCK FALSE
PROPERTY
    DialEnds
