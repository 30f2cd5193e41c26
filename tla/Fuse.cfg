\* Two chunks each way, one in flight per socket; a finished pipe may stop.
CONSTANTS
    MaxData = 2
    Buffer = 1
SPECIFICATION FairSpec
CHECK_DEADLOCK FALSE
INVARIANTS
    TypeOK
    ReturnedMeansShut
    HalfCloseIsOneWay
    CleanEndIsComplete
PROPERTIES
    EndPropagates
    ConnectionEnds
