\* Two calls at once through a net.Dialer; all of them end.
CONSTANTS
    Dials = {d1, d2}
    ViaProxy = FALSE
SPECIFICATION FairSpec
CHECK_DEADLOCK FALSE
INVARIANTS
    TypeOK
    ResultMatchesConnection
PROPERTIES
    DialEnds
    NoGoroutineLeft
