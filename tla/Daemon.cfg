\* Signals, timed reloads and status requests from start-up to exit.
SPECIFICATION FairSpec
CONSTANTS
    Conns = {c1, c2}
    HasCert = TRUE
    TimedReload = TRUE
    StatusNet = "unix"
    MaxSignals = 4
INVARIANTS
    TypeOK
    StatusSettles
PROPERTIES
    ImplementsDrain
    OkMeansBound
    ShutdownEndsProcess
    ReloadEnds
