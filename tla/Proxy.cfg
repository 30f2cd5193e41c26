\* Server mode with the proxy protocol: TLS listener, two connections and two
\* calls of Shutdown.
CONSTANTS
    Conns = {c1, c2}
    Callers = {s1, s2}
    IsTLS = TRUE
    ProxyProtocol = TRUE
    MaxAcceptErrors = 1
SPECIFICATION FairSpec
INVARIANTS
    TypeOK
    WaitGroupBalance
    OpenIsLive
    ShutdownIsNoError
PROPERTIES
    SuccessIsForwarded
    ImplementsDrain
    HandlerDecides
    AcceptLoopEnds
    WaitEnds
