\* The drain promise of Wait against a handler that registers late.
CONSTANTS
    Conns = {c1}
    Callers = {s1, s2}
    IsTLS = FALSE
    ProxyProtocol = FALSE
    MaxAcceptErrors = 1
SPECIFICATION Spec
INVARIANT
    WaitMeansDrained
