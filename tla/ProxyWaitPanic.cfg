\* The safety promise of Wait against a handler that registers late.
CONSTANTS
    Conns = {c1, c2}
    Callers = {s1, s2}
    IsTLS = FALSE
    ProxyProtocol = FALSE
    MaxAcceptErrors = 1
SPECIFICATION Spec
INVARIANT
    WaitIsSafe
