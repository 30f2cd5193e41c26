SPECIFICATION Spec
CONSTANTS
    Conns = {c1}
    HasCert = FALSE
    TimedReload = FALSE
    StatusNet = "off"
    MaxSignals = 1
INVARIANT NeverPanics
