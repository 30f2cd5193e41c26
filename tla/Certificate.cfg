\* Signal and timer reload at the same time; two new certificates.
CONSTANTS
    Reloaders = {r1, r2}
    Timed = {r2}
    MaxVersion = 2
    MaxOpen = 3
SPECIFICATION FairSpec
INVARIANTS
    TypeOK
    CachedIsPair
PROPERTIES
    OnlyOvertakenRegress
    Converges
