\* Two letters, one of which patterns need not have, and up to two separators
\* around wildcards.
CONSTANTS
    Letters = {"a", "b"}
    MaxPattern = 5
    MaxInput = 5
SPECIFICATION Spec
INVARIANTS
    TypeOK
    
    TrailingSeparatorOptional
    DoubleWildcardWidens
