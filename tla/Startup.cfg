\* One name: each attribute is absent or there, each list empty, matching or not.
CONSTANT
    Names = {a}
SPECIFICATION Spec
INVARIANTS
    TypeOK
    FailsClosed
    CallbacksAgree
    CertificateFitsFlags
    ServerIsVerified
PROPERTIES
    EntriesOnlyAdd
    OnlyFirstEntryNarrows
