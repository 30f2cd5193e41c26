\* What the documentation says of clients of a server.
CONSTANT
    Names = {a}
SPECIFICATION Spec
INVARIANT MutualAuthentication
