CONSTANTS
    Channels = {plain, nvidia}
    Procs = {p1, p2, p3}
    Kinds = {"deploy", "update", "rollback", "gc"}
    Skips = {TRUE}
    None = None
    MaxBuilds = 2
SPECIFICATION Spec
CHECK_DEADLOCK FALSE
SYMMETRY Symmetric
INVARIANTS
    TypeOK
    SignedComplete
PROPERTIES
    NeverBackwards
    OnChannel
    RolesSpec
