CONSTANTS
    Channels = {plain, nvidia}
    Procs = {p1}
    Kinds = {"deploy", "update"}
    Skips = {FALSE}
    None = None
    MaxBuilds = 2
SPECIFICATION Spec
CHECK_DEADLOCK FALSE
PROPERTY
    LandsVerified
