CONSTANTS
    Channels = {plain, nvidia}
    Procs = {p1, p2}
    Kinds = {"deploy", "update", "rollback", "gc"}
    Skips = {FALSE}
    None = None
    MaxBuilds = 2
SPECIFICATION FairSpec
CHECK_DEADLOCK FALSE
PROPERTY
    WaitersReturn
