\* Two jobs where the backend keeps one.  Liveness, so no symmetry.
\* The run may stop: jobs and failures are bounded.
SPECIFICATION FairSpec
CONSTANTS
    Ids = {1, 2}
    Parts = 2
    Attempts = 2
    Audios = {a, b}
    None = None
    Settings = {s1, s2}
    MaxJobs = 1
    MaxVersions = 2
    Events = {"net", "disk", "restart", "reload", "day", "unheard", "cancel", "load", "switch"}
    MaxEvents = 2
INVARIANTS PaidOnce  CopyRemoved
PROPERTIES KeptUntilSaved RunEnds
CHECK_DEADLOCK FALSE
