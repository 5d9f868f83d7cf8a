\* Liveness is checked too, so no symmetry.
\* The run may stop: requests, failures and edits are bounded.
SPECIFICATION FairSpec
CONSTANTS
    Files = {f1, f2}
    Texts = {a, b}
    Null = Null
    Empty = Empty
    Deletes = TRUE
    LateFaults = {"prepare", "apply", "putback", "remove"}
    ForeignMid = FALSE
    MaxRequests = 2
    MaxFaults = 2
    MaxEdits = 1
INVARIANTS TrueReport
PROPERTIES AtomicUpdate KeepsForeign
CHECK_DEADLOCK FALSE
