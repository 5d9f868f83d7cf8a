\* Two callers of the flush at a time.  Liveness, so no symmetry.
\* The run may stop: edits, calls and failures are bounded.
SPECIFICATION FairSpec
CONSTANTS
    Docs = {d1, d2}
    None = None
    Kinds = {"load", "switch"}
    EditWhile = {"position"}
    LateFaults = FALSE
    UndoWhileSaving = FALSE
    MaxEdits = 3
    MaxUndos = 1
    MaxCalls = 3
    MaxFaults = 1
INVARIANTS SavedMeansOnDisk NothingLost
PROPERTIES EventuallySaved
CHECK_DEADLOCK FALSE
