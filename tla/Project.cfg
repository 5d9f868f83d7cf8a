\* Two windows.
\* The run may stop: operations, edits and failures are bounded.
SPECIFICATION Spec
CONSTANTS
    Windows = {w1, w2}
    None = None
    Ops = {"describe", "create", "rename", "audio", "text", "append", "existing", "relink", "move", "reassign", "trash", "session", "clear", "write"}
    StuckLate = FALSE
    MaxCalls = 3
    MaxEdits = 1
    MaxFaults = 1
    MaxSteps = 3
INVARIANTS EveryTextOnce NoLostUpdate
PROPERTIES OpenStaysListed
SYMMETRY Symmetry
CHECK_DEADLOCK FALSE
