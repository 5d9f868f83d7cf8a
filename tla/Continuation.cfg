\* Up to two tasks, two of the things that may happen once.
\* The run may stop: calls, failures and edits are bounded.
SPECIFICATION Spec
CONSTANTS
    None = None
    BatchSize = 1
    Tasks = {1, 2}
    Versions = {1, 2, 3}
    Existing = {1}
    ReadOnly = {}
    Segments = 2
    Modes = {"new", "current"}
    Ops = {"batch", "stage", "checkpoint", "resume", "cancel"}
    Kinds = {"edit", "delete"}
    MaxOwners = 2
    MaxBatches = 2
    Events = {"fault", "crash", "edit", "open", "window", "delete", "stage", "task"}
    MaxEvents = 2
INVARIANTS TrueProgress AppliedOnce
CHECK_DEADLOCK FALSE
