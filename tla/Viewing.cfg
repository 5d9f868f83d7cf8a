\* Two recordings, two operations at a time.
\* The run may stop: operations and edits are bounded.
SPECIFICATION FairSpec
CONSTANTS
    Audios = {a, b}
    None = None
    Slots = {1, 2}
    Kinds = {"select", "copy", "rename", "delete", "ai", "background", "load", "import", "transcribe", "title"}
    MaxEdits = 1
    MaxOps = 3
INVARIANTS WritesOwn EditsKept
PROPERTIES UsableAgain
CHECK_DEADLOCK FALSE
