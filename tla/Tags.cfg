\* Two windows and a task, and a copy of a version in the background.
\* The run may stop: edits, commands, tasks and faults are bounded.
SPECIFICATION Spec
CONSTANTS
    None = None
    Windows = {w1, w2}
    Tasks = {t1}
    Acts = {"add", "assign", "unassign", "drop", "share", "delete"}
    TaskActs = {"create", "assign", "share", "delete"}
    Paths <- PathsMC
    Forks = TRUE
    MaxSteps = 3
INVARIANTS Openable AnswersTrue
PROPERTIES Defined
SYMMETRY Symmetry
CHECK_DEADLOCK FALSE
