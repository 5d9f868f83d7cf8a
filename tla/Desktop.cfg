\* Two of the things that the user asks for or that may go wrong.
\* The run may stop: they are bounded.
SPECIFICATION DesktopSpec
CONSTANTS
    Nothing = Nothing
    MaxBackoff = 2
    Patience = 2
    Stable = 1
    MaxEvents = 2
    LateEdits = FALSE
INVARIANTS DeletedStays LeavesWell
PROPERTIES Recovers
CHECK_DEADLOCK FALSE
