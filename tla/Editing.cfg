\* Three operations; texts of more than three pairs of letters are aligned by halves.
\* The run may stop: keystrokes and operations are bounded.
SPECIFICATION Spec
CONSTANTS
    s1 = s1
    s2 = s2
    None = None
    Firsts <- MCFirsts
    Pieces <- MCPieces
    AITexts <- MCAITexts
    Speakers = {s1, s2}
    Areas = {1}
    Ops = {"type", "split", "merge", "mark", "assign", "mergeSpeaker", "delete", "replace", "replaceAll", "undo", "redo", "ai"}
    MaxSteps = 3
    MaxLetters = 4
    MaxErased = 1
    MaxHistory = 3
    MatrixLimit = 3
    Width = 144
INVARIANTS WordsSpellText SurvivorsKeepTime
PROPERTIES AlignedExactly
CHECK_DEADLOCK FALSE
