\* Three calls, or two of which an operation and its rollback may fail; two recordings and three names;
\* two calls of the page, two events outside and a failure.
\* The run may stop: calls and failures are bounded.
SPECIFICATION FolderSpec
CONSTANTS
    Texts = {a, b}
    Labels = {"v1", "v2"}
    Default = "v1"
    Null = Null
    Torn = Torn
    MaxModels = 2
    MaxEdits = 3
    MaxCalls = 3
    StuckLate = FALSE
    MaxFaults = 1
    MaxSteps = 3
    Recorded = {n1, n2, n3}
    Bytes = {a, b}
    Part = Part
    None = None
    Titles = {"t1"}
    Numbers = {1, 2}
    Outside = {}
    ScanFaults = FALSE
    MaxSaves = 2
    MaxMoves = 3
    MaxStops = 2
    Places = {p, q}
    Dirs = {d, e}
    Lengths = {1, 2}
    Slots = {1, 2}
    MaxQueue = 1
    MaxIds = 2
    MaxTrips = 2
    MaxFailures = 1
INVARIANTS NoSharedFile TextsFollow
PROPERTIES OneVersionAtATime RenameWhole TrueAccess
SYMMETRY Symmetry
CHECK_DEADLOCK FALSE
