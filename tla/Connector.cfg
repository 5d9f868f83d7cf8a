\* Two windows, a call from outside and local calls with one id;
\* two applications and seven ids and secrets.
\* The run may stop: windows, calls and failures are bounded.
SPECIFICATION MCSpec
CONSTANTS
    Sessions = {s1, s2}
    Clients = {chatgpt}
    RemoteClient = chatgpt
    LocalClients = {chatgpt}
    Remotes = {r1}
    Locals = {l1}
    None = None
    Nothing = Nothing
    Capacity = 1
    MaxTasks = 3
    MaxFaults = 1
    Apps = {a1, a2}
    MaxRecords = 6
    MaxMade = 7
    MaxExpired = 1
    MaxLost = 1
INVARIANTS RemoteOnce NoOverlap Consented
SYMMETRY Symmetry
CHECK_DEADLOCK FALSE
