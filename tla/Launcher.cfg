\* Two starts with their watchers, or up to four commands; three processes after a crash.
\* The run may stop: commands, failures and closings are bounded.
SPECIFICATION FairSpec
CONSTANTS
    MaxProcs = 4
    MaxWaiting = 1
    Commands = {"start", "stop", "refresh"}
    CrashProcs = 3
    MaxFaults = 1
    MaxCloses = 2
    None = None
INVARIANTS TakeTurns SessionWhole
PROPERTIES NeverStuck NoOrphans
CHECK_DEADLOCK FALSE
