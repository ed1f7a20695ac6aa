SPECIFICATION Spec
CONSTANTS
    Versions = {1, 2}
    Configs <- SessionConfigs
    Slots = {1}
    MaxEdits = 1
    MaxSessions = 2
    MaxFailures = 1
INVARIANTS
    UnchangedWorldNotDownloaded
CHECK_DEADLOCK FALSE
