SPECIFICATION FairSpec
CONSTANTS
    Versions = {1, 2}
    Configs <- SessionConfigs
    Slots = {1}
    MaxEdits = 1
    MaxSessions = 2
    MaxFailures = 1
PROPERTIES
    UndoRestores
CHECK_DEADLOCK FALSE
