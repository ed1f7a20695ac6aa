SPECIFICATION FairSpec
CONSTANTS
    Versions = {1, 2}
    Configs <- SessionConfigs
    Slots = {1}
    MaxEdits = 2
    MaxSessions = 2
    MaxFailures = 2
INVARIANTS
    TypeOK
    NoHalfDownloadServed
    KeyNamesLocalWorld
    DataDirMatchesVersion
PROPERTIES
    ProgressKept
    StopEndsSession
CHECK_DEADLOCK FALSE
