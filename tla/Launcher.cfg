SPECIFICATION FairSpec
CONSTANTS
    Sessions = {s1, s2}
    SetUpByHand = {s1}
    Unset = Unset
    MaxFaults = 1
INVARIANTS
    TypeOK
    LockProtectsSession
    CleanSparesOpenSessions
    LockHasOwner
    LaunchPageMeansStopped
PROPERTIES
    ShutdownFreesInstance
CHECK_DEADLOCK FALSE
