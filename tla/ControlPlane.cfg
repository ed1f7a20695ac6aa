SPECIFICATION Spec
CONSTANTS
    Editors = {"a", "b"}
    Updates <- MCUpdates
    MaxRequests = 4
    MaxConfigFaults = 1
    Names = {"a", "b"}
    MaxUsers = 2
    Sessions = {"s"}
    AccountReqs = {"q", "r"}
    MaxTokens = 2
    MaxAccountFaults = 1
    Worlds = {"w"}
    Preserve = 1
    MaxSeconds = 4
    MaxStoreFaults = 1
    Images = {"i1", "i2"}
    Volumes = {"v1", "v2"}
    Margin = 2
    TokenLife = 4
    MaxTicks = 5
    MaxStorageFaults = 1
INVARIANTS TypeOK ValidConfigLaunches OwnPasswordFirst AtMostOneVolume CallsCarryLiveToken
PROPERTIES PruneSparesNewest
CHECK_DEADLOCK FALSE
