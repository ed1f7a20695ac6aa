SPECIFICATION Spec
CONSTANTS
    OnlineEvery = 3
    OfflineEvery = 2
    Minute = 4
    TimeoutMinutes = 1
    InitCommands = 2
    MaxNow = 16
    MaxWatchFaults = 1
    Clients = {"a", "b"}
    MaxRpcFaults = 3
    WalkOrder <- MCWalkOrder
    UploadEntries <- MCUploadEntries
    MaxEntries = 4
    MaxDiskFaults = 1
    Greetings <- MCGreetings
    StatusLength = 130
    Documents <- MCDocuments
    DepthLimit = 2
INVARIANTS AnswerTellsTruth ExtractedWhole HandshakeRead 
PROPERTIES StopsOnlyInactive
CHECK_DEADLOCK FALSE
