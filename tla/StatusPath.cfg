SPECIFICATION FairSpec
CONSTANTS
    Games <- SmallGames
    ChanCap = 1
    Users = {u}
    MaxFaults = 1
INVARIANTS TypeOK EventsAccounted
PROPERTIES ImplementsAtMostOnce StreamNeverGoesBack ShutdownStartsClean
CHECK_DEADLOCK FALSE
