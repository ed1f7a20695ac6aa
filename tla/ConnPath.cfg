SPECIFICATION FairSpec
CONSTANTS
    WebActions = {"stop"}
    ConnReqs = {"p", "q"}
    Scenes = {{"stop", "p"}, {"p", "q"}}
    MaxFaults = 1
INVARIANTS TypeOK PoolHasNoLeftovers
PROPERTIES ImplementsAtMostOnce WaitingPollGetsAction CloseReachesBothEnds
CHECK_DEADLOCK FALSE
