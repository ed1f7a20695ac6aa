SPECIFICATION FairSpec
CONSTANTS
    Setup = Setup
    Monitoring = Monitoring
    Meter = Meter
    SystemUpdate = SystemUpdate
    Connector = Connector
    Snapshot = Snapshot
    Clean = Clean
    Tasks <- RunnerTasks
    Deps <- RunnerDeps
    RestartOnFailure <- RunnerRestarts
    Services = {Meter, Connector, Snapshot}
    Hooked = {Connector, Snapshot}
    BindFirst = {Connector}
    CleanUp = Clean
    MaxFailures = 2
INVARIANTS
    TypeOK
    ServicesOutliveGame
    RunReturnsAtTheEnd
PROPERTIES
    ImplementsTaskGraph
    ReadyTaskStarts
    DoneStopsServices
CHECK_DEADLOCK FALSE
