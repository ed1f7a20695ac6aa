---------------------------- MODULE MCExteriord ----------------------------
(* The task graph that commands/exteriord/exteriord.go registers. *)
EXTENDS Exteriord, TLC

CONSTANTS Setup, Monitoring, Meter, SystemUpdate, Connector, Snapshot, Clean

RunnerTasks == {Setup, Monitoring, Meter, SystemUpdate, Connector, Snapshot, Clean}
RunnerDeps ==
    Clean :> {Monitoring, SystemUpdate} @@ Setup :> {} @@
    [t \in RunnerTasks |-> {Setup}]
RunnerRestarts == {Monitoring, Meter, Connector, Snapshot}
=============================================================================
