--------------------------- MODULE MCControlPlane ---------------------------
(***************************************************************************)
(* The parts of the control plane beside a launch.  They share no state    *)
(* (keys of Redis, tables, the bucket and the cloud are theirs alone), so  *)
(* a behaviour of the model runs one of them.                              *)
(***************************************************************************)
EXTENDS PendingConfig, Accounts, WorldStore, BootStorage, TLC

VARIABLE part

\* Bodies of PUT /config: the page sends the field that was changed; two whole forms
\* make longer histories short.
Single(fields, values) == {f :> v : f \in fields, v \in values}
MCUpdates ==
    Single({"machineType", "levelType"}, {"bad", "ok"})
    \cup Single({"serverVersion"}, {"empty", "ok", "new"})
    \cup Single({"worldSource"}, {"bad", "backups", "new-world"})
    \cup Single({"worldName", "backupGen", "seed"}, {"empty", "ok"})
    \cup { ("serverVersion" :> "ok") @@ ("worldName" :> "ok") @@ ("worldSource" :> "new-world"),
           ("serverVersion" :> "new") @@ ("worldName" :> "ok") @@ ("worldSource" :> "backups")
               @@ ("backupGen" :> "ok") @@ ("levelType" :> "bad") }

TypeOK == ConfigTypeOK /\ AccountsTypeOK /\ WorldTypeOK /\ StorageTypeOK

Init ==
    /\ part \in {"config", "accounts", "worlds", "storage"}
    /\ ConfigInit /\ AccountsInit /\ WorldInit
    /\ StorageInit /\ (part = "storage" \/ (volumes = {} /\ Existing = {}))

Next ==
    /\ UNCHANGED part
    /\ \/ part = "config" /\ ConfigNext /\ UNCHANGED <<accountVars, worldVars, storageVars>>
       \/ part = "accounts" /\ AccountsNext /\ UNCHANGED <<configVars, worldVars, storageVars>>
       \/ part = "worlds" /\ WorldNext /\ UNCHANGED <<configVars, accountVars, storageVars>>
       \/ part = "storage" /\ StorageNext /\ UNCHANGED <<configVars, accountVars, worldVars>>

Spec == Init /\ [][Next]_<<part, configVars, accountVars, worldVars, storageVars>>
=============================================================================
