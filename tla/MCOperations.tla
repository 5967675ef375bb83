---------------------------- MODULE MCOperations ----------------------------
(* What runs beside the sync: the registry scripts, the worker's loop and   *)
(* the resync script, the migrations and the paging of the Mongo adapter.   *)
(* They share no state while they run, so a behaviour runs one of them, the *)
(* part, and leaves the others where they begin (the worker: not running).  *)
EXTENDS DeviceRegistry, SyncWorker, Migrations, MongoPaging

VARIABLE part

operationsVars == <<registryVars, loopVars, migrationVars, pagingVars, part>>

NoRegistryWork ==
    /\ RegistryInit
    /\ registryFile = Missing /\ iotList = <<>>

NoWorker ==
    /\ phase = "killed"
    /\ attempt = 0 /\ stopped = FALSE /\ timer = FALSE /\ startsSinceStop = 0
    /\ resync = [device |-> 1, attempt |-> 1, settled |-> {}, failed |-> {}]

NoMigration ==
    /\ MigrationInit
    /\ schema = {}

NoPaging ==
    /\ cursor = NoCursor /\ rowsRead = {} /\ pages = 0 /\ paging = FALSE
    /\ docs = [d \in Docs |-> [time |-> 1, device |-> 1, fields |-> 0]]
    /\ wifiLog = [e \in WifiEvents |-> [time |-> 1, device |-> 1, data |-> FALSE]]
    /\ collection = [x \in LogDevices |-> 1]

OperationsInit ==
    /\ part \in {"registry", "worker", "migrations", "paging"}
    /\ IF part = "registry" THEN RegistryInit ELSE NoRegistryWork
    /\ IF part = "worker" THEN WorkerInit ELSE NoWorker
    /\ IF part = "migrations" THEN MigrationInit ELSE NoMigration
    /\ IF part = "paging" THEN PagingInit /\ \A e \in WifiEvents : wifiLog[e].device = 1
       ELSE NoPaging

OperationsNext ==
    /\ \/ /\ part = "registry"
          /\ RegistryNext
          /\ UNCHANGED <<loopVars, migrationVars, pagingVars>>
       \/ /\ part = "worker"
          /\ WorkerNext
          /\ UNCHANGED <<registryVars, migrationVars, pagingVars>>
       \/ /\ part = "migrations"
          /\ MigrationNext
          /\ UNCHANGED <<registryVars, loopVars, pagingVars>>
       \/ /\ part = "paging"
          /\ PagingNext
          /\ UNCHANGED <<registryVars, loopVars, migrationVars>>
    /\ UNCHANGED part

OperationsSpec ==
    /\ OperationsInit /\ [][OperationsNext]_operationsVars
    /\ RegistryFairness /\ WorkerFairness

\* Types of the four parts.
OperationsTypeOK ==
    /\ RegistryTypeOK
    /\ WorkerTypeOK
    /\ MigrationTypeOK
    /\ PagingTypeOK
=============================================================================
