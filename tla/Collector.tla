----------------------------- MODULE Collector -----------------------------
(***************************************************************************)
(* What the collector of a replica keeps in memory about the ClickHouse of *)
(* a project (collector/collector.go, collector/migration.go), and what    *)
(* happens to it when a user moves the project to another ClickHouse.      *)
(*                                                                         *)
(* Five goroutines of a replica meet in its memory: the ticker of update-  *)
(* Projects, the loop of migrateProjects, the request that changes the     *)
(* settings, which does both, and the batches that write.  They use four   *)
(* locks and hold none of them across a statement: each step here is what  *)
(* one of them does under one lock.  A replica knows of a change made at   *)
(* another one only from its next updateProjects.                          *)
(*                                                                         *)
(* Migrate is one step here, SchemaMigration is about what it does.  One   *)
(* project; a batch is whatever calls clickhouseDo; the readers of get-    *)
(* ClickhouseReader live and die with the clients and are left out.        *)
(***************************************************************************)
EXTENDS Common

CONSTANTS
    Collectors,     \* the replicas that have a collector
    Databases,      \* the ClickHouses the project may be moved between
    MaxMoves,       \* bound: how often users change the settings
    MaxErrors       \* bound: failed statements, connections and crashes

ASSUME CollectorAssumption ==
    /\ Collectors \subseteq Replicas
    /\ None \notin Databases
    /\ MaxMoves \in Nat /\ MaxErrors \in Nat

VARIABLES
    config,     \* Postgres: the ClickHouse of the project, or None
    tables,     \* the ClickHouses that have the tables of the release
    projects,   \* Collector.projects of each replica, with clickhouseConfigs
    done,       \* Collector.migrationDone
    client,     \* Collector.clickhouseClients
    upd,        \* the local variables of each updateProjects, and of its request
    listed,     \* the project as a pass of migrateProjects listed it, or None
    under,      \* the ClickHouse each goroutine of migrateProject works on, or None
    write,      \* the local variables of clickhouseDo
    behind,     \* history: old settings are in use that nothing will drop
    moves, errors

collectorVars == <<config, tables, projects, done, client, upd, listed, under, write,
                   behind, moves, errors>>

-----------------------------------------------------------------------------
Settings == Databases \cup {None}
Updaters == Collectors \X {"tick", "request"}
Loops == Collectors \X {"loop", "request"}    \* who calls migrateProject

NoUpdate == [pc |-> "idle", read |-> None, saved |-> None]
NoWrite == [pc |-> "idle", db |-> None]

CollectorInit ==
    /\ config \in Settings
    /\ tables = {}
    /\ projects = [r \in Collectors |-> config]
    /\ done = [r \in Collectors |-> FALSE]
    /\ client = [r \in Collectors |-> None]
    /\ upd = [u \in Updaters |-> NoUpdate]
    /\ listed = [r \in Collectors |-> None]
    /\ under = [m \in Loops |-> None]
    /\ write = [r \in Collectors |-> NoWrite]
    /\ behind = [r \in Collectors |-> FALSE]
    /\ moves = 0 /\ errors = 0

Fault == errors < MaxErrors /\ errors' = errors + 1

-----------------------------------------------------------------------------
(* updateProjects: by the ticker and by a request *)

\* The ticker starts updateProjects.
Tick(r) ==
    /\ upd[<<r, "tick">>].pc = "idle"
    /\ upd' = [upd EXCEPT ![<<r, "tick">>].pc = "read"]
    /\ UNCHANGED <<config, tables, projects, done, client, listed, under, write, behind,
                   moves, errors>>

\* A user changes the ClickHouse of the project: SaveProjectIntegration, then
\* UpdateClickhouseClient.
Save(r, c) ==
    /\ moves < MaxMoves
    /\ moves' = moves + 1
    /\ c # config
    /\ upd[<<r, "request">>].pc = "idle"
    /\ under[<<r, "request">>] = None
    /\ config' = c
    /\ upd' = [upd EXCEPT ![<<r, "request">>] = [pc |-> "read", read |-> None, saved |-> c]]
    /\ UNCHANGED <<tables, projects, done, client, listed, under, write, behind, errors>>

\* Or does so at a replica that is not looked at here.
SaveElsewhere(c) ==
    /\ moves < MaxMoves
    /\ moves' = moves + 1
    /\ c # config
    /\ config' = c
    /\ UNCHANGED <<tables, projects, done, client, upd, listed, under, write, behind, errors>>

\* GetProjects
ReadProjects(u) ==
    /\ upd[u].pc = "read"
    /\ upd' = [upd EXCEPT ![u].pc = "set", ![u].read = config]
    /\ UNCHANGED <<config, tables, projects, done, client, listed, under, write, behind,
                   moves, errors>>

\* Where updateProjects returns to.
Updated(u) == IF u[2] = "request" THEN "delete" ELSE "idle"

ReadFails(u) ==
    /\ upd[u].pc = "read"
    /\ Fault
    /\ upd' = [upd EXCEPT ![u].pc = Updated(u)]
    /\ UNCHANGED <<config, tables, projects, done, client, listed, under, write, behind, moves>>

\* A goroutine of r goes on with other settings than c.
UnderWay(r, c) ==
    \/ listed[r] \notin {None, c}
    \/ \E m \in Loops : m[1] = r /\ under[m] \notin {None, c}
    \/ write[r].pc \in {"ready", "client", "dial"} /\ write[r].db # c

\* setProjects, under projectsLock.
SetProjects(u) ==
    /\ upd[u].pc = "set"
    /\ LET r == u[1]
           changed == projects[r] # upd[u].read
       IN  /\ projects' = [projects EXCEPT ![r] = upd[u].read]
           /\ behind' = [behind EXCEPT ![r] = IF changed THEN UnderWay(r, upd[u].read) ELSE @]
           /\ upd' = [upd EXCEPT ![u].pc = IF changed THEN "client" ELSE Updated(u)]
    /\ UNCHANGED <<config, tables, done, client, listed, under, write, moves, errors>>

\* setProjects: deleteClickhouseClient, under clickhouseClientsLock.
DropClient(u) ==
    /\ upd[u].pc = "client"
    /\ client' = [client EXCEPT ![u[1]] = None]
    /\ upd' = [upd EXCEPT ![u].pc = "done"]
    /\ UNCHANGED <<config, tables, projects, done, listed, under, write, behind, moves, errors>>

\* (mutant of Forgotten: the migration of the old settings counts for the new)
NotForgotten(r) == done

\* What setProjects leaves of migrationDone.
Forgotten(r) == [done EXCEPT ![r] = FALSE]

\* setProjects, under migrationDoneLock.
DropDone(u) ==
    /\ upd[u].pc = "done"
    /\ done' = Forgotten(u[1])
    /\ upd' = [upd EXCEPT ![u].pc = Updated(u)]
    /\ UNCHANGED <<config, tables, projects, client, listed, under, write, behind, moves, errors>>

-----------------------------------------------------------------------------
(* migrateProject *)

\* UpdateClickhouseClient: the client is closed, and the request migrates the
\* ClickHouse it saved, which another request may have replaced since.
RequestMigrates(r) ==
    LET u == <<r, "request">>
    IN  /\ upd[u].pc = "delete"
        /\ client' = [client EXCEPT ![r] = None]
        /\ upd' = [upd EXCEPT ![u] = NoUpdate]
        /\ under' = [under EXCEPT ![u] = upd[u].saved]
        /\ behind' = [behind EXCEPT ![r] = @ \/ upd[u].saved \notin {None, projects[r]}]
        /\ UNCHANGED <<config, tables, projects, done, listed, write, moves, errors>>

\* migrateProjects: a pass lists the project as it is loaded.
LoopLists(r) ==
    /\ under[<<r, "loop">>] = None
    /\ listed[r] = None
    /\ projects[r] # None
    /\ listed' = [listed EXCEPT ![r] = projects[r]]
    /\ UNCHANGED <<config, tables, projects, done, client, upd, under, write, behind,
                   moves, errors>>

\* migrateProjects: the listed project, if it was not migrated yet.
LoopMigrates(r) ==
    /\ listed[r] # None
    /\ listed' = [listed EXCEPT ![r] = None]
    /\ under' = IF done[r] THEN under ELSE [under EXCEPT ![<<r, "loop">>] = listed[r]]
    /\ UNCHANGED <<config, tables, projects, done, client, upd, write, behind, moves, errors>>

\* (mutant of DoneAfter: the error of Migrate is not looked at)
DoneAnyway(m, ok) == [done EXCEPT ![m[1]] = TRUE]

\* What migrateProject leaves of migrationDone.
DoneAfter(m, ok) == [done EXCEPT ![m[1]] = @ \/ ok]

\* Migrate returns, and with it migrateProject.
MigrateReturns(m) ==
    /\ under[m] # None
    /\ \/ /\ tables' = tables \cup {under[m]}
          /\ done' = DoneAfter(m, TRUE)
          /\ UNCHANGED errors
       \/ /\ Fault
          /\ done' = DoneAfter(m, FALSE)
          /\ UNCHANGED tables
    /\ under' = [under EXCEPT ![m] = None]
    /\ UNCHANGED <<config, projects, client, upd, listed, write, behind, moves>>

-----------------------------------------------------------------------------
(* clickhouseDo *)

\* loadedProject: a batch takes the settings as loaded.
Write(r) ==
    /\ write[r].pc = "idle"
    /\ projects[r] # None
    /\ write' = [write EXCEPT ![r] = [pc |-> "ready", db |-> projects[r]]]
    /\ UNCHANGED <<config, tables, projects, done, client, upd, listed, under, behind,
                   moves, errors>>

\* Are the tables ready?
Ready(r) ==
    /\ write[r].pc = "ready"
    /\ write' = [write EXCEPT ![r] = IF done[r] THEN [@ EXCEPT !.pc = "client"] ELSE NoWrite]
    /\ UNCHANGED <<config, tables, projects, done, client, upd, listed, under, behind,
                   moves, errors>>

\* getClickhouseClient: the client that is there, or a new one.
GetClient(r) ==
    /\ write[r].pc = "client"
    /\ write' = [write EXCEPT ![r] = IF client[r] # None THEN [pc |-> "do", db |-> client[r]]
                                                         ELSE [@ EXCEPT !.pc = "dial"]]
    /\ UNCHANGED <<config, tables, projects, done, client, upd, listed, under, behind,
                   moves, errors>>

\* getClickhouseClient: the new client is kept.
Dial(r) ==
    /\ write[r].pc = "dial"
    /\ client' = [client EXCEPT ![r] = write[r].db]
    /\ write' = [write EXCEPT ![r].pc = "do"]
    /\ UNCHANGED <<config, tables, projects, done, upd, listed, under, behind, moves, errors>>

\* NewLowLevelClient fails.
DialFails(r) ==
    /\ write[r].pc = "dial"
    /\ Fault
    /\ write' = [write EXCEPT ![r] = NoWrite]
    /\ UNCHANGED <<config, tables, projects, done, client, upd, listed, under, behind, moves>>

\* Do.  It may fail, and does if its client was closed meanwhile or the tables
\* are not there; then whatever client is kept now goes.
Do(r) ==
    LET can == client[r] = write[r].db /\ write[r].db \in tables
    IN  /\ write[r].pc = "do"
        /\ \/ can /\ UNCHANGED <<client, errors>>
           \/ /\ IF can THEN Fault ELSE UNCHANGED errors
              /\ client' = [client EXCEPT ![r] = None]
        /\ write' = [write EXCEPT ![r] = NoWrite]
        /\ UNCHANGED <<config, tables, projects, done, upd, listed, under, behind, moves>>

-----------------------------------------------------------------------------
\* The memory of a replica that is started again is that of a new one.
CollectorRestarts(r) ==
    /\ Fault
    /\ projects' = [projects EXCEPT ![r] = config]
    /\ done' = [done EXCEPT ![r] = FALSE]
    /\ client' = [client EXCEPT ![r] = None]
    /\ upd' = [u \in Updaters |-> IF u[1] = r THEN NoUpdate ELSE upd[u]]
    /\ listed' = [listed EXCEPT ![r] = None]
    /\ under' = [m \in Loops |-> IF m[1] = r THEN None ELSE under[m]]
    /\ write' = [write EXCEPT ![r] = NoWrite]
    /\ behind' = [behind EXCEPT ![r] = FALSE]
    /\ UNCHANGED <<config, tables, moves>>

CollectorNext ==
    \/ \E r \in Collectors :
          \/ Tick(r) \/ RequestMigrates(r) \/ LoopLists(r) \/ LoopMigrates(r)
          \/ \E c \in Settings : Save(r, c)
          \/ Write(r) \/ Ready(r) \/ GetClient(r) \/ Dial(r) \/ DialFails(r) \/ Do(r)
          \/ CollectorRestarts(r)
    \/ \E c \in Settings : SaveElsewhere(c)
    \/ \E u \in Updaters :
          ReadProjects(u) \/ ReadFails(u) \/ SetProjects(u) \/ DropClient(u) \/ DropDone(u)
    \/ \E m \in Loops : MigrateReturns(m)

\* A goroutine that can go on does; the ticker ticks and the backoff of migrate-
\* Projects ends.  Nothing is assumed of users, batches and faults.
UpdaterStep(u) ==
    \/ ReadProjects(u) \/ SetProjects(u) \/ DropClient(u) \/ DropDone(u)
    \/ u[2] = "tick" /\ Tick(u[1])
    \/ u[2] = "request" /\ RequestMigrates(u[1])

LoopStep(m) ==
    \/ MigrateReturns(m)
    \/ m[2] = "loop" /\ (LoopLists(m[1]) \/ LoopMigrates(m[1]))

CollectorFairness ==
    /\ \A u \in Updaters : WF_collectorVars(UpdaterStep(u))
    /\ \A m \in Loops : WF_collectorVars(LoopStep(m))

CollectorSpec == CollectorInit /\ [][CollectorNext]_collectorVars /\ CollectorFairness

-----------------------------------------------------------------------------
CollectorTypeOK ==
    /\ config \in Settings
    /\ tables \in SUBSET Databases
    /\ projects \in [Collectors -> Settings]
    /\ done \in [Collectors -> BOOLEAN]
    /\ client \in [Collectors -> Settings]
    /\ upd \in [Updaters -> [pc : {"idle", "read", "set", "client", "done", "delete"},
                             read : Settings, saved : Settings]]
    /\ listed \in [Collectors -> Settings]
    /\ under \in [Loops -> Settings]
    /\ write \in [Collectors -> [pc : {"idle", "ready", "client", "dial", "do"}, db : Settings]]
    /\ behind \in [Collectors -> BOOLEAN]
    /\ moves \in Nat /\ errors \in Nat

\* No setProjects of r is half way, and no getClickhouseClient.
Settled(r) ==
    /\ \A u \in Updaters : u[1] = r => upd[u].pc \notin {"client", "done"}
    /\ write[r].pc # "dial"

\* "A project whose ClickHouse settings changed (on this or another Coroot
\* replica) loses its client and its migration, so that the collector connects
\* to the new ClickHouse and creates its tables there" (setProjects): the client
\* of a replica is one of the settings it has loaded, and its migrationDone
\* speaks of their tables.  Excepted is a replica that was using the old
\* settings at the moment they changed.
Follows ==
    \A r \in Collectors :
        Settled(r) /\ ~behind[r] =>
            /\ client[r] \in {None, projects[r]}
            /\ done[r] /\ projects[r] # None => projects[r] \in tables

\* Every replica comes to the settings of the project and to its tables there,
\* whatever failed and whoever crashed before.
EventuallyReady ==
    \A r \in Collectors :
        <>[](\/ behind[r] \/ config = None
             \/ projects[r] = config /\ done[r] /\ config \in tables)
=============================================================================
