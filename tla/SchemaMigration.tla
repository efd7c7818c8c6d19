-------------------------- MODULE SchemaMigration --------------------------
(***************************************************************************)
(* The schema of the ClickHouse databases of a project: LowLevelClient.-   *)
(* Migrate (ch/migrations.go) under DB.WithLock (db/lock.go), with the     *)
(* versions kept in Postgres (db/clickhouse_schema.go).                    *)
(*                                                                         *)
(* A migrator is a goroutine that may call Migrate: the collector's loop   *)
(* or a request.  Two stores change apart: a step is one statement of      *)
(* Postgres or of ClickHouse, and what one statement did is known only to  *)
(* the statement's answer.  Postgres holds the lock for a session; a       *)
(* session that ends gives the lock up while its migrator goes on.         *)
(*                                                                         *)
(* A statement of a migration is idempotent, as docs/schema-migrations.md  *)
(* asks for: running it leaves it applied.  Run, which may follow the      *)
(* statements of a migration, counts as the last of them.                  *)
(***************************************************************************)
EXTENDS Common

CONSTANTS
    Migrators,
    ReplicaOf,      \* [Migrators -> Replicas]
    ClickHouses,    \* databases, each on its own servers
    Targets,        \* "<database>@<cluster>": keys of clickhouse_schema
    TargetOf,       \* [ClickHouses -> Targets]: two may have the same name
    Latest,         \* the last version of the newest release
    Size,           \* statements of a migration
    Sentinel,       \* the one of version 1 that creates otel_traces
    MaxBreaks,      \* bound: failed statements, lost sessions, crashes
    MaxWipes        \* bound: databases that are dropped and created anew

ASSUME MigrationAssumption ==
    /\ ReplicaOf \in [Migrators -> Replicas]
    /\ TargetOf \in [ClickHouses -> Targets]
    /\ Latest \in Nat \ {0} /\ Size \in Nat \ {0} /\ Sentinel \in 1..Size
    /\ None \notin Migrators \cup ClickHouses
    /\ MaxBreaks \in Nat /\ MaxWipes \in Nat

VARIABLES
    release,    \* len(migrations) of the program each replica runs
    recorded,   \* table clickhouse_schema: the version of a target
    applied,    \* the statements whose effect a database has
    lock,       \* ClickhouseMigrationLockId: the migrator whose session holds it
    stranded,   \* the replica whose pool holds it in an idle session
    mig,        \* the local variables of each migrator
    wiped,      \* history: databases that lost their tables
    breaks, wipes

migrationVars == <<release, recorded, applied, lock, stranded, mig, wiped, breaks, wipes>>

-----------------------------------------------------------------------------
Statements == (1..Latest) \X (1..Size)

\* The steps of Migrate that run while the lock was taken.
Inside == {"version", "sentinel", "exec", "record", "unlock"}

Migrator == [pc : {"idle", "lock", "return"} \cup Inside,
             ch : ClickHouses \cup {None},
             version : 0..Latest,       \* the migrations it counts as applied
             at : 1..Size,              \* the next statement of the one after
             ok : BOOLEAN,              \* what Migrate will return
             lost : BOOLEAN,            \* history: its session ended meanwhile
             robbed : BOOLEAN]          \* history: its database was wiped meanwhile

Idle == [pc |-> "idle", ch |-> None, version |-> 0, at |-> 1, ok |-> TRUE,
         lost |-> FALSE, robbed |-> FALSE]

Target(m) == TargetOf[mig[m].ch]

\* Every statement of migration v has its effect on c.
Whole(c, v) == \A i \in 1..Size : <<v, i>> \in applied[c]

\* c has the schema of version v.
Migrated(c, v) == \A u \in 1..v : Whole(c, u)

MigrationInit ==
    /\ release \in [Replicas -> 1..Latest]
    /\ recorded = [t \in Targets |-> 0]
    /\ applied = [c \in ClickHouses |-> {}]
    /\ lock = None /\ stranded = None
    /\ mig = [m \in Migrators |-> Idle]
    /\ wiped = {}
    /\ breaks = 0 /\ wipes = 0

-----------------------------------------------------------------------------
(* WithLock *)

\* Migrate is called with a client of c.
Call(m, c) ==
    /\ mig[m].pc = "idle"
    /\ mig' = [mig EXCEPT ![m] = [Idle EXCEPT !.pc = "lock", !.ch = c]]
    /\ UNCHANGED <<release, recorded, applied, lock, stranded, wiped, breaks, wipes>>

\* (mutant of Acquire: pg_try_advisory_lock, its answer not looked at)
AcquireAnyway(m) ==
    /\ mig[m].pc = "lock"
    /\ lock' = IF lock = None THEN m ELSE lock
    /\ mig' = [mig EXCEPT ![m].pc = "version"]
    /\ UNCHANGED <<release, recorded, applied, stranded, wiped, breaks, wipes>>

\* pg_advisory_lock returns: nobody has the lock, or the connection is the very
\* one of the pool that has it.
Acquire(m) ==
    /\ mig[m].pc = "lock"
    /\ lock = None
    /\ stranded \in {None, ReplicaOf[m]}
    /\ lock' = m
    /\ mig' = [mig EXCEPT ![m].pc = "version"]
    /\ UNCHANGED <<release, recorded, applied, stranded, wiped, breaks, wipes>>

\* The deferred pg_advisory_unlock, and Close, which puts the session back.
Unlock(m) ==
    /\ mig[m].pc = "unlock"
    /\ lock' = IF lock = m THEN None ELSE lock
    /\ mig' = [mig EXCEPT ![m].pc = "return"]
    /\ UNCHANGED <<release, recorded, applied, stranded, wiped, breaks, wipes>>

\* pg_advisory_unlock fails on a session that lives: nobody looks at the error,
\* and the session goes back to the pool with the lock.
UnlockFails(m) ==
    /\ mig[m].pc = "unlock"
    /\ lock = m
    /\ breaks < MaxBreaks
    /\ breaks' = breaks + 1
    /\ lock' = None
    /\ stranded' = ReplicaOf[m]
    /\ mig' = [mig EXCEPT ![m].pc = "return"]
    /\ UNCHANGED <<release, recorded, applied, wiped, wipes>>

\* Migrate returns to its caller.
Return(m) ==
    /\ mig[m].pc = "return"
    /\ mig' = [mig EXCEPT ![m] = Idle]
    /\ UNCHANGED <<release, recorded, applied, lock, stranded, wiped, breaks, wipes>>

-----------------------------------------------------------------------------
(* Migrate, inside WithLock *)

\* Where m goes with v migrations applied: to the next one, or to the end when
\* there is none (a database newer than the code is left as it is).
Continue(m, v) ==
    mig' = [mig EXCEPT ![m].pc = IF v < release[ReplicaOf[m]] THEN "exec" ELSE "unlock",
                       ![m].version = v,
                       ![m].at = 1]

\* GetClickhouseSchemaVersion
ReadVersion(m) ==
    /\ mig[m].pc = "version"
    /\ LET v == recorded[Target(m)]
       IN  IF v = 0 THEN Continue(m, 0)
                    ELSE mig' = [mig EXCEPT ![m].pc = "sentinel", ![m].version = v]
    /\ UNCHANGED <<release, recorded, applied, lock, stranded, wiped, breaks, wipes>>

\* tableExists(schemaSentinelTable): a database without it starts from 0.
LookForSentinel(m) ==
    /\ mig[m].pc = "sentinel"
    /\ IF <<1, Sentinel>> \in applied[mig[m].ch]
       THEN Continue(m, mig[m].version)
       ELSE mig' = [mig EXCEPT ![m].pc = "exec", ![m].version = 0, ![m].at = 1]
    /\ UNCHANGED <<release, recorded, applied, lock, stranded, wiped, breaks, wipes>>

\* ExecMigration: one statement of it.
Exec(m) ==
    /\ mig[m].pc = "exec"
    /\ LET me == mig[m]
       IN  /\ applied' = [applied EXCEPT ![me.ch] = @ \cup {<<me.version + 1, me.at>>}]
           /\ mig' = IF me.at < Size THEN [mig EXCEPT ![m].at = @ + 1]
                                     ELSE [mig EXCEPT ![m].pc = "record"]
    /\ UNCHANGED <<release, recorded, lock, stranded, wiped, breaks, wipes>>

\* (mutant of Record: the version is the number of migrations of the release)
RecordLatest(m) ==
    /\ mig[m].pc = "record"
    /\ recorded' = [recorded EXCEPT ![Target(m)] = release[ReplicaOf[m]]]
    /\ Continue(m, mig[m].version + 1)
    /\ UNCHANGED <<release, applied, lock, stranded, wiped, breaks, wipes>>

\* SetClickhouseSchemaVersion
Record(m) ==
    /\ mig[m].pc = "record"
    /\ recorded' = [recorded EXCEPT ![Target(m)] = mig[m].version + 1]
    /\ Continue(m, mig[m].version + 1)
    /\ UNCHANGED <<release, applied, lock, stranded, wiped, breaks, wipes>>

-----------------------------------------------------------------------------
(* What goes wrong *)

\* The step of m fails, by an error or by its timeout.  A statement that failed
\* may have had its effect all the same.
Fails(m) ==
    /\ mig[m].pc \in {"lock", "version", "sentinel", "exec", "record"}
    /\ breaks < MaxBreaks
    /\ breaks' = breaks + 1
    /\ mig' = [mig EXCEPT ![m].pc = IF @ = "lock" THEN "return" ELSE "unlock",
                          ![m].ok = FALSE]
    /\ \/ UNCHANGED <<applied, recorded>>
       \/ /\ mig[m].pc = "exec"
          /\ applied' = [applied EXCEPT ![mig[m].ch] =
                           @ \cup {<<mig[m].version + 1, mig[m].at>>}]
          /\ UNCHANGED recorded
       \/ /\ mig[m].pc = "record"
          /\ recorded' = [recorded EXCEPT ![Target(m)] = mig[m].version + 1]
          /\ UNCHANGED applied
    /\ UNCHANGED <<release, lock, stranded, wiped, wipes>>

\* pg_advisory_lock took the lock and failed, on a session that lives: Close puts
\* the session back to the pool with the lock, and fn does not run.
AcquireFails(m) ==
    /\ mig[m].pc = "lock"
    /\ lock = None
    /\ stranded \in {None, ReplicaOf[m]}
    /\ breaks < MaxBreaks
    /\ breaks' = breaks + 1
    /\ stranded' = ReplicaOf[m]
    /\ mig' = [mig EXCEPT ![m].pc = "return", ![m].ok = FALSE]
    /\ UNCHANGED <<release, recorded, applied, lock, wiped, wipes>>

\* Postgres ends the session that holds the lock; its migrator does not notice.
SessionEnds(m) ==
    /\ lock = m
    /\ breaks < MaxBreaks
    /\ breaks' = breaks + 1
    /\ lock' = None
    /\ stranded' = IF stranded = ReplicaOf[m] THEN None ELSE stranded
    /\ mig' = [mig EXCEPT ![m].lost = TRUE]
    /\ UNCHANGED <<release, recorded, applied, wiped, wipes>>

\* The pool closes the idle session that holds the lock.
PoolCloses ==
    /\ stranded # None
    /\ lock = None
    /\ stranded' = None
    /\ UNCHANGED <<release, recorded, applied, lock, mig, wiped, breaks, wipes>>

\* A replica ends, and is started again with its release or the newest one.
Restart(r) ==
    /\ breaks < MaxBreaks
    /\ breaks' = breaks + 1
    /\ release' \in {release, [release EXCEPT ![r] = Latest]}
    /\ mig' = [m \in Migrators |-> IF ReplicaOf[m] = r THEN Idle ELSE mig[m]]
    /\ lock' = IF lock # None /\ ReplicaOf[lock] = r THEN None ELSE lock
    /\ stranded' = IF stranded = r THEN None ELSE stranded
    /\ UNCHANGED <<recorded, applied, wiped, wipes>>

\* The database is dropped and created anew, outside of Coroot.
Wipe(c) ==
    /\ wipes < MaxWipes
    /\ wipes' = wipes + 1
    /\ applied' = [applied EXCEPT ![c] = {}]
    /\ wiped' = wiped \cup {c}
    /\ mig' = [m \in Migrators |-> IF mig[m].ch = c THEN [mig[m] EXCEPT !.robbed = TRUE]
                                                  ELSE mig[m]]
    /\ UNCHANGED <<release, recorded, lock, stranded, breaks>>

\* A step of m between its Call and its Return.
Migrate(m) ==
    \/ Acquire(m) \/ AcquireFails(m) \/ Unlock(m) \/ UnlockFails(m)
    \/ ReadVersion(m) \/ LookForSentinel(m) \/ Exec(m) \/ Record(m) \/ Fails(m)

MigrationNext ==
    \/ \E m \in Migrators : \/ \E c \in ClickHouses : Call(m, c)
                            \/ Migrate(m) \/ Return(m) \/ SessionEnds(m)
    \/ \E r \in Replicas : Restart(r)
    \/ \E c \in ClickHouses : Wipe(c)
    \/ PoolCloses

\* Migrators that call Migrate whenever they like; the loops and requests that
\* call it are the matter of Collector.
MigrationSpec == MigrationInit /\ [][MigrationNext]_migrationVars

-----------------------------------------------------------------------------
MigrationTypeOK ==
    /\ release \in [Replicas -> 1..Latest]
    /\ recorded \in [Targets -> 0..Latest]
    /\ applied \in [ClickHouses -> SUBSET Statements]
    /\ lock \in Migrators \cup {None}
    /\ stranded \in Replicas \cup {None}
    /\ mig \in [Migrators -> Migrator]
    /\ wiped \in SUBSET ClickHouses
    /\ breaks \in Nat /\ wipes \in Nat

\* Nobody else uses the name of c in clickhouse_schema.
Sole(c) == \A d \in ClickHouses : TargetOf[d] = TargetOf[c] => d = c

\* A version recorded is a schema applied ("It runs once per database, in the
\* order of Version, recorded in Postgres"): whatever fails between the two
\* stores, whoever loses the lock half way, every statement up to the recorded
\* version has its effect.  Excepted are a database that was wiped and one that
\* shares its name with another.
RecordedIsApplied ==
    \A c \in ClickHouses :
        c \notin wiped /\ Sole(c) => Migrated(c, recorded[TargetOf[c]])

\* "one replica at a time under a Postgres advisory lock": two migrators are
\* inside at once only if one of them lost the session of its lock.
TakeTurns ==
    \A m, n \in Migrators :
        m # n /\ mig[m].pc \in Inside /\ mig[n].pc \in Inside
            => mig[m].lost \/ mig[n].lost

\* A database without otel_traces "is migrated from version 1 again" and "a
\* migration that fails half way runs again" (docs/schema-migrations.md): a
\* Migrate that returns no error leaves every migration of its release applied,
\* if the database was not wiped under its hands and its name is its own.  This
\* does not hold: the README tells how it fails.
NilMeansMigrated ==
    \A m \in Migrators :
        mig[m].pc = "return" /\ mig[m].ok /\ ~mig[m].robbed /\ Sole(mig[m].ch)
            => Migrated(mig[m].ch, release[ReplicaOf[m]])
=============================================================================
