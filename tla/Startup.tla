------------------------------- MODULE Startup -------------------------------
(***************************************************************************)
(* What a replica of Coroot writes to Postgres while it starts (main.go),  *)
(* before it serves: the builtin rules of the projects it finds (Migrate), *)
(* the default project (config/bootstrap.go), the deployment's uuid, the   *)
(* secret that signs sessions, the administrator (api/auth.go).  Replicas  *)
(* start at once on an empty database, and one may end anywhere: what it   *)
(* could not write, or lost to another replica's row, makes it exit        *)
(* (klog.Exitln) and be started again.                                     *)
(*                                                                         *)
(* The configuration is the one of the manifests: no projects of its own,  *)
(* a ClickHouse for the default project.  Nobody deletes the project.      *)
(***************************************************************************)
EXTENDS Common, FiniteSets

CONSTANT MaxStartFaults   \* bound: crashes, and failures the code ignores

VARIABLES
    project,     \* the settings of the default project's row, or None
    builtin,     \* every builtin rule of the project has its row
    setting,     \* the table settings: [Names -> Nat \cup {None}]
    admin,       \* the administrator has a row
    start,       \* [Replicas -> where the replica is, and what it has read or made]
    memory,      \* [Replicas -> [Names -> Nat \cup {None}]] the values it goes on with
    minted,      \* the random values made so far
    startFaults,
    ignored      \* history: a failure of InitBuiltinAlertingRules was ignored

startupVars == <<project, builtin, setting, admin, start, memory, minted, startFaults, ignored>>

Names == {"deployment_uuid", "auth_secret"}

\* The blob of project.settings, as far as a start writes it.  A row just
\* inserted has none, which reads as no keys (nil) and no ClickHouse.
Blobs == [keys : {"nil", "id", "random"}, clickhouse : BOOLEAN]
Blank == [keys |-> "nil", clickhouse |-> FALSE]

ASSUME StartupAssumption ==
    /\ MaxStartFaults \in Nat
    /\ Replicas # {}
    /\ None \notin Nat \cup Blobs

\* Where a replica is in main, and what it has read or made there.
StartLocals ==
    [pc : {"down", "migrate", "default", "insert", "keys", "rules", "clickhouse", "projects",
           "save", "get", "update", "put", "select", "add", "serving"},
     name : Names \cup {None}, copy : Blobs, value : Nat \cup {None}]

At(pc) == [pc |-> pc, name |-> None, copy |-> Blank, value |-> None]
Down == At("down")
Unset == [n \in Names |-> None]

Goes(r, s) == start' = [start EXCEPT ![r] = s]

\* klog.Exitln, or the end of the process.
Exit(r) ==
    /\ Goes(r, Down)
    /\ memory' = [memory EXCEPT ![r] = Unset]

StartupInit ==
    /\ project = None /\ builtin = FALSE /\ admin = FALSE
    /\ setting = Unset
    /\ start = [r \in Replicas |-> Down]
    /\ memory = [r \in Replicas |-> Unset]
    /\ minted = 0 /\ startFaults = 0 /\ ignored = FALSE

startTables == <<project, builtin, setting, admin>>
startRest == <<minted, startFaults, ignored>>

-----------------------------------------------------------------------------
(* Migrate and Bootstrap *)

\* (external) Kubernetes starts the container again.
StartAgain(r) ==
    /\ start[r].pc = "down"
    /\ Goes(r, At("migrate"))
    /\ UNCHANGED <<startTables, memory, startRest>>

\* (mutant of MigrateDatabase: only a new project gets the builtin rules)
MigrateSchemaOnly(r) ==
    /\ start[r].pc = "migrate"
    /\ Goes(r, At("default"))
    /\ UNCHANGED <<startTables, memory, startRest>>

\* updateProjectsForThisVersion, under the lock of migrations: the project
\* found gets the builtin rules it lacks, unless that fails, which is ignored.
\* What it writes it may write twice, so it is one step; the wait for the lock
\* (db.Migrate, WithLock) is left out: that it ends is assumed.
MigrateDatabase(r) ==
    /\ start[r].pc = "migrate"
    /\ Goes(r, At("default"))
    /\ \/ /\ builtin' = (builtin \/ project # None)
          /\ UNCHANGED <<startFaults, ignored>>
       \/ /\ project # None /\ ~builtin /\ startFaults < MaxStartFaults
          /\ startFaults' = startFaults + 1
          /\ ignored' = TRUE
          /\ UNCHANGED builtin
    /\ UNCHANGED <<project, setting, admin, memory, minted>>

\* getOrCreateDefaultProject reads the projects.
ReadDefault(r) ==
    /\ start[r].pc = "default"
    /\ Goes(r, IF project = None THEN At("insert")
               ELSE [At("clickhouse") EXCEPT !.copy = project])
    /\ UNCHANGED <<startTables, memory, startRest>>

\* SaveProject: the name is unique, so the row of another replica is a conflict.
InsertProject(r) ==
    /\ start[r].pc = "insert"
    /\ IF project = None
       THEN /\ project' = Blank
            /\ Goes(r, [At("keys") EXCEPT !.copy = [Blank EXCEPT !.keys = "random"]])
            /\ UNCHANGED memory
       ELSE Exit(r) /\ UNCHANGED project
    /\ UNCHANGED <<builtin, setting, admin, startRest>>

\* SaveProjectSettings writes the whole blob the replica has.
SaveKeys(r) ==
    /\ start[r].pc = "keys"
    /\ project' = start[r].copy
    /\ Goes(r, [start[r] EXCEPT !.pc = "rules"])
    /\ UNCHANGED <<builtin, setting, admin, memory, startRest>>

InitBuiltinAlertingRules(r) ==
    /\ start[r].pc = "rules"
    /\ builtin' = TRUE
    /\ Goes(r, [start[r] EXCEPT !.pc = "clickhouse"])
    /\ UNCHANGED <<project, setting, admin, memory, startRest>>

\* SaveProjectIntegration, of a project without ClickHouse: the whole blob again.
SaveClickhouse(r) ==
    /\ start[r].pc = "clickhouse"
    /\ project' = IF start[r].copy.clickhouse THEN project
                  ELSE [start[r].copy EXCEPT !.clickhouse = TRUE]
    /\ Goes(r, At("projects"))
    /\ UNCHANGED <<builtin, setting, admin, memory, startRest>>

\* Bootstrap reads the projects again, ...
GetProjects(r) ==
    /\ start[r].pc = "projects"
    /\ Goes(r, [At("save") EXCEPT !.copy = project])
    /\ UNCHANGED <<startTables, memory, startRest>>

\* ... and saves each, with its id for a key if it has none.
SaveProjects(r) ==
    /\ start[r].pc = "save"
    /\ project' = IF start[r].copy.keys = "nil" THEN [start[r].copy EXCEPT !.keys = "id"]
                  ELSE start[r].copy
    /\ Goes(r, [At("get") EXCEPT !.name = "deployment_uuid"])
    /\ UNCHANGED <<builtin, setting, admin, memory, startRest>>

-----------------------------------------------------------------------------
(* GetDeploymentUuid and AuthInit *)

\* The replica goes on with the value v of its setting.
Keeps(r, v) ==
    /\ memory' = [memory EXCEPT ![r][start[r].name] = v]
    /\ Goes(r, IF start[r].name = "deployment_uuid" THEN [At("get") EXCEPT !.name = "auth_secret"]
               ELSE At("select"))

\* GetSetting: a value that is not there is made.
GetSetting(r) ==
    LET n == start[r].name IN
    /\ start[r].pc = "get"
    /\ IF setting[n] # None
       THEN Keeps(r, setting[n]) /\ UNCHANGED minted
       ELSE /\ minted' = minted + 1
            /\ Goes(r, [start[r] EXCEPT !.pc = "update", !.value = minted'])
            /\ UNCHANGED memory
    /\ UNCHANGED <<startTables, startFaults, ignored>>

\* SetSetting, first statement: an UPDATE that found the row is enough.
UpdateSetting(r) ==
    LET n == start[r].name IN
    /\ start[r].pc = "update"
    /\ IF setting[n] # None
       THEN setting' = [setting EXCEPT ![n] = start[r].value] /\ Keeps(r, start[r].value)
       ELSE Goes(r, [start[r] EXCEPT !.pc = "put"]) /\ UNCHANGED <<setting, memory>>
    /\ UNCHANGED <<project, builtin, admin, startRest>>

\* SetSetting, second statement: the name is the primary key.
InsertSetting(r) ==
    LET n == start[r].name IN
    /\ start[r].pc = "put"
    /\ IF setting[n] = None
       THEN setting' = [setting EXCEPT ![n] = start[r].value] /\ Keeps(r, start[r].value)
       ELSE Exit(r) /\ UNCHANGED setting
    /\ UNCHANGED <<project, builtin, admin, startRest>>

\* (mutant of SelectAdmin: the administrator is always added)
AlwaysAdd(r) ==
    /\ start[r].pc = "select"
    /\ Goes(r, At("add"))
    /\ UNCHANGED <<startTables, memory, startRest>>

\* CreateAdminIfNotExists looks for the administrator ...
SelectAdmin(r) ==
    /\ start[r].pc = "select"
    /\ Goes(r, At(IF admin THEN "serving" ELSE "add"))
    /\ UNCHANGED <<startTables, memory, startRest>>

\* ... and adds it: the email is unique.
AddAdmin(r) ==
    /\ start[r].pc = "add"
    /\ IF admin
       THEN Exit(r) /\ UNCHANGED admin
       ELSE admin' = TRUE /\ Goes(r, At("serving")) /\ UNCHANGED memory
    /\ UNCHANGED <<project, builtin, setting, startRest>>

\* The process ends anywhere, a statement that fails while it starts included.
Crash(r) ==
    /\ start[r].pc # "down" /\ startFaults < MaxStartFaults
    /\ startFaults' = startFaults + 1
    /\ Exit(r)
    /\ UNCHANGED <<startTables, minted, ignored>>

-----------------------------------------------------------------------------
StartStep(r) ==
    \/ StartAgain(r) \/ MigrateDatabase(r)
    \/ ReadDefault(r) \/ InsertProject(r) \/ SaveKeys(r) \/ InitBuiltinAlertingRules(r)
    \/ SaveClickhouse(r) \/ GetProjects(r) \/ SaveProjects(r)
    \/ GetSetting(r) \/ UpdateSetting(r) \/ InsertSetting(r)
    \/ SelectAdmin(r) \/ AddAdmin(r)

StartupNext == \E r \in Replicas : StartStep(r) \/ Crash(r)

\* A replica that ended is started again, and a statement ends.  So does the wait of
\* db.Migrate for the lock of migrations, the only one of a start for another.
StartupFairness == \A r \in Replicas : WF_startupVars(StartStep(r))

StartupSpec == StartupInit /\ [][StartupNext]_startupVars /\ StartupFairness

Serving == {r \in Replicas : start[r].pc = "serving"}

\* An id of a session is signed with the secret in the memory of its replica,
\* and checked with that of the replica it is shown to (mcp_sessions.go; the
\* cookies of auth.go alike).
Generate(r) == memory[r]["auth_secret"]
Validate(r, id) == id = memory[r]["auth_secret"]

-----------------------------------------------------------------------------
(* Properties *)

StartupTypeOK ==
    /\ project \in Blobs \cup {None}
    /\ builtin \in BOOLEAN /\ admin \in BOOLEAN /\ ignored \in BOOLEAN
    /\ setting \in [Names -> Nat \cup {None}]
    /\ start \in [Replicas -> StartLocals]
    /\ memory \in [Replicas -> [Names -> Nat \cup {None}]]
    /\ minted \in Nat /\ startFaults \in 0..MaxStartFaults

\* Once every replica serves, the default project has an API key and (unless the
\* failure to write them was ignored) every builtin rule, and there is an
\* administrator, wherever a start ended half way and whichever of two starts
\* overwrote the blob of the other: "unique constraints keep them right".
StartsWhole ==
    Serving = Replicas =>
        /\ project # None /\ project.keys # "nil"
        /\ builtin \/ ignored
        /\ admin

\* The same of its ClickHouse.  It does not hold: a start that read the projects
\* before another added ClickHouse saves them as they were, and both serve.
ClickhouseKept == Serving = Replicas => project.clickhouse

\* A replica that starts comes to serve, however often it loses a row to another
\* and exits: "at the cost of one crash-restart".
EventuallyServing ==
    \A r \in Replicas : start[r].pc = "migrate" ~> start[r].pc = "serving"

\* "Any Coroot replica accepts the session ids any other made (they share the
\* auth secret)": it does not hold.  A replica that read no secret before
\* another inserted its own replaces it by its UPDATE, and the other goes on
\* signing with the secret it has in memory.
AnyReplicaAccepts == \A r1, r2 \in Serving : Validate(r2, Generate(r1))
==============================================================================
