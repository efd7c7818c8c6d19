--------------------------- MODULE StartupProofs ---------------------------
(***************************************************************************)
(* Proofs about Startup for any number of replicas and faults: whatever a  *)
(* start could not finish, or another overwrote, is finished by the time   *)
(* every replica serves.                                                   *)
(*                                                                         *)
(* The argument is the same for each thing a start writes: while it is     *)
(* missing, some replica has not passed the step that writes it.           *)
(***************************************************************************)
EXTENDS Startup, TLAPS

USE CommonAssumption, StartupAssumption

\* Past InsertProject, where the project is known to be there.
HasProject == {"keys", "rules", "clickhouse", "projects", "save", "get", "update", "put",
               "select", "add", "serving"}

\* Past SaveProjects.
Saved == {"get", "update", "put", "select", "add", "serving"}

\* What a replica has at each of its steps.
Has ==
    \A r \in Replicas :
        /\ start[r].pc \in HasProject => project # None
        /\ start[r].pc \in {"get", "update", "put"} => start[r].name \in Names
        /\ start[r].pc \in {"update", "put"} => start[r].value \in Nat
        /\ start[r].pc = "keys" => start[r].copy.keys = "random"
        /\ start[r].pc = "serving" => admin

\* A project without a key is one that some replica has not passed yet.
KeysToCome ==
    project # None => project.keys # "nil" \/ \E r \in Replicas : start[r].pc \notin Saved

\* A project without rules is one whose creator is still at it, or has ended and
\* will find it.
RulesToCome ==
    project # None => \/ builtin \/ ignored
                      \/ \E r \in Replicas : start[r].pc \in {"keys", "rules", "down", "migrate"}

IInv == StartupTypeOK /\ Has /\ KeysToCome /\ RulesToCome

-----------------------------------------------------------------------------
(* The records *)

LEMMA BlankType == Blank \in Blobs /\ Blank # None
<1>1. Blank \in Blobs
  BY DEF Blank, Blobs
<1> QED BY <1>1

\* A replica that goes on with nothing in its hands.
LEMMA AtType ==
  ASSUME NEW pc \in {"down", "migrate", "default", "insert", "keys", "rules", "clickhouse",
                     "projects", "save", "get", "update", "put", "select", "add", "serving"}
  PROVE  At(pc) \in StartLocals /\ At(pc).pc = pc
  BY BlankType DEF At, StartLocals

\* A replica with the blob, or the setting, it works on.
LEMMA CopyType ==
  ASSUME NEW x \in StartLocals, NEW b \in Blobs
  PROVE  [x EXCEPT !.copy = b] \in StartLocals /\ [x EXCEPT !.copy = b].pc = x.pc
         /\ [x EXCEPT !.copy = b].copy = b
  BY DEF StartLocals

LEMMA NameType ==
  ASSUME NEW x \in StartLocals, NEW n \in Names
  PROVE  [x EXCEPT !.name = n] \in StartLocals /\ [x EXCEPT !.name = n].pc = x.pc
         /\ [x EXCEPT !.name = n].name = n
  BY DEF StartLocals

LEMMA PcType ==
  ASSUME NEW x \in StartLocals,
         NEW pc \in {"rules", "clickhouse", "update", "put"}
  PROVE  [x EXCEPT !.pc = pc] \in StartLocals /\ [x EXCEPT !.pc = pc].pc = pc
         /\ [x EXCEPT !.pc = pc].name = x.name /\ [x EXCEPT !.pc = pc].value = x.value
         /\ [x EXCEPT !.pc = pc].copy = x.copy
  BY DEF StartLocals

\* What the blob becomes when it is given keys, or a ClickHouse.
LEMMA BlobType ==
  ASSUME NEW b \in Blobs, NEW k \in {"nil", "id", "random"}
  PROVE  /\ [b EXCEPT !.keys = k] \in Blobs /\ [b EXCEPT !.keys = k].keys = k
         /\ [b EXCEPT !.clickhouse = TRUE] \in Blobs
         /\ [b EXCEPT !.clickhouse = TRUE].keys = b.keys
  BY DEF Blobs

-----------------------------------------------------------------------------
(* The inductive invariant *)

LEMMA InitIInv == StartupInit => IInv
<1> SUFFICES ASSUME StartupInit PROVE IInv
  OBVIOUS
<1>1. \A r \in Replicas : start[r] \in StartLocals /\ start[r].pc = "down"
  BY AtType DEF StartupInit, Down
<1>2. StartupTypeOK
  <2>1. start \in [Replicas -> StartLocals]
    BY <1>1 DEF StartupInit
  <2>2. setting \in [Names -> Nat \cup {None}] /\ memory \in [Replicas -> [Names -> Nat \cup {None}]]
    BY DEF StartupInit, Unset
  <2>3. builtin \in BOOLEAN /\ admin \in BOOLEAN /\ ignored \in BOOLEAN
    BY DEF StartupInit
  <2>4. project \in Blobs \cup {None} /\ minted \in Nat /\ startFaults \in 0..MaxStartFaults
    BY DEF StartupInit
  <2> QED BY <2>1, <2>2, <2>3, <2>4 DEF StartupTypeOK
<1> QED BY <1>1, <1>2 DEF StartupInit, IInv, Has, KeysToCome, RulesToCome, HasProject

\* A step of r that leaves the tables alone and ends where it needs no more than it
\* has keeps the invariant.
LEMMA Moves ==
  ASSUME IInv, NEW r \in Replicas, NEW s \in StartLocals, Goes(r, s),
         UNCHANGED <<project, builtin, admin, ignored>>,
         setting' \in [Names -> Nat \cup {None}],
         memory' \in [Replicas -> [Names -> Nat \cup {None}]],
         minted' \in Nat, startFaults' \in 0..MaxStartFaults,
         s.pc \in HasProject => project # None,
         s.pc \in {"get", "update", "put"} => s.name \in Names,
         s.pc \in {"update", "put"} => s.value \in Nat,
         s.pc = "keys" => s.copy.keys = "random",
         s.pc = "serving" => admin,
         s.pc \in Saved => start[r].pc \in Saved,
         start[r].pc \in {"keys", "rules", "down", "migrate"} =>
             s.pc \in {"keys", "rules", "down", "migrate"}
  PROVE  IInv'
<1> USE DEF IInv
<1>1. start' = [start EXCEPT ![r] = s] /\ start \in [Replicas -> StartLocals]
  BY DEF Goes, StartupTypeOK
<1>2. start' \in [Replicas -> StartLocals]
  BY <1>1
<1>3. \A q \in Replicas : start'[q] = IF q = r THEN s ELSE start[q]
  BY <1>1
<1>4. StartupTypeOK'
  BY <1>2 DEF StartupTypeOK
<1>5. Has'
  BY <1>3 DEF Has
<1>6. KeysToCome' /\ RulesToCome'
  BY <1>3 DEF KeysToCome, RulesToCome
<1> QED BY <1>4, <1>5, <1>6

\* So does the end of a process, before or after a row was lost to another.
LEMMA Exits ==
  ASSUME IInv, NEW r \in Replicas, Exit(r),
         UNCHANGED <<project, builtin, admin, ignored, setting, minted>>,
         startFaults' \in 0..MaxStartFaults
  PROVE  IInv'
<1>1. Down \in StartLocals /\ Down.pc = "down"
  BY AtType DEF Down
<1>2. memory' \in [Replicas -> [Names -> Nat \cup {None}]]
  BY DEF IInv, StartupTypeOK, Exit, Unset
<1>3. setting' \in [Names -> Nat \cup {None}] /\ minted' \in Nat
  BY DEF IInv, StartupTypeOK
<1> QED BY <1>1, <1>2, <1>3, Moves DEF Exit, HasProject, Saved

\* A replica that keeps the value of its setting goes on to the next.
LEMMA Keeping ==
  ASSUME IInv, NEW r \in Replicas, NEW v \in Nat, Keeps(r, v),
         start[r].pc \in {"get", "update", "put"},
         UNCHANGED <<project, builtin, admin, ignored, startFaults>>,
         setting' \in [Names -> Nat \cup {None}], minted' \in Nat
  PROVE  IInv'
<1>1. start[r].name \in Names /\ project # None
  BY DEF IInv, Has, HasProject
<1>2. memory' \in [Replicas -> [Names -> Nat \cup {None}]]
  BY <1>1 DEF IInv, StartupTypeOK, Keeps
<1> DEFINE s == IF start[r].name = "deployment_uuid" THEN [At("get") EXCEPT !.name = "auth_secret"]
                ELSE At("select")
<1>3. At("get") \in StartLocals /\ At("get").pc = "get" /\ At("select") \in StartLocals
      /\ At("select").pc = "select" /\ "auth_secret" \in Names
  BY AtType DEF Names
<1>4. s \in StartLocals /\ s.pc \in {"get", "select"} /\ (s.pc = "get" => s.name \in Names)
  BY <1>3, NameType
<1>5. Goes(r, s)
  BY DEF Keeps
<1>6. startFaults' \in 0..MaxStartFaults
  BY DEF IInv, StartupTypeOK
<1> HIDE DEF s
<1> QED BY <1>1, <1>2, <1>4, <1>5, <1>6, Moves DEF HasProject, Saved

\* A step of r that writes to the project, its rules or the administrator: the
\* new values have to keep what was still to come.
LEMMA Writes ==
  ASSUME IInv, NEW r \in Replicas, NEW s \in StartLocals, Goes(r, s),
         UNCHANGED <<setting, memory, minted>>,
         project' \in Blobs, builtin' \in BOOLEAN, admin' \in BOOLEAN, ignored' \in BOOLEAN,
         startFaults' \in 0..MaxStartFaults, admin => admin',
         s.pc \in {"keys", "rules", "default", "clickhouse", "projects", "get", "serving"},
         s.pc = "get" => s.name \in Names,
         s.pc = "keys" => s.copy.keys = "random",
         s.pc = "serving" => admin',
         project'.keys # "nil" \/ s.pc \notin Saved \/ (project' = project /\ start[r].pc \in Saved),
         \/ builtin' \/ ignored' \/ s.pc \in {"keys", "rules"}
         \/ /\ project # None /\ builtin' = builtin /\ ignored' = ignored
            /\ start[r].pc \notin {"keys", "rules", "down", "migrate"}
  PROVE  IInv'
<1> USE DEF IInv
<1>1. start' = [start EXCEPT ![r] = s] /\ start \in [Replicas -> StartLocals]
  BY DEF Goes, StartupTypeOK
<1>2. start' \in [Replicas -> StartLocals]
  BY <1>1
<1>3. \A q \in Replicas : start'[q] = IF q = r THEN s ELSE start[q]
  BY <1>1
<1>4. StartupTypeOK'
  BY <1>2 DEF StartupTypeOK
<1>5. Has'
  BY <1>3 DEF Has
<1>6. KeysToCome'
  BY <1>3 DEF KeysToCome
<1>7. RulesToCome'
  BY <1>3 DEF RulesToCome
<1> QED BY <1>4, <1>5, <1>6, <1>7

LEMMA NextIInv == IInv /\ [StartupNext]_startupVars => IInv'
<1> SUFFICES ASSUME IInv, [StartupNext]_startupVars PROVE IInv'
  OBVIOUS
<1> USE DEF startTables, startRest
<1>t. /\ setting \in [Names -> Nat \cup {None}]
      /\ memory \in [Replicas -> [Names -> Nat \cup {None}]]
      /\ minted \in Nat /\ startFaults \in 0..MaxStartFaults
      /\ project \in Blobs \cup {None}
  BY DEF IInv, StartupTypeOK
<1>b. builtin \in BOOLEAN /\ admin \in BOOLEAN /\ ignored \in BOOLEAN
  BY DEF IInv, StartupTypeOK
<1>1. CASE UNCHANGED startupVars
  BY <1>1 DEF startupVars, IInv, StartupTypeOK, Has, KeysToCome, RulesToCome
<1>2. ASSUME NEW r \in Replicas, StartStep(r) \/ Crash(r) PROVE IInv'
  <2>r. start[r] \in StartLocals /\ start[r].copy \in Blobs
    BY DEF IInv, StartupTypeOK, StartLocals
  <2>h. /\ start[r].pc \in HasProject => project \in Blobs
        /\ start[r].pc \in {"get", "update", "put"} => start[r].name \in Names
        /\ start[r].pc \in {"update", "put"} => start[r].value \in Nat
        /\ start[r].pc = "keys" => start[r].copy.keys = "random"
    BY <1>t DEF IInv, Has
  <2>1. CASE StartAgain(r)
    <3>1. At("migrate") \in StartLocals /\ At("migrate").pc = "migrate"
      BY AtType
    <3>2. start[r].pc = "down" /\ Goes(r, At("migrate")) /\ UNCHANGED <<startTables, memory, startRest>>
      BY <2>1 DEF StartAgain
    <3> QED BY <3>1, <3>2, <1>t, Moves DEF HasProject, Saved
  <2>2. CASE MigrateDatabase(r)
    <3>1. At("default") \in StartLocals /\ At("default").pc = "default"
      BY AtType
    <3>2. Goes(r, At("default")) /\ UNCHANGED <<project, setting, admin, memory, minted>>
      BY <2>2 DEF MigrateDatabase
    <3>3. CASE project = None
      <4>1. UNCHANGED <<startFaults, ignored, builtin>>
        BY <2>2, <3>3, <1>b DEF MigrateDatabase
      <4>2. start' = [start EXCEPT ![r] = At("default")] /\ start \in [Replicas -> StartLocals]
        BY <3>2 DEF Goes, IInv, StartupTypeOK
      <4>3. StartupTypeOK'
        BY <3>1, <3>2, <4>1, <4>2 DEF IInv, StartupTypeOK
      <4>4. Has'
        BY <3>1, <3>2, <4>1, <4>2 DEF IInv, Has, HasProject
      <4> QED BY <3>2, <3>3, <4>3, <4>4 DEF IInv, KeysToCome, RulesToCome
    <3>4. CASE project # None
      <4>1. builtin' \/ ignored'
        BY <2>2, <3>4 DEF MigrateDatabase
      <4>2. builtin' \in BOOLEAN /\ ignored' \in BOOLEAN
        BY <2>2, <1>b DEF MigrateDatabase
      <4>3. startFaults' \in 0..MaxStartFaults
        BY <2>2, <1>t DEF MigrateDatabase
      <4> QED BY <3>1, <3>2, <3>4, <4>1, <4>2, <4>3, <1>t, <1>b, Writes DEF Saved
    <3> QED BY <3>3, <3>4
  <2>3. CASE ReadDefault(r)
    <3>1. CASE project = None
      <4>1. At("insert") \in StartLocals /\ At("insert").pc = "insert"
        BY AtType
      <4>2. start[r].pc = "default" /\ Goes(r, At("insert")) /\ UNCHANGED <<startTables, memory, startRest>>
        BY <2>3, <3>1 DEF ReadDefault
      <4> QED BY <4>1, <4>2, <1>t, Moves DEF HasProject, Saved
    <3>2. CASE project # None
      <4> DEFINE s == [At("clickhouse") EXCEPT !.copy = project]
      <4>1. s \in StartLocals /\ s.pc = "clickhouse"
        BY <1>t, <3>2, AtType, CopyType
      <4>2. start[r].pc = "default" /\ Goes(r, s) /\ UNCHANGED <<startTables, memory, startRest>>
        BY <2>3, <3>2 DEF ReadDefault
      <4> HIDE DEF s
      <4> QED BY <4>1, <4>2, <3>2, <1>t, Moves DEF Saved
    <3> QED BY <3>1, <3>2
  <2>4. CASE InsertProject(r)
    <3>1. CASE project = None
      <4> DEFINE c == [Blank EXCEPT !.keys = "random"]
                 s == [At("keys") EXCEPT !.copy = c]
      <4>1. c \in Blobs /\ c.keys = "random"
        BY BlankType, BlobType
      <4>2. s \in StartLocals /\ s.pc = "keys" /\ s.copy = c
        BY <4>1, AtType, CopyType
      <4>3. /\ project' = Blank /\ Goes(r, s)
            /\ UNCHANGED <<builtin, setting, admin, memory, startRest>>
        BY <2>4, <3>1 DEF InsertProject
      <4> HIDE DEF s, c
      <4> QED BY <4>1, <4>2, <4>3, <1>t, <1>b, BlankType, Writes DEF Saved
    <3>2. CASE project # None
      BY <2>4, <3>2, <1>t, Exits DEF InsertProject
    <3> QED BY <3>1, <3>2
  <2>5. CASE SaveKeys(r)
    <3> DEFINE s == [start[r] EXCEPT !.pc = "rules"]
    <3>1. s \in StartLocals /\ s.pc = "rules"
      BY <2>r, PcType
    <3>2. /\ project' = start[r].copy /\ Goes(r, s) /\ start[r].pc = "keys"
          /\ UNCHANGED <<builtin, setting, admin, memory, startRest>>
      BY <2>5 DEF SaveKeys
    <3> HIDE DEF s
    <3> QED BY <3>1, <3>2, <2>r, <1>t, <1>b, Writes DEF Saved
  <2>6. CASE InitBuiltinAlertingRules(r)
    <3> DEFINE s == [start[r] EXCEPT !.pc = "clickhouse"]
    <3>1. s \in StartLocals /\ s.pc = "clickhouse"
      BY <2>r, PcType
    <3>2. /\ builtin' = TRUE /\ Goes(r, s) /\ start[r].pc = "rules"
          /\ UNCHANGED <<project, setting, admin, memory, startRest>>
      BY <2>6 DEF InitBuiltinAlertingRules
    <3>3. project' \in Blobs
      BY <3>2, <2>h DEF HasProject
    <3>4. builtin' \in BOOLEAN
      BY <3>2
    <3> HIDE DEF s
    <3> QED BY <3>1, <3>2, <3>3, <3>4, <1>t, <1>b, Writes DEF Saved
  <2>7. CASE SaveClickhouse(r)
    <3>1. At("projects") \in StartLocals /\ At("projects").pc = "projects"
      BY AtType
    <3>2. /\ Goes(r, At("projects")) /\ start[r].pc = "clickhouse"
          /\ UNCHANGED <<builtin, setting, admin, memory, startRest>>
      BY <2>7 DEF SaveClickhouse
    <3>3. project \in Blobs
      BY <3>2, <2>h DEF HasProject
    <3>4. project' \in Blobs
      BY <2>7, <2>r, <3>3, BlobType DEF SaveClickhouse
    <3>5. project # None
      BY <3>3
    <3> QED BY <3>1, <3>2, <3>4, <3>5, <1>t, <1>b, Writes DEF Saved
  <2>8. CASE GetProjects(r)
    <3> DEFINE s == [At("save") EXCEPT !.copy = project]
    <3>1. start[r].pc = "projects" /\ Goes(r, s) /\ UNCHANGED <<startTables, memory, startRest>>
      BY <2>8 DEF GetProjects
    <3>2. project \in Blobs
      BY <3>1, <2>h DEF HasProject
    <3>3. s \in StartLocals /\ s.pc = "save"
      BY <3>2, AtType, CopyType
    <3>4. project # None
      BY <3>2
    <3> HIDE DEF s
    <3> QED BY <3>1, <3>3, <3>4, <1>t, Moves DEF Saved
  <2>9. CASE SaveProjects(r)
    <3> DEFINE s == [At("get") EXCEPT !.name = "deployment_uuid"]
    <3>1. s \in StartLocals /\ s.pc = "get" /\ s.name \in Names
      BY AtType, NameType, ZenonT(60) DEF Names
    <3>2. /\ Goes(r, s) /\ start[r].pc = "save"
          /\ UNCHANGED <<builtin, setting, admin, memory, startRest>>
      BY <2>9 DEF SaveProjects
    <3>3. project' \in Blobs /\ project'.keys # "nil"
      BY <2>9, <2>r, BlobType DEF SaveProjects
    <3>4. project # None
      BY <3>2, <2>h DEF HasProject
    <3> HIDE DEF s
    <3> QED BY <3>1, <3>2, <3>3, <3>4, <1>t, <1>b, Writes
  <2>10. CASE GetSetting(r)
    <3>1. /\ start[r].pc = "get"
          /\ UNCHANGED <<startTables, startFaults, ignored>>
      BY <2>10 DEF GetSetting
    <3>n. start[r].name \in Names /\ project # None
      BY <3>1, <2>h DEF HasProject
    <3>2. CASE setting[start[r].name] # None
      <4>1. Keeps(r, setting[start[r].name]) /\ minted' = minted
        BY <2>10, <3>2 DEF GetSetting
      <4>2. setting[start[r].name] \in Nat
        BY <3>2, <3>n, <1>t
      <4> QED BY <3>1, <4>1, <4>2, <1>t, Keeping
    <3>3. CASE setting[start[r].name] = None
      <4> DEFINE v == minted + 1
                 s == [start[r] EXCEPT !.pc = "update", !.value = v]
      <4>1. minted' = v /\ Goes(r, s) /\ UNCHANGED memory /\ v \in Nat
        BY <2>10, <3>3, <1>t DEF GetSetting
      <4>2. s \in StartLocals /\ s.pc = "update" /\ s.name = start[r].name /\ s.value = v
        BY <4>1, <2>r DEF StartLocals
      <4> HIDE DEF s, v
      <4> QED BY <3>1, <3>n, <4>1, <4>2, <1>t, Moves DEF Saved
    <3> QED BY <3>2, <3>3
  <2>11. CASE UpdateSetting(r)
    <3>1. /\ start[r].pc = "update"
          /\ UNCHANGED <<project, builtin, admin, startRest>>
      BY <2>11 DEF UpdateSetting
    <3>n. start[r].name \in Names /\ project # None /\ start[r].value \in Nat
      BY <3>1, <2>h DEF HasProject
    <3>2. CASE setting[start[r].name] # None
      <4>1. /\ Keeps(r, start[r].value)
            /\ setting' = [setting EXCEPT ![start[r].name] = start[r].value]
        BY <2>11, <3>2 DEF UpdateSetting
      <4>2. setting' \in [Names -> Nat \cup {None}]
        BY <4>1, <3>n, <1>t
      <4> QED BY <3>1, <3>n, <4>1, <4>2, <1>t, Keeping
    <3>3. CASE setting[start[r].name] = None
      <4> DEFINE s == [start[r] EXCEPT !.pc = "put"]
      <4>1. Goes(r, s) /\ UNCHANGED <<setting, memory>>
        BY <2>11, <3>3 DEF UpdateSetting
      <4>2. s \in StartLocals /\ s.pc = "put" /\ s.name = start[r].name /\ s.value = start[r].value
        BY <2>r, PcType
      <4> HIDE DEF s
      <4> QED BY <3>1, <3>n, <4>1, <4>2, <1>t, Moves DEF Saved
    <3> QED BY <3>2, <3>3
  <2>12. CASE InsertSetting(r)
    <3>1. /\ start[r].pc = "put"
          /\ UNCHANGED <<project, builtin, admin, startRest>>
      BY <2>12 DEF InsertSetting
    <3>n. start[r].name \in Names /\ start[r].value \in Nat
      BY <3>1, <2>h
    <3>2. CASE setting[start[r].name] = None
      <4>1. /\ Keeps(r, start[r].value)
            /\ setting' = [setting EXCEPT ![start[r].name] = start[r].value]
        BY <2>12, <3>2 DEF InsertSetting
      <4>2. setting' \in [Names -> Nat \cup {None}]
        BY <4>1, <3>n, <1>t
      <4> QED BY <3>1, <3>n, <4>1, <4>2, <1>t, Keeping
    <3>3. CASE setting[start[r].name] # None
      <4>1. Exit(r) /\ UNCHANGED setting
        BY <2>12, <3>3 DEF InsertSetting
      <4> QED BY <3>1, <4>1, <1>t, Exits
    <3> QED BY <3>2, <3>3
  <2>13. CASE SelectAdmin(r)
    <3> DEFINE pc == IF admin THEN "serving" ELSE "add"
    <3>1. start[r].pc = "select" /\ Goes(r, At(pc)) /\ UNCHANGED <<startTables, memory, startRest>>
      BY <2>13 DEF SelectAdmin
    <3>2. At(pc) \in StartLocals /\ At(pc).pc = pc
      BY AtType
    <3>3. pc \in {"serving", "add"} /\ (pc = "serving" => admin)
      OBVIOUS
    <3>4. project # None
      BY <3>1, <2>h DEF HasProject
    <3> HIDE DEF pc
    <3> QED BY <3>1, <3>2, <3>3, <3>4, <1>t, Moves DEF Saved
  <2>14. CASE AddAdmin(r)
    <3>1. start[r].pc = "add" /\ UNCHANGED <<project, builtin, setting, startRest>>
      BY <2>14 DEF AddAdmin
    <3>2. CASE admin
      <4>1. Exit(r) /\ UNCHANGED admin
        BY <2>14, <3>2 DEF AddAdmin
      <4> QED BY <3>1, <4>1, <1>t, Exits
    <3>3. CASE ~admin
      <4>1. admin' = TRUE /\ Goes(r, At("serving")) /\ UNCHANGED memory
        BY <2>14, <3>3 DEF AddAdmin
      <4>2. At("serving") \in StartLocals /\ At("serving").pc = "serving"
        BY AtType
      <4>3. project \in Blobs /\ project # None
        BY <3>1, <2>h DEF HasProject
      <4>4. admin' \in BOOLEAN
        BY <4>1
      <4> QED BY <3>1, <4>1, <4>2, <4>3, <4>4, <1>t, <1>b, Writes DEF Saved
    <3> QED BY <3>2, <3>3
  <2>15. CASE Crash(r)
    <3>1. startFaults' \in 0..MaxStartFaults
      BY <2>15, <1>t DEF Crash
    <3> QED BY <2>15, <3>1, <1>t, Exits DEF Crash
  <2> QED BY <1>2, <2>1, <2>2, <2>3, <2>4, <2>5, <2>6, <2>7, <2>8, <2>9, <2>10, <2>11, <2>12,
             <2>13, <2>14, <2>15 DEF StartStep
<1> QED BY <1>1, <1>2 DEF StartupNext

\* Whatever a start is at, its tables and memory keep their types, and what the
\* project still lacks is what a replica has still to write.
THEOREM StartupInvariance == StartupSpec => []IInv
  BY InitIInv, NextIInv, PTL DEF StartupSpec

-----------------------------------------------------------------------------
\* Once every replica serves, the project has a key and its builtin rules (or a
\* failure to write them was ignored), and there is an administrator: for any
\* number of replicas that start at once, lose rows to each other and crash.
THEOREM StartsWholeSafety == StartupSpec => []StartsWhole
<1>1. IInv => StartsWhole
  <2>1. ASSUME IInv, Serving = Replicas
        PROVE  project # None /\ project.keys # "nil" /\ (builtin \/ ignored) /\ admin
    <3>1. \A r \in Replicas : start[r].pc = "serving"
      BY <2>1 DEF Serving
    <3>2. project # None /\ admin
      BY <2>1, <3>1 DEF IInv, Has, HasProject
    <3> QED BY <2>1, <3>1, <3>2 DEF IInv, KeysToCome, RulesToCome, Saved
  <2> QED BY <2>1 DEF StartsWhole
<1> QED BY <1>1, StartupInvariance, PTL
=============================================================================
