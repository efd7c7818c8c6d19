-------------------------- MODULE CollectorProofs --------------------------
(***************************************************************************)
(* Proofs about Collector and Traces for any number of replicas,           *)
(* ClickHouses, requests, moves and faults: a replica that was not caught  *)
(* in the middle of something when the settings changed has no client and  *)
(* no migration of others; and a request is counted once, its body kept.   *)
(***************************************************************************)
EXTENDS Collector, Traces, FiniteSetTheorems, TLAPS

USE CommonAssumption, CollectorAssumption

Updates == [pc : {"idle", "read", "set", "client", "done", "delete"},
            read : Settings, saved : Settings]
Writers == [pc : {"idle", "ready", "client", "dial", "do"}, db : Settings]

\* What a goroutine of r goes on with are the settings r has loaded.
Current(r) ==
    /\ listed[r] \in {None, projects[r]}
    /\ \A m \in Loops : m[1] = r => under[m] \in {None, projects[r]}
    /\ write[r].pc \in {"ready", "client", "dial"} => write[r].db = projects[r]

\* A setProjects of r has changed the settings and is about to do one of pcs.
Dropping(r, pcs) == \E u \in Updaters : u[1] = r /\ upd[u].pc \in pcs

\* An old client is one that a setProjects will drop, and so is an old migration.
ClientFollows(r) == client[r] \in {None, projects[r]} \/ Dropping(r, {"client"})
DoneFollows(r) ==
    \/ ~done[r] \/ projects[r] = None \/ projects[r] \in tables
    \/ Dropping(r, {"client", "done"})

Keeps(r) == ~behind[r] => Current(r) /\ ClientFollows(r) /\ DoneFollows(r)

IInv == CollectorTypeOK /\ \A r \in Collectors : Keeps(r)

\* Nothing of r has changed, and no tables are lost.
SameAt(r) ==
    /\ projects'[r] = projects[r] /\ done'[r] = done[r] /\ client'[r] = client[r]
    /\ listed'[r] = listed[r] /\ write'[r] = write[r] /\ behind'[r] = behind[r]
    /\ \A u \in Updaters : u[1] = r => upd'[u] = upd[u]
    /\ \A m \in Loops : m[1] = r => under'[m] = under[m]
    /\ tables \subseteq tables'

LEMMA SameKeeps ==
  ASSUME NEW r \in Collectors, Keeps(r), SameAt(r)
  PROVE  Keeps(r)'
  BY DEF Keeps, SameAt, Current, ClientFollows, DoneFollows, Dropping

\* The types of the records the steps make.
LEMMA Records ==
  ASSUME NEW c \in Settings
  PROVE  /\ NoUpdate \in Updates /\ NoWrite \in Writers /\ None \in Settings
         /\ \A u \in Updaters : Updated(u) \in {"delete", "idle"}
         /\ [pc |-> "read", read |-> None, saved |-> c] \in Updates
         /\ [pc |-> "ready", db |-> c] \in Writers /\ [pc |-> "do", db |-> c] \in Writers
  BY DEF NoUpdate, NoWrite, Updates, Writers, Settings, Updated

LEMMA UpdateType ==
  ASSUME NEW x \in Updates, NEW p \in {"idle", "read", "set", "client", "done", "delete"}
  PROVE  [x EXCEPT !.pc = p] \in Updates /\ [x EXCEPT !.pc = p].pc = p
  BY DEF Updates

LEMMA ReadType ==
  ASSUME NEW x \in Updates, NEW c \in Settings
  PROVE  /\ [x EXCEPT !.pc = "set", !.read = c] \in Updates
         /\ [x EXCEPT !.pc = "set", !.read = c].pc = "set"
  BY DEF Updates

LEMMA WriterType ==
  ASSUME NEW x \in Writers, NEW pc \in {"idle", "ready", "client", "dial", "do"}
  PROVE  /\ [x EXCEPT !.pc = pc] \in Writers /\ [x EXCEPT !.pc = pc].pc = pc
         /\ [x EXCEPT !.pc = pc].db = x.db
  BY DEF Writers

LEMMA InitIInv == CollectorInit => IInv
<1> SUFFICES ASSUME CollectorInit PROVE IInv
  OBVIOUS
<1>1. NoUpdate \in Updates /\ NoWrite \in Writers /\ None \in Settings
  BY Records DEF Settings
<1>2. CollectorTypeOK
  <2>1. done \in [Collectors -> BOOLEAN] /\ behind \in [Collectors -> BOOLEAN]
    BY DEF CollectorInit
  <2> QED BY <1>1, <2>1 DEF CollectorInit, CollectorTypeOK, Updates, Writers
<1>3. ASSUME NEW r \in Collectors PROVE Keeps(r)
  BY DEF CollectorInit, Keeps, Current, ClientFollows, DoneFollows, NoWrite
<1> QED BY <1>2, <1>3 DEF IInv

-----------------------------------------------------------------------------
(* The steps *)

\* The rest of the type invariant, which is the same for every step.
Rest ==
    /\ config' \in Settings /\ tables' \in SUBSET Databases
    /\ moves' \in Nat /\ errors' \in Nat

\* A step of an updateProjects that has dropped nothing yet, and drops nothing.
LEMMA Updates1 ==
  ASSUME IInv, NEW u \in Updaters, NEW x \in Updates,
         upd[u].pc \notin {"client", "done"}, x.pc \notin {"client", "done"},
         upd' = [upd EXCEPT ![u] = x], Rest,
         UNCHANGED <<tables, projects, done, client, listed, under, write, behind>>
  PROVE  IInv'
<1>1. upd \in [Updaters -> Updates]
  BY DEF IInv, CollectorTypeOK, Updates
<1>2. upd' \in [Updaters -> Updates]
  BY <1>1
<1>3. CollectorTypeOK'
  BY <1>2 DEF IInv, CollectorTypeOK, Updates, Rest
<1>4. \A v \in Updaters : upd'[v] = IF v = u THEN x ELSE upd[v]
  BY <1>1
<1>5. ASSUME NEW r \in Collectors PROVE Keeps(r)'
  <2>1. Keeps(r)
    BY DEF IInv
  <2>2. Dropping(r, {"client"})' <=> Dropping(r, {"client"})
    BY <1>4 DEF Dropping
  <2>3. Dropping(r, {"client", "done"})' <=> Dropping(r, {"client", "done"})
    BY <1>4 DEF Dropping
  <2> QED BY <2>1, <2>2, <2>3 DEF Keeps, Current, ClientFollows, DoneFollows
<1> QED BY <1>3, <1>5 DEF IInv

\* setProjects takes the settings that were read: if they changed, whatever is in
\* use of the old ones marks the replica as behind.
LEMMA SetIInv ==
  ASSUME IInv, NEW u \in Updaters, SetProjects(u)
  PROVE  IInv'
<1> DEFINE r == u[1]
           changed == projects[r] # upd[u].read
           pc == IF changed THEN "client" ELSE Updated(u)
           x == [upd[u] EXCEPT !.pc = pc]
<1>1. upd \in [Updaters -> Updates] /\ r \in Collectors
  BY DEF IInv, CollectorTypeOK, Updates, Updaters
<1>2. upd[u] \in Updates /\ upd[u].read \in Settings /\ upd[u].pc = "set"
  BY <1>1 DEF SetProjects, Updates
<1>3. pc \in {"client", "delete", "idle"}
  BY DEF Updated
<1> HIDE DEF pc
<1>4. x \in Updates /\ x.pc = pc
  BY <1>2, <1>3 DEF Updates
<1>5. /\ projects' = [projects EXCEPT ![r] = upd[u].read]
      /\ behind' = [behind EXCEPT ![r] = IF changed THEN UnderWay(r, upd[u].read) ELSE behind[r]]
      /\ upd' = [upd EXCEPT ![u] = x]
      /\ UNCHANGED <<config, tables, done, client, listed, under, write, moves, errors>>
  BY DEF SetProjects, pc
<1>b. UnderWay(r, upd[u].read) \in BOOLEAN /\ behind \in [Collectors -> BOOLEAN]
  BY DEF UnderWay, IInv, CollectorTypeOK
<1> HIDE DEF x
<1>6. behind' \in [Collectors -> BOOLEAN]
  BY <1>1, <1>5, <1>b
<1>7. upd' \in [Updaters -> Updates] /\ projects' \in [Collectors -> Settings]
  BY <1>1, <1>2, <1>4, <1>5 DEF IInv, CollectorTypeOK
<1>8. CollectorTypeOK'
  BY <1>5, <1>6, <1>7 DEF IInv, CollectorTypeOK, Updates
<1>9. \A v \in Updaters : upd'[v] = IF v = u THEN x ELSE upd[v]
  BY <1>1, <1>5
<1>10. ASSUME NEW q \in Collectors, q # r PROVE Keeps(q)'
  <2>1. SameAt(q)
    BY <1>5, <1>9, <1>10 DEF SameAt, IInv, CollectorTypeOK
  <2> QED BY <2>1, SameKeeps DEF IInv
<1>11. Keeps(r)'
  <2>1. CASE changed
    <3>1. projects'[r] = upd[u].read /\ (behind'[r] <=> UnderWay(r, upd[u].read))
      BY <2>1, <1>1, <1>5, <1>b DEF IInv, CollectorTypeOK
    <3>2. upd'[u].pc = "client"
      BY <2>1, <1>4, <1>9 DEF pc
    <3>3. Dropping(r, {"client"})' /\ Dropping(r, {"client", "done"})'
      BY <3>2 DEF Dropping
    <3>4. ~behind'[r] => Current(r)'
      BY <3>1, <1>5 DEF UnderWay, Current
    <3> QED BY <3>3, <3>4 DEF Keeps, ClientFollows, DoneFollows
  <2>2. CASE ~changed
    <3>1. projects'[r] = projects[r] /\ (behind'[r] <=> behind[r])
      BY <2>2, <1>1, <1>5, <1>b DEF IInv, CollectorTypeOK
    <3>2. upd'[u].pc \notin {"client", "done"}
      BY <2>2, <1>4, <1>9 DEF pc, Updated
    <3>3. Dropping(r, {"client"})' <=> Dropping(r, {"client"})
      BY <3>2, <1>2, <1>9 DEF Dropping
    <3>4. Dropping(r, {"client", "done"})' <=> Dropping(r, {"client", "done"})
      BY <3>2, <1>2, <1>9 DEF Dropping
    <3>5. Keeps(r)
      BY <1>1 DEF IInv
    <3> QED BY <3>1, <3>3, <3>4, <3>5, <1>5 DEF Keeps, Current, ClientFollows, DoneFollows
  <2> QED BY <2>1, <2>2
<1> QED BY <1>8, <1>10, <1>11 DEF IInv

\* A step of replica r keeps the invariant if it keeps that of r and touches
\* nothing of another replica.
LEMMA StepOf ==
  ASSUME IInv, NEW r \in Collectors, CollectorTypeOK', Keeps(r) => Keeps(r)',
         \A q \in Collectors : q # r => SameAt(q)
  PROVE  IInv'
<1>1. ASSUME NEW q \in Collectors PROVE Keeps(q)'
  <2>1. Keeps(q)
    BY DEF IInv
  <2> QED BY <2>1, SameKeeps
<1> QED BY <1>1 DEF IInv

LEMMA DropClientIInv ==
  ASSUME IInv, NEW u \in Updaters, DropClient(u)
  PROVE  IInv'
<1> DEFINE r == u[1]
           x == [upd[u] EXCEPT !.pc = "done"]
<1>1. upd \in [Updaters -> Updates] /\ r \in Collectors /\ None \in Settings
  BY DEF IInv, CollectorTypeOK, Updates, Updaters, Settings
<1>2. /\ client' = [client EXCEPT ![r] = None] /\ upd' = [upd EXCEPT ![u] = x]
      /\ UNCHANGED <<config, tables, projects, done, listed, under, write, behind, moves, errors>>
      /\ upd[u].pc = "client"
  BY DEF DropClient
<1>3. x \in Updates /\ x.pc = "done"
  BY <1>1 DEF Updates
<1> HIDE DEF x
<1>4. upd' \in [Updaters -> Updates] /\ client' \in [Collectors -> Settings]
  BY <1>1, <1>2, <1>3 DEF IInv, CollectorTypeOK
<1>5. CollectorTypeOK'
  BY <1>2, <1>4 DEF IInv, CollectorTypeOK, Updates
<1>6. \A v \in Updaters : upd'[v] = IF v = u THEN x ELSE upd[v]
  BY <1>1, <1>2
<1>7. \A q \in Collectors : q # r => SameAt(q)
  BY <1>2, <1>6 DEF SameAt, IInv, CollectorTypeOK
<1>8. Keeps(r) => Keeps(r)'
  <2>1. client'[r] = None
    BY <1>1, <1>2 DEF IInv, CollectorTypeOK
  <2>2. Dropping(r, {"client", "done"})'
    BY <1>3, <1>6 DEF Dropping
  <2> QED BY <2>1, <2>2, <1>2 DEF Keeps, Current, ClientFollows, DoneFollows
<1> QED BY <1>1, <1>5, <1>7, <1>8, StepOf

LEMMA DropDoneIInv ==
  ASSUME IInv, NEW u \in Updaters, DropDone(u)
  PROVE  IInv'
<1> DEFINE r == u[1]
           x == [upd[u] EXCEPT !.pc = Updated(u)]
<1>1. upd \in [Updaters -> Updates] /\ r \in Collectors
  BY DEF IInv, CollectorTypeOK, Updates, Updaters
<1>2. /\ done' = [done EXCEPT ![r] = FALSE] /\ upd' = [upd EXCEPT ![u] = x]
      /\ UNCHANGED <<config, tables, projects, client, listed, under, write, behind, moves, errors>>
      /\ upd[u].pc = "done"
  BY DEF DropDone, Forgotten
<1>3. x \in Updates /\ x.pc \in {"delete", "idle"}
  BY <1>1 DEF Updates, Updated
<1> HIDE DEF x
<1>4. upd' \in [Updaters -> Updates]
  BY <1>1, <1>2, <1>3 DEF IInv, CollectorTypeOK
<1>d. done' \in [Collectors -> BOOLEAN] /\ ~done'[r]
  BY <1>1, <1>2 DEF IInv, CollectorTypeOK
<1>5. CollectorTypeOK'
  BY <1>2, <1>4, <1>d DEF IInv, CollectorTypeOK, Updates
<1>6. \A v \in Updaters : upd'[v] = IF v = u THEN x ELSE upd[v]
  BY <1>1, <1>2
<1>7. \A q \in Collectors : q # r => SameAt(q)
  BY <1>2, <1>6 DEF SameAt, IInv, CollectorTypeOK
<1>8. Keeps(r) => Keeps(r)'
  <2>1. Dropping(r, {"client"})' <=> Dropping(r, {"client"})
    BY <1>2, <1>3, <1>6 DEF Dropping
  <2> QED BY <2>1, <1>2, <1>d DEF Keeps, Current, ClientFollows, DoneFollows
<1> QED BY <1>1, <1>5, <1>7, <1>8, StepOf

\* The request goes on with the settings it saved: others than those loaded mark
\* the replica as behind.
LEMMA RequestIInv ==
  ASSUME IInv, NEW r \in Collectors, RequestMigrates(r)
  PROVE  IInv'
<1> DEFINE u == <<r, "request">>
           c == upd[u].saved
<1>1. upd \in [Updaters -> Updates] /\ u \in Updaters /\ u \in Loops /\ u[1] = r
  BY DEF IInv, CollectorTypeOK, Updates, Updaters, Loops
<1>2. /\ client' = [client EXCEPT ![r] = None] /\ upd' = [upd EXCEPT ![u] = NoUpdate]
      /\ under' = [under EXCEPT ![u] = c]
      /\ UNCHANGED <<config, tables, projects, done, listed, write, moves, errors>>
      /\ upd[u].pc = "delete"
  BY DEF RequestMigrates
<1>b. behind' = [behind EXCEPT ![r] = behind[r] \/ c \notin {None, projects[r]}]
  BY DEF RequestMigrates
<1>3. c \in Settings /\ NoUpdate \in Updates /\ NoUpdate.pc = "idle" /\ None \in Settings
  BY <1>1, Records DEF Updates, NoUpdate, Settings
<1>4. behind' \in [Collectors -> BOOLEAN]
      /\ (behind'[r] <=> (behind[r] \/ c \notin {None, projects[r]}))
  BY <1>b DEF IInv, CollectorTypeOK
<1>o. \A q \in Collectors : q # r => behind'[q] = behind[q]
  BY <1>b DEF IInv, CollectorTypeOK
<1> HIDE DEF u, c
<1>5. /\ upd' \in [Updaters -> Updates] /\ client' \in [Collectors -> Settings]
      /\ under' \in [Loops -> Settings]
  BY <1>1, <1>2, <1>3 DEF IInv, CollectorTypeOK
<1>6. CollectorTypeOK'
  BY <1>2, <1>4, <1>5 DEF IInv, CollectorTypeOK, Updates
<1>7. /\ \A v \in Updaters : upd'[v] = IF v = u THEN NoUpdate ELSE upd[v]
      /\ \A m \in Loops : under'[m] = IF m = u THEN c ELSE under[m]
  BY <1>1, <1>2 DEF IInv, CollectorTypeOK
<1>8. \A q \in Collectors : q # r => SameAt(q)
  BY <1>1, <1>2, <1>o, <1>7 DEF SameAt, IInv, CollectorTypeOK
<1>9. Keeps(r) => Keeps(r)'
  <2>1. client'[r] = None
    BY <1>2 DEF IInv, CollectorTypeOK
  <2>2. Dropping(r, {"client", "done"})' <=> Dropping(r, {"client", "done"})
    BY <1>2, <1>3, <1>7 DEF Dropping
  <2>3. Keeps(r) /\ ~behind'[r] => Current(r)'
    BY <1>2, <1>4, <1>7 DEF Keeps, Current
  <2>4. Keeps(r) /\ ~behind'[r] => DoneFollows(r)'
    BY <2>2, <1>2, <1>4 DEF Keeps, DoneFollows
  <2> QED BY <2>1, <2>3, <2>4 DEF Keeps, ClientFollows
<1> QED BY <1>6, <1>8, <1>9, StepOf

\* A pass of migrateProjects lists what is loaded, and works on what it listed.
LEMMA LoopIInv ==
  ASSUME IInv, NEW r \in Collectors, LoopLists(r) \/ LoopMigrates(r)
  PROVE  IInv'
<1> DEFINE m == <<r, "loop">>
<1>1. m \in Loops /\ m[1] = r /\ None \in Settings
  BY DEF Loops, Settings
<1>2. UNCHANGED <<config, tables, projects, done, client, upd, write, behind, moves, errors>>
  BY DEF LoopLists, LoopMigrates
<1>3. CASE LoopLists(r)
  <2>1. listed' = [listed EXCEPT ![r] = projects[r]] /\ under' = under
    BY <1>3 DEF LoopLists
  <2>2. CollectorTypeOK'
    BY <1>2, <2>1 DEF IInv, CollectorTypeOK
  <2>3. \A q \in Collectors : q # r => SameAt(q)
    BY <1>2, <2>1 DEF SameAt, IInv, CollectorTypeOK
  <2>4. Keeps(r) => Keeps(r)'
    BY <1>2, <2>1 DEF Keeps, Current, ClientFollows, DoneFollows, Dropping, IInv, CollectorTypeOK
  <2> QED BY <2>2, <2>3, <2>4, StepOf
<1>4. CASE LoopMigrates(r)
  <2>1. listed' = [listed EXCEPT ![r] = None]
        /\ under' = IF done[r] THEN under ELSE [under EXCEPT ![m] = listed[r]]
    BY <1>4 DEF LoopMigrates
  <2> HIDE DEF m
  <2>2. listed' \in [Collectors -> Settings] /\ under' \in [Loops -> Settings]
    BY <1>1, <2>1 DEF IInv, CollectorTypeOK
  <2>3. CollectorTypeOK'
    BY <1>2, <2>2 DEF IInv, CollectorTypeOK
  <2>4. /\ \A q \in Collectors : listed'[q] = IF q = r THEN None ELSE listed[q]
        /\ \A n \in Loops : under'[n] = under[n] \/ (n = m /\ under'[n] = listed[r])
    BY <1>1, <2>1 DEF IInv, CollectorTypeOK
  <2>5. \A q \in Collectors : q # r => SameAt(q)
    BY <1>1, <1>2, <2>4 DEF SameAt
  <2>6. Current(r) => Current(r)'
    BY <1>1, <1>2, <2>4 DEF Current
  <2>7. Keeps(r) => Keeps(r)'
    BY <1>2, <2>6 DEF Keeps, ClientFollows, DoneFollows, Dropping
  <2> QED BY <2>3, <2>5, <2>7, StepOf
<1> QED BY <1>3, <1>4

\* Migrate leaves the tables where it worked, which are those of the settings
\* loaded; when it failed, migrationDone is as it was.
LEMMA MigrateIInv ==
  ASSUME IInv, NEW m \in Loops, MigrateReturns(m)
  PROVE  IInv'
<1> DEFINE r == m[1]
<1>1. r \in Collectors /\ under[m] \in Databases
  <2>1. under \in [Loops -> Settings] /\ under[m] # None
    BY DEF IInv, CollectorTypeOK, MigrateReturns
  <2> QED BY <2>1 DEF Loops, Settings
<1>2. /\ under' = [under EXCEPT ![m] = None]
      /\ UNCHANGED <<config, projects, client, upd, listed, write, behind, moves>>
  BY DEF MigrateReturns
<1>e. errors' \in Nat
  <2>1. errors' = errors \/ errors' = errors + 1
    BY DEF MigrateReturns, Fault
  <2> QED BY <2>1 DEF IInv, CollectorTypeOK
<1>g. tables \subseteq tables'
  BY DEF MigrateReturns
<1>s. tables' \in SUBSET Databases
  <2>1. tables \subseteq Databases
    BY DEF IInv, CollectorTypeOK
  <2> QED BY <1>1, <2>1 DEF MigrateReturns
<1>d. done \in [Collectors -> BOOLEAN]
  BY DEF IInv, CollectorTypeOK
<1>3. done' \in [Collectors -> BOOLEAN]
      /\ \A q \in Collectors : q # r => done'[q] = done[q]
  BY <1>1, <1>d DEF MigrateReturns, DoneAfter
<1>4. under[m] \in tables' \/ done'[r] = done[r]
  BY <1>1, <1>d DEF MigrateReturns, DoneAfter
<1>5. under' \in [Loops -> Settings]
      /\ \A n \in Loops : under'[n] = IF n = m THEN None ELSE under[n]
  BY <1>2 DEF IInv, CollectorTypeOK, Settings
<1>6. CollectorTypeOK'
  BY <1>2, <1>s, <1>3, <1>5, <1>e DEF IInv, CollectorTypeOK
<1>7. \A q \in Collectors : q # r => SameAt(q)
  BY <1>2, <1>3, <1>5, <1>g DEF SameAt
<1>8. Keeps(r) => Keeps(r)'
  <2>1. Current(r) => Current(r)'
    BY <1>2, <1>5 DEF Current
  <2>2. Current(r) => under[m] = projects[r]
    BY <1>1 DEF Current
  <2>3. Current(r) /\ DoneFollows(r) => DoneFollows(r)'
    BY <2>2, <1>2, <1>4, <1>g DEF DoneFollows, Dropping
  <2> QED BY <2>1, <2>3, <1>2 DEF Keeps, ClientFollows, Dropping
<1> QED BY <1>1, <1>6, <1>7, <1>8, StepOf

\* A step of clickhouseDo: it goes on with the settings it took, which are those
\* loaded, and keeps no client but one of these.
LEMMA WriteStep ==
  ASSUME IInv, NEW r \in Collectors, NEW w \in Writers, NEW c \in Settings,
         write' = [write EXCEPT ![r] = w], client' = [client EXCEPT ![r] = c], errors' \in Nat,
         UNCHANGED <<config, tables, projects, done, upd, listed, under, behind, moves>>,
         w.pc \in {"ready", "client", "dial"} =>
             \/ w.db = projects[r]
             \/ write[r].pc \in {"ready", "client", "dial"} /\ w.db = write[r].db,
         c \in {None, client[r]} \/ (write[r].pc = "dial" /\ c = write[r].db)
  PROVE  IInv'
<1>1. write' \in [Collectors -> Writers] /\ client' \in [Collectors -> Settings]
  BY DEF IInv, CollectorTypeOK, Writers
<1>2. CollectorTypeOK'
  BY <1>1 DEF IInv, CollectorTypeOK, Writers
<1>3. \A q \in Collectors : /\ write'[q] = IF q = r THEN w ELSE write[q]
                            /\ client'[q] = IF q = r THEN c ELSE client[q]
  BY DEF IInv, CollectorTypeOK
<1>4. \A q \in Collectors : q # r => SameAt(q)
  BY <1>3 DEF SameAt
<1>5. Current(r) => Current(r)'
  BY <1>3 DEF Current
<1>6. Current(r) /\ ClientFollows(r) => ClientFollows(r)'
  BY <1>3 DEF Current, ClientFollows, Dropping
<1>7. DoneFollows(r) => DoneFollows(r)'
  BY DEF DoneFollows, Dropping
<1>8. Keeps(r) => Keeps(r)'
  BY <1>5, <1>6, <1>7 DEF Keeps
<1> QED BY <1>2, <1>4, <1>8, StepOf

LEMMA WriteIInv ==
  ASSUME IInv, NEW r \in Collectors,
         Write(r) \/ Ready(r) \/ GetClient(r) \/ Dial(r) \/ DialFails(r) \/ Do(r)
  PROVE  IInv'
<1>t. /\ projects[r] \in Settings /\ client[r] \in Settings /\ write[r] \in Writers
      /\ write[r].db \in Settings /\ errors \in Nat /\ errors + 1 \in Nat /\ None \in Settings
  BY DEF IInv, CollectorTypeOK, Writers, Settings
<1>c. client' = client => client' = [client EXCEPT ![r] = client[r]]
  BY DEF IInv, CollectorTypeOK
<1>n. NoWrite \in Writers /\ NoWrite.pc = "idle"
  BY Records, <1>t DEF NoWrite
<1>1. CASE Write(r)
  <2> DEFINE w == [pc |-> "ready", db |-> projects[r]]
  <2>1. w \in Writers /\ w.db = projects[r]
    BY <1>t, Records
  <2>2. /\ write' = [write EXCEPT ![r] = w] /\ client' = client
        /\ UNCHANGED <<config, tables, projects, done, upd, listed, under, behind, moves, errors>>
    BY <1>1 DEF Write
  <2> HIDE DEF w
  <2> QED BY <1>t, <1>c, <2>1, <2>2, WriteStep
<1>2. CASE Ready(r)
  <2> DEFINE w == IF done[r] THEN [write[r] EXCEPT !.pc = "client"] ELSE NoWrite
  <2>1. w \in Writers /\ (w.pc = "idle" \/ w.db = write[r].db)
    BY <1>t, <1>n, WriterType
  <2>2. /\ write' = [write EXCEPT ![r] = w] /\ client' = client /\ write[r].pc = "ready"
        /\ UNCHANGED <<config, tables, projects, done, upd, listed, under, behind, moves, errors>>
    BY <1>2 DEF Ready
  <2> HIDE DEF w
  <2> QED BY <1>t, <1>c, <2>1, <2>2, WriteStep
<1>3. CASE GetClient(r)
  <2> DEFINE w == IF client[r] # None THEN [pc |-> "do", db |-> client[r]]
                  ELSE [write[r] EXCEPT !.pc = "dial"]
  <2>1. w \in Writers /\ (w.pc = "do" \/ w.db = write[r].db)
    BY <1>t, WriterType, Records
  <2>2. /\ write' = [write EXCEPT ![r] = w] /\ client' = client /\ write[r].pc = "client"
        /\ UNCHANGED <<config, tables, projects, done, upd, listed, under, behind, moves, errors>>
    BY <1>3 DEF GetClient
  <2> HIDE DEF w
  <2> QED BY <1>t, <1>c, <2>1, <2>2, WriteStep
<1>4. CASE Dial(r)
  <2> DEFINE w == [write[r] EXCEPT !.pc = "do"]
  <2>1. w \in Writers /\ w.pc = "do"
    BY <1>t, WriterType
  <2>2. /\ write' = [write EXCEPT ![r] = w] /\ client' = [client EXCEPT ![r] = write[r].db]
        /\ write[r].pc = "dial"
        /\ UNCHANGED <<config, tables, projects, done, upd, listed, under, behind, moves, errors>>
    BY <1>4 DEF Dial
  <2> HIDE DEF w
  <2> QED BY <1>t, <2>1, <2>2, WriteStep
<1>5. CASE DialFails(r)
  <2>1. /\ write' = [write EXCEPT ![r] = NoWrite] /\ client' = client /\ errors' \in Nat
        /\ UNCHANGED <<config, tables, projects, done, upd, listed, under, behind, moves>>
    BY <1>5, <1>t DEF DialFails, Fault
  <2> QED BY <1>t, <1>c, <1>n, <2>1, WriteStep
<1>6. CASE Do(r)
  <2>1. /\ write' = [write EXCEPT ![r] = NoWrite] /\ errors' \in Nat
        /\ UNCHANGED <<config, tables, projects, done, upd, listed, under, behind, moves>>
    BY <1>6, <1>t DEF Do, Fault
  <2>2. client' = [client EXCEPT ![r] = client[r]] \/ client' = [client EXCEPT ![r] = None]
    BY <1>6, <1>c DEF Do
  <2> QED BY <1>t, <1>n, <2>1, <2>2, WriteStep
<1> QED BY <1>1, <1>2, <1>3, <1>4, <1>5, <1>6

LEMMA RestartIInv ==
  ASSUME IInv, NEW r \in Collectors, CollectorRestarts(r)
  PROVE  IInv'
<1>1. /\ projects' = [projects EXCEPT ![r] = config] /\ client' = [client EXCEPT ![r] = None]
      /\ upd' = [u \in Updaters |-> IF u[1] = r THEN NoUpdate ELSE upd[u]]
      /\ listed' = [listed EXCEPT ![r] = None]
      /\ under' = [m \in Loops |-> IF m[1] = r THEN None ELSE under[m]]
      /\ write' = [write EXCEPT ![r] = NoWrite]
      /\ config' = config /\ tables' = tables /\ moves' = moves /\ errors' = errors + 1
  BY DEF CollectorRestarts, Fault
<1>2. done' = [done EXCEPT ![r] = FALSE] /\ behind' = [behind EXCEPT ![r] = FALSE]
  BY DEF CollectorRestarts
<1>n. NoUpdate \in Updates /\ NoWrite \in Writers /\ None \in Settings /\ NoWrite.pc = "idle"
  BY Records DEF NoWrite, Settings
<1>3. upd' \in [Updaters -> Updates] /\ under' \in [Loops -> Settings]
  BY <1>1, <1>n DEF IInv, CollectorTypeOK, Updates
<1>4. /\ projects' \in [Collectors -> Settings] /\ client' \in [Collectors -> Settings]
      /\ listed' \in [Collectors -> Settings] /\ write' \in [Collectors -> Writers]
  BY <1>1, <1>n DEF IInv, CollectorTypeOK, Writers
<1>5. /\ done' \in [Collectors -> BOOLEAN] /\ behind' \in [Collectors -> BOOLEAN] /\ ~done'[r]
      /\ \A q \in Collectors : q # r => done'[q] = done[q] /\ behind'[q] = behind[q]
  BY <1>2 DEF IInv, CollectorTypeOK
<1>6. CollectorTypeOK'
  BY <1>1, <1>3, <1>4, <1>5 DEF IInv, CollectorTypeOK, Updates, Writers
<1>7. \A q \in Collectors : q # r => SameAt(q)
  BY <1>1, <1>5 DEF SameAt, IInv, CollectorTypeOK
<1>8. Keeps(r)'
  <2>1. client'[r] = None /\ listed'[r] = None /\ write'[r].pc = "idle"
    BY <1>1, <1>n DEF IInv, CollectorTypeOK
  <2>2. \A m \in Loops : m[1] = r => under'[m] = None
    BY <1>1
  <2> QED BY <1>5, <2>1, <2>2 DEF Keeps, Current, ClientFollows, DoneFollows
<1> QED BY <1>6, <1>7, <1>8, StepOf

LEMMA NextIInv == IInv /\ [CollectorNext]_collectorVars => IInv'
<1> SUFFICES ASSUME IInv, [CollectorNext]_collectorVars PROVE IInv'
  OBVIOUS
<1>t. /\ upd \in [Updaters -> Updates] /\ config \in Settings /\ moves \in Nat /\ errors \in Nat
      /\ tables \in SUBSET Databases /\ None \in Settings
  BY DEF IInv, CollectorTypeOK, Updates, Settings
<1>1. CASE UNCHANGED collectorVars
  <2>1. CollectorTypeOK'
    BY <1>1 DEF IInv, CollectorTypeOK, collectorVars
  <2> QED BY <1>1, <2>1 DEF IInv, collectorVars, Keeps, Current, ClientFollows, DoneFollows, Dropping
<1>2. ASSUME NEW r \in Collectors, Tick(r) PROVE IInv'
  <2> DEFINE u == <<r, "tick">>
             x == [upd[u] EXCEPT !.pc = "read"]
  <2>1. u \in Updaters /\ upd[u] \in Updates
    BY <1>t DEF Updaters
  <2>2. x \in Updates /\ x.pc = "read"
    BY <2>1, UpdateType
  <2>3. /\ upd' = [upd EXCEPT ![u] = x] /\ upd[u].pc = "idle"
        /\ UNCHANGED <<config, tables, projects, done, client, listed, under, write, behind,
                       moves, errors>>
    BY <1>2 DEF Tick
  <2> HIDE DEF u, x
  <2> QED BY <2>1, <2>2, <2>3, <1>t, Updates1 DEF Rest
<1>3. ASSUME NEW r \in Collectors, NEW c \in Settings, Save(r, c) PROVE IInv'
  <2> DEFINE u == <<r, "request">>
             x == [pc |-> "read", read |-> None, saved |-> c]
  <2>1. u \in Updaters
    BY DEF Updaters
  <2>2. x \in Updates /\ x.pc = "read"
    BY Records
  <2>3. /\ upd' = [upd EXCEPT ![u] = x] /\ upd[u].pc = "idle" /\ moves' \in Nat /\ config' = c
        /\ UNCHANGED <<tables, projects, done, client, listed, under, write, behind, errors>>
    BY <1>3, <1>t DEF Save
  <2> HIDE DEF u, x
  <2> QED BY <2>1, <2>2, <2>3, <1>t, Updates1 DEF Rest
<1>4. ASSUME NEW c \in Settings, SaveElsewhere(c) PROVE IInv'
  <2>1. CollectorTypeOK'
    BY <1>4 DEF IInv, CollectorTypeOK, SaveElsewhere
  <2> QED BY <1>4, <2>1 DEF IInv, SaveElsewhere, Keeps, Current, ClientFollows, DoneFollows, Dropping
<1>5. ASSUME NEW u \in Updaters, ReadProjects(u) PROVE IInv'
  <2> DEFINE x == [upd[u] EXCEPT !.pc = "set", !.read = config]
  <2>1. x \in Updates /\ x.pc = "set"
    BY <1>t, ReadType
  <2>2. /\ upd' = [upd EXCEPT ![u] = x] /\ upd[u].pc = "read"
        /\ UNCHANGED <<config, tables, projects, done, client, listed, under, write, behind,
                       moves, errors>>
    BY <1>5 DEF ReadProjects
  <2> HIDE DEF x
  <2> QED BY <2>1, <2>2, <1>t, Updates1 DEF Rest
<1>6. ASSUME NEW u \in Updaters, ReadFails(u) PROVE IInv'
  <2> DEFINE x == [upd[u] EXCEPT !.pc = Updated(u)]
  <2>1. x \in Updates /\ x.pc \in {"delete", "idle"}
    BY <1>t DEF Updated, Updates
  <2>2. /\ upd' = [upd EXCEPT ![u] = x] /\ upd[u].pc = "read" /\ errors' \in Nat
        /\ UNCHANGED <<config, tables, projects, done, client, listed, under, write, behind, moves>>
    BY <1>6, <1>t DEF ReadFails, Fault
  <2> HIDE DEF x
  <2> QED BY <2>1, <2>2, <1>t, Updates1 DEF Rest
<1> QED BY <1>1, <1>2, <1>3, <1>4, <1>5, <1>6, SetIInv, DropClientIInv, DropDoneIInv, RequestIInv,
           LoopIInv, MigrateIInv, WriteIInv, RestartIInv DEF CollectorNext

\* Whatever a collector is doing, its memory keeps its types, and what it has of
\* old settings is about to be dropped.
THEOREM CollectorInvariance == CollectorSpec => []IInv
  BY InitIInv, NextIInv, PTL DEF CollectorSpec

-----------------------------------------------------------------------------
\* The client of a replica that nothing caught half way is one of the settings it
\* has loaded, and its migrationDone speaks of tables that are there: "a project
\* whose ClickHouse settings changed loses its client and its migration".
THEOREM FollowsSafety == CollectorSpec => []Follows
<1>1. IInv => Follows
  <2>1. ASSUME IInv, NEW r \in Collectors, Settled(r), ~behind[r]
        PROVE  client[r] \in {None, projects[r]} /\ (done[r] /\ projects[r] # None => projects[r] \in tables)
    BY <2>1 DEF IInv, Keeps, ClientFollows, DoneFollows, Dropping, Settled
  <2> QED BY <2>1 DEF Follows
<1> QED BY <1>1, CollectorInvariance, PTL

-----------------------------------------------------------------------------
(* Traces *)

LEMMA TracesConstants ==
  /\ Limit \in Nat /\ Limit > 0 /\ MaxHeld \in Nat /\ MaxHeld > 0
  /\ Memory \in Nat /\ Memory > 0 /\ Rewrite \in Nat /\ Rewrite > 0
  /\ MaxTime \in Nat /\ MaxMishaps \in Nat
  BY TracesAssumption

TracesTypes ==
    /\ now \in 0..MaxTime /\ mishaps \in 0..MaxMishaps
    /\ recorders \in SUBSET ServerKinds /\ steady \in SUBSET ServerKinds
    /\ spans \in [Requests -> [Kinds -> Statuses]]
    /\ early \in SUBSET Requests
    /\ batch \in [Replicas -> Seq(Requests \X Kinds)]
    /\ known \in [Replicas -> [ServerKinds -> 0..Present]]
    /\ sources \in [ServerKinds -> 0..Present]
    /\ loaded \in [Replicas -> BOOLEAN] /\ expired \in [Replicas -> BOOLEAN]
    /\ bodies \in [Replicas -> BOOLEAN]
    /\ writtenAt \in [Replicas -> 0..Present]
    /\ stopped \in 0..Present /\ bodyRow \in 0..Present
    /\ newest \in 0..Present /\ moved \in 0..Present

\* A span in a batch is on its way still, and is in it once.
Waits ==
    /\ \A r \in Replicas : \A i \in DOMAIN batch[r] :
          spans[batch[r][i][1]][batch[r][i][2]] = "sent"
    /\ \A r, s \in Replicas : \A i \in DOMAIN batch[r], j \in DOMAIN batch[s] :
          batch[r][i] = batch[s][j] => r = s /\ i = j

Lately(t) == t > 0 /\ Present < t + Rewrite

\* What a replica remembers to have written is in trace_bodies, or was before
\* the move; a batch goes without its body only if that was lately.
BodyInv ==
    /\ \A r \in Replicas : writtenAt[r] <= bodyRow \/ writtenAt[r] <= moved
    /\ \A r \in Replicas : batch[r] # <<>> /\ ~bodies[r] => Lately(bodyRow) \/ Lately(moved)

\* A replica that has read knows of every kind that all had time to read of.
Informed ==
    /\ \A k \in steady : Recent(sources[k])
    /\ \A k \in steady, r \in Replicas : loaded[r] /\ ~expired[r] => Recent(known[r][k])

\* CountedAtMostOnce for each pair of spans, before all of them are stored.
Twice ==
    \A q \in Requests, k \in Kinds : \A m \in Rivals(k) :
       spans[q][k] = "counted" /\ spans[q][m] # "none" => q \in early

\* While spans of a request are on their way, its server records as it did.
Recording ==
    \A q \in Requests : (\E k \in Kinds : spans[q][k] = "sent")
       => \A k \in ServerKinds : spans[q][k] # "none" <=> k \in recorders

\* Nobody saw a kind later than the server ceased to record it.
Ceased ==
    \A k \in ServerKinds \ recorders :
        sources[k] <= stopped /\ \A r \in Replicas : known[r][k] <= stopped

\* A span does not count only for another of its request, or one that ceased.
Seconds ==
    \A q \in Requests, k \in Kinds :
        spans[q][k] = "second" =>
            Recent(stopped) \/ \E m \in Rivals(k) : spans[q][m] # "none"

TracesInv ==
    /\ TracesTypes /\ Waits
    /\ BodyInv /\ BodyKept
    /\ Informed /\ Twice
    /\ Recording /\ Ceased /\ Seconds

-----------------------------------------------------------------------------
\* The spans b of r may be written: they wait, in no other batch, and the body
\* goes with them unless it was written lately.
Batchable(r, b) ==
    /\ b \in Seq(Requests \X Kinds)
    /\ \A i \in DOMAIN b : spans[b[i][1]][b[i][2]] = "sent"
    /\ \A i, j \in DOMAIN b : b[i] = b[j] => i = j
    /\ \A s \in Replicas \ {r} : \A i \in DOMAIN b, j \in DOMAIN batch[s] : b[i] # batch[s][j]

Writable(r, b, withBody) ==
    /\ Batchable(r, b)
    /\ withBody \in BOOLEAN
    /\ loaded[r] \/ Len(b) >= MaxHeld * Limit
    /\ ~withBody => Lately(bodyRow) \/ Lately(moved)

Writes(r, b, withBody) ==
    /\ Writable(r, b, withBody)
    /\ WriteSpans(r, b, withBody)
    /\ UNCHANGED <<now, recorders, stopped, loaded, expired, steady, moved>>

Holds(r, q, k) ==
    /\ InFlight(q, k)
    /\ batch' = [batch EXCEPT ![r] = Append(batch[r], <<q, k>>)]
    /\ bodies' = [bodies EXCEPT ![r] = WithBody(r)]
    /\ UNCHANGED <<spans, early, known, sources, writtenAt, bodyRow, newest, mishaps>>
    /\ UNCHANGED <<now, recorders, stopped, loaded, expired, steady, moved>>

LEMMA Pairs ==
  ASSUME NEW b \in Seq(Requests \X Kinds), NEW i \in DOMAIN b
  PROVE  /\ b[i] \in Requests \X Kinds /\ b[i][1] \in Requests /\ b[i][2] \in Kinds
         /\ b[i] = <<b[i][1], b[i][2]>> /\ i \in 1..Len(b)
  OBVIOUS

\* A body that goes without the batch was written lately.
LEMMA Without ==
  ASSUME TracesTypes, BodyInv, NEW r \in Replicas, ~WithBody(r)
  PROVE  Lately(bodyRow) \/ Lately(moved)
  <1>1. /\ writtenAt[r] \in Nat /\ bodyRow \in Nat /\ moved \in Nat /\ now \in Nat
    BY TracesConstants DEF TracesTypes, Present
  <1>2. writtenAt[r] > 0 /\ now + 1 - writtenAt[r] < Rewrite
    BY <1>1, TracesConstants DEF WithBody, Present
  <1>3. writtenAt[r] <= bodyRow \/ writtenAt[r] <= moved
    BY DEF BodyInv
  <1> QED
    BY <1>1, <1>2, <1>3, TracesConstants DEF Lately, Present

LEMMA WithBodyType ==
  ASSUME TracesTypes, NEW r \in Replicas
  PROVE  WithBody(r) \in BOOLEAN
  BY DEF TracesTypes, WithBody

LEMMA SaveWrites ==
  ASSUME TracesTypes, Waits, BodyInv, NEW r \in Replicas, SaveBatch(r)
  PROVE  Writes(r, batch[r], bodies[r])
  <1>1. Writable(r, batch[r], bodies[r])
    <2>1. batch[r] \in Seq(Requests \X Kinds) /\ bodies[r] \in BOOLEAN
      BY DEF TracesTypes
    <2>2. loaded[r] \/ Len(batch[r]) >= MaxHeld * Limit
      BY DEF SaveBatch, MayWrite
    <2>3. ~bodies[r] => Lately(bodyRow) \/ Lately(moved)
      BY DEF SaveBatch, BodyInv
    <2> QED
      BY <2>1, <2>2, <2>3 DEF Writable, Batchable, Waits
  <1> QED
    BY <1>1 DEF Writes, SaveBatch

\* What Add makes of a batch.
LEMMA Appended ==
  ASSUME TracesTypes, Waits, NEW r \in Replicas, NEW q \in Requests, NEW k \in Kinds,
         InFlight(q, k), NEW b, b = Append(batch[r], <<q, k>>)
  PROVE  Batchable(r, b)
  <1>1. batch[r] \in Seq(Requests \X Kinds) /\ <<q, k>> \in Requests \X Kinds
    BY DEF TracesTypes
  <1>2. /\ b \in Seq(Requests \X Kinds) /\ Len(b) = Len(batch[r]) + 1 /\ b # <<>>
        /\ DOMAIN b = 1..Len(b) /\ DOMAIN batch[r] = 1..Len(batch[r])
        /\ \A i \in DOMAIN b : \/ i \in DOMAIN batch[r] /\ b[i] = batch[r][i]
                               \/ i = Len(b) /\ b[i] = <<q, k>>
    BY <1>1
  <1>3. /\ spans[q][k] = "sent"
        /\ \A s \in Replicas : \A j \in DOMAIN batch[s] : batch[s][j] # <<q, k>>
    BY DEF InFlight, Batched
  <1>4. \A i \in DOMAIN b : spans[b[i][1]][b[i][2]] = "sent"
    BY <1>2, <1>3 DEF Waits
  <1>5. ASSUME NEW i \in DOMAIN b, NEW j \in DOMAIN b, b[i] = b[j]
        PROVE  i = j
    <2>1. CASE i \in DOMAIN batch[r] /\ b[i] = batch[r][i]
      BY <1>2, <1>3, <1>5, <2>1 DEF Waits
    <2>2. CASE i = Len(b) /\ b[i] = <<q, k>>
      BY <1>2, <1>3, <1>5, <2>2
    <2> QED
      BY <1>2, <2>1, <2>2
  <1>6. ASSUME NEW s \in Replicas \ {r}, NEW i \in DOMAIN b, NEW j \in DOMAIN batch[s]
        PROVE  b[i] # batch[s][j]
    <2>1. CASE i \in DOMAIN batch[r] /\ b[i] = batch[r][i]
      BY <1>6, <2>1 DEF Waits
    <2>2. CASE i = Len(b) /\ b[i] = <<q, k>>
      BY <1>3, <1>6, <2>2
    <2> QED
      BY <1>2, <1>6, <2>1, <2>2
  <1> QED
    BY <1>2, <1>4, <1>5, <1>6 DEF Batchable

LEMMA AddWritesOrHolds ==
  ASSUME TracesTypes, Waits, BodyInv, NEW r \in Replicas, NEW q \in Requests, NEW k \in Kinds,
         Add(r, q, k)
  PROVE  Holds(r, q, k) \/ \E b, withBody : Writes(r, b, withBody)
  <1>1. InFlight(q, k)
    BY DEF Add
  <1>2. PICK b : b = Append(batch[r], <<q, k>>)
    OBVIOUS
  <1>3. CASE Len(b) >= Limit /\ MayWrite(r, Len(b))
    <2>1. /\ WriteSpans(r, b, WithBody(r))
          /\ UNCHANGED <<now, recorders, stopped, loaded, expired, steady, moved>>
      BY <1>2, <1>3 DEF Add
    <2>2. Writable(r, b, WithBody(r))
      <3>1. ~WithBody(r) => Lately(bodyRow) \/ Lately(moved)
        BY Without
      <3>2. WithBody(r) \in BOOLEAN
        BY WithBodyType
      <3>3. Batchable(r, b)
        BY <1>1, <1>2, Appended
      <3> QED
        BY <1>3, <3>1, <3>2, <3>3 DEF Writable, MayWrite
    <2> QED
      BY <2>1, <2>2 DEF Writes
  <1>4. CASE ~(Len(b) >= Limit /\ MayWrite(r, Len(b)))
    BY <1>1, <1>2, <1>4 DEF Add, Holds
  <1> QED
    BY <1>3, <1>4

\* What a write does, whichever of its inserts fail.
Applied(r, b, withBody, bodyOk, spansOk) ==
    /\ mishaps' \in 0..MaxMishaps
    /\ ~bodyOk => withBody
    /\ known' = [known EXCEPT ![r] = [k \in ServerKinds |->
                   IF \E i \in DOMAIN b : b[i][2] = k THEN Present ELSE known[r][k]]]
    /\ writtenAt' = [s \in Replicas |->
                       IF s = r /\ withBody /\ bodyOk THEN Present ELSE writtenAt[s]]
    /\ bodyRow' = IF withBody /\ bodyOk THEN Present ELSE bodyRow
    /\ bodies' = [bodies EXCEPT ![r] = FALSE]
    /\ batch' = [batch EXCEPT ![r] = <<>>]
    /\ spans' \in [Requests -> [Kinds -> Statuses]]
    /\ \A q \in Requests, k \in Kinds :
          /\ (\A i \in DOMAIN b : b[i] # <<q, k>>) => spans'[q][k] = spans[q][k]
          /\ (\E i \in DOMAIN b : b[i] = <<q, k>>) => spans'[q][k] \in {"lost", "counted", "second"}
          /\ spans'[q][k] = "counted" /\ spans[q][k] # "counted"
               => \E i \in DOMAIN b : b[i] = <<q, k>> /\ Counted(r, b, i)
          /\ spans'[q][k] = "second" /\ spans[q][k] # "second"
               => \E i \in DOMAIN b : b[i] = <<q, k>> /\ ~Counted(r, b, i)
    /\ early' \in SUBSET Requests
    /\ early \subseteq early'
    /\ \A i \in DOMAIN b : Early(r, b, i) => b[i][1] \in early'
    /\ sources' = IF spansOk THEN [k \in ServerKinds |->
                     IF \E i \in DOMAIN b : b[i][2] = k THEN Present ELSE sources[k]]
                  ELSE sources
    /\ newest' = IF spansOk /\ ~(withBody /\ ~bodyOk) THEN Present ELSE newest
    /\ UNCHANGED <<now, recorders, stopped, loaded, expired, steady, moved>>

LEMMA WriteApplied ==
  ASSUME TracesTypes, NEW r \in Replicas, NEW b, NEW withBody, Writes(r, b, withBody)
  PROVE  \E bodyOk, spansOk \in BOOLEAN : Applied(r, b, withBody, bodyOk, spansOk)
  <1>0. /\ WriteSpans(r, b, withBody) /\ b \in Seq(Requests \X Kinds) /\ withBody \in BOOLEAN
        /\ UNCHANGED <<now, recorders, stopped, loaded, expired, steady, moved>>
    BY DEF Writes, Writable, Batchable
  <1> DEFINE written == DOMAIN b
             kindsIn == {b[i][2] : i \in written}
  <1>1. PICK bodyOk \in BOOLEAN, spansOk \in BOOLEAN :
        /\ IF bodyOk /\ spansOk THEN UNCHANGED mishaps ELSE Mishap
        /\ ~bodyOk => withBody
        /\ known' = [known EXCEPT ![r] = [k \in ServerKinds |->
                                            IF k \in kindsIn THEN Present ELSE @[k]]]
        /\ writtenAt' = IF withBody THEN [writtenAt EXCEPT ![r] = Remembered(r, bodyOk)]
                                    ELSE writtenAt
        /\ bodyRow' = IF withBody /\ bodyOk THEN Present ELSE bodyRow
        /\ bodies' = [bodies EXCEPT ![r] = FALSE]
        /\ batch' = [batch EXCEPT ![r] = <<>>]
        /\ spans' = [q \in Requests |-> [k \in Kinds |->
                       IF \E i \in written : b[i] = <<q, k>>
                       THEN CASE ~spansOk -> "lost"
                              [] \E i \in written : b[i] = <<q, k>> /\ Counted(r, b, i) -> "counted"
                              [] OTHER -> "second"
                       ELSE spans[q][k]]]
        /\ early' = early \cup {b[i][1] : i \in {j \in written : Early(r, b, j)}}
        /\ sources' = IF spansOk THEN [k \in ServerKinds |->
                                         IF k \in kindsIn THEN Present ELSE sources[k]]
                                 ELSE sources
        /\ newest' = IF spansOk /\ ~(withBody /\ ~bodyOk) THEN Present ELSE newest
    BY <1>0 DEF WriteSpans
  <1>2. mishaps' \in 0..MaxMishaps
    <2>1. mishaps' = mishaps \/ Mishap
      BY <1>1
    <2>2. mishaps \in 0..MaxMishaps
      BY DEF TracesTypes
    <2> QED
      BY <2>1, <2>2, TracesConstants DEF Mishap
  <1>3. \A k : k \in kindsIn <=> \E i \in DOMAIN b : b[i][2] = k
    OBVIOUS
  <1>4. known' = [known EXCEPT ![r] = [k \in ServerKinds |->
                    IF \E i \in DOMAIN b : b[i][2] = k THEN Present ELSE known[r][k]]]
    <2>1. [k \in ServerKinds |-> IF k \in kindsIn THEN Present ELSE known[r][k]]
            = [k \in ServerKinds |->
                 IF \E i \in DOMAIN b : b[i][2] = k THEN Present ELSE known[r][k]]
      <3> HIDE DEF kindsIn
      <3> QED
        BY <1>3
    <2>2. known' = [known EXCEPT ![r] = [k \in ServerKinds |->
                      IF k \in kindsIn THEN Present ELSE known[r][k]]]
      <3> HIDE DEF kindsIn
      <3> QED
        BY <1>1
    <2> HIDE DEF kindsIn
    <2> QED
      BY <2>1, <2>2
  <1>5. sources' = IF spansOk THEN [k \in ServerKinds |->
                     IF \E i \in DOMAIN b : b[i][2] = k THEN Present ELSE sources[k]]
                   ELSE sources
    <2> HIDE DEF kindsIn
    <2> QED
      BY <1>1, <1>3
  <1>6. writtenAt' = [s \in Replicas |->
                        IF s = r /\ withBody /\ bodyOk THEN Present ELSE writtenAt[s]]
    <2>1. CASE withBody /\ bodyOk
      BY <1>1, <2>1 DEF TracesTypes, Remembered
    <2>2. CASE ~(withBody /\ bodyOk)
      <3>1. writtenAt' = writtenAt
        BY <1>1, <2>2 DEF TracesTypes, Remembered
      <3> QED
        BY <2>2, <3>1 DEF TracesTypes
    <2> QED
      BY <2>1, <2>2
  <1>7. \A i \in DOMAIN b : b[i][1] \in Requests
    BY <1>0, Pairs
  <1>8. /\ early' \in SUBSET Requests /\ early \subseteq early'
        /\ \A i \in DOMAIN b : Early(r, b, i) => b[i][1] \in early'
    BY <1>1, <1>7 DEF TracesTypes
  <1>9. spans' \in [Requests -> [Kinds -> Statuses]]
    <2> DEFINE E(q, k) == \E i \in written : b[i] = <<q, k>>
               C(q, k) == \E i \in written : b[i] = <<q, k>> /\ Counted(r, b, i)
               V(q, k) == IF E(q, k) THEN CASE ~spansOk -> "lost" [] C(q, k) -> "counted"
                                            [] OTHER -> "second"
                                     ELSE spans[q][k]
    <2>1. spans' = [q \in Requests |-> [k \in Kinds |-> V(q, k)]]
      BY <1>1
    <2> HIDE DEF E, C
    <2>2. \A q \in Requests, k \in Kinds : V(q, k) \in Statuses
      BY DEF Statuses, TracesTypes
    <2> HIDE DEF V
    <2> QED
      BY <2>1, <2>2
  <1>10. ASSUME NEW q \in Requests, NEW k \in Kinds
         PROVE
          /\ (\A i \in DOMAIN b : b[i] # <<q, k>>) => spans'[q][k] = spans[q][k]
          /\ (\E i \in DOMAIN b : b[i] = <<q, k>>) => spans'[q][k] \in {"lost", "counted", "second"}
          /\ spans'[q][k] = "counted" /\ spans[q][k] # "counted"
               => \E i \in DOMAIN b : b[i] = <<q, k>> /\ Counted(r, b, i)
          /\ spans'[q][k] = "second" /\ spans[q][k] # "second"
               => \E i \in DOMAIN b : b[i] = <<q, k>> /\ ~Counted(r, b, i)
    <2> DEFINE E == \E i \in written : b[i] = <<q, k>>
               C == \E i \in written : b[i] = <<q, k>> /\ Counted(r, b, i)
    <2>1. spans'[q][k] = IF E THEN CASE ~spansOk -> "lost" [] C -> "counted"
                                     [] OTHER -> "second"
                              ELSE spans[q][k]
      BY <1>1
    <2>2. E /\ ~C => \E i \in DOMAIN b : b[i] = <<q, k>> /\ ~Counted(r, b, i)
      OBVIOUS
    <2>3. /\ ~E => spans'[q][k] = spans[q][k]
          /\ E => spans'[q][k] \in {"lost", "counted", "second"}
          /\ spans'[q][k] = "counted" /\ spans[q][k] # "counted" => C
          /\ spans'[q][k] = "second" /\ spans[q][k] # "second" => E /\ ~C
      <3> HIDE DEF E, C
      <3> QED
        BY <2>1
    <2> QED
      BY <2>2, <2>3
  <1>11. Applied(r, b, withBody, bodyOk, spansOk)
    <2> HIDE DEF written, kindsIn
    <2> QED
      BY <1>0, <1>1, <1>2, <1>4, <1>5, <1>6, <1>8, <1>9, <1>10 DEF Applied
  <1> QED
    BY <1>11

\* The types of times.
LEMMA Times ==
  ASSUME TracesTypes
  PROVE  /\ now \in Nat /\ Present \in Nat /\ Present = now + 1 /\ now <= MaxTime
         /\ stopped \in Nat /\ stopped <= Present /\ moved \in Nat /\ moved <= Present
         /\ bodyRow \in Nat /\ bodyRow <= Present /\ newest \in Nat /\ newest <= Present
         /\ \A r \in Replicas : writtenAt[r] \in Nat /\ writtenAt[r] <= Present
         /\ \A k \in ServerKinds : sources[k] \in Nat /\ sources[k] <= Present
         /\ \A r \in Replicas, k \in ServerKinds : known[r][k] \in Nat /\ known[r][k] <= Present
  <1>1. now \in Nat /\ now <= MaxTime /\ Present = now + 1 /\ Present \in Nat
    BY TracesConstants DEF TracesTypes, Present
  <1>2. \A t \in 0..Present : t \in Nat /\ t <= Present
    BY <1>1
  <1> QED
    BY <1>1, <1>2 DEF TracesTypes

-----------------------------------------------------------------------------
(* A write keeps the invariant. *)

LEMMA WriteTypes ==
  ASSUME TracesTypes, NEW r \in Replicas, NEW b, NEW withBody \in BOOLEAN,
         NEW bodyOk \in BOOLEAN, NEW spansOk \in BOOLEAN, Applied(r, b, withBody, bodyOk, spansOk)
  PROVE  TracesTypes'
  <1>1. Present' = Present /\ now' = now /\ Present \in 0..Present
    BY Times DEF Applied, Present
  <1>2. known' \in [Replicas -> [ServerKinds -> 0..Present]]
    <2> DEFINE new == [k \in ServerKinds |->
                         IF \E i \in DOMAIN b : b[i][2] = k THEN Present ELSE known[r][k]]
    <2>1. new \in [ServerKinds -> 0..Present]
      BY <1>1 DEF TracesTypes
    <2>2. known' = [known EXCEPT ![r] = new]
      BY DEF Applied
    <2> HIDE DEF new
    <2> QED
      BY <2>1, <2>2 DEF TracesTypes
  <1>3. sources' \in [ServerKinds -> 0..Present]
    BY <1>1 DEF Applied, TracesTypes
  <1>4. writtenAt' \in [Replicas -> 0..Present]
    BY <1>1 DEF Applied, TracesTypes
  <1>5. bodyRow' \in 0..Present /\ newest' \in 0..Present
    BY <1>1 DEF Applied, TracesTypes
  <1>6. /\ batch' \in [Replicas -> Seq(Requests \X Kinds)]
        /\ bodies' \in [Replicas -> BOOLEAN]
    BY DEF Applied, TracesTypes
  <1>7. /\ mishaps' \in 0..MaxMishaps /\ spans' \in [Requests -> [Kinds -> Statuses]]
        /\ early' \in SUBSET Requests
        /\ UNCHANGED <<recorders, stopped, loaded, expired, steady, moved>>
    BY DEF Applied
  <1> QED
    BY <1>1, <1>2, <1>3, <1>4, <1>5, <1>6, <1>7 DEF TracesTypes

\* The spans of the batch are stored or lost, and no other changes.
LEMMA WriteSpansOf ==
  ASSUME TracesTypes, NEW r \in Replicas, NEW b, NEW withBody \in BOOLEAN,
         NEW bodyOk \in BOOLEAN, NEW spansOk \in BOOLEAN,
         Writable(r, b, withBody), Applied(r, b, withBody, bodyOk, spansOk),
         NEW q \in Requests, NEW k \in Kinds
  PROVE  /\ spans'[q][k] = "none" <=> spans[q][k] = "none"
         /\ spans'[q][k] = "sent" => spans[q][k] = "sent"
         /\ (\A i \in DOMAIN b : b[i] # <<q, k>>) => spans'[q][k] = spans[q][k]
  <1>1. CASE \A i \in DOMAIN b : b[i] # <<q, k>>
    BY <1>1 DEF Applied
  <1>2. ASSUME NEW i \in DOMAIN b, b[i] = <<q, k>>
        PROVE  spans[q][k] = "sent" /\ spans'[q][k] \in {"lost", "counted", "second"}
    BY <1>2 DEF Applied, Writable, Batchable
  <1> QED
    BY <1>1, <1>2

LEMMA WriteWaits ==
  ASSUME TracesTypes, Waits, NEW r \in Replicas, NEW b, NEW withBody \in BOOLEAN,
         NEW bodyOk \in BOOLEAN, NEW spansOk \in BOOLEAN,
         Writable(r, b, withBody), Applied(r, b, withBody, bodyOk, spansOk)
  PROVE  Waits'
  <1>1. /\ batch' = [batch EXCEPT ![r] = <<>>]
        /\ \A s \in Replicas : batch[s] \in Seq(Requests \X Kinds)
    BY DEF Applied, TracesTypes
  <1>2. \A s \in Replicas : \A j \in DOMAIN batch'[s] :
            s # r /\ batch'[s] = batch[s] /\ j \in DOMAIN batch[s]
    BY <1>1 DEF TracesTypes
  <1>3. ASSUME NEW s \in Replicas, NEW j \in DOMAIN batch'[s]
        PROVE  spans'[batch'[s][j][1]][batch'[s][j][2]] = "sent"
    <2>1. PICK q \in Requests, k \in Kinds : batch[s][j] = <<q, k>>
      BY <1>1, <1>2, <1>3, Pairs
    <2>2. \A i \in DOMAIN b : b[i] # <<q, k>>
      <3>1. s \in Replicas \ {r} /\ j \in DOMAIN batch[s]
        BY <1>2, <1>3
      <3>2. \A i \in DOMAIN b : b[i] # batch[s][j]
        BY <3>1 DEF Writable, Batchable
      <3> QED
        BY <2>1, <3>2
    <2>3. spans'[q][k] = spans[q][k]
      BY <2>2, WriteSpansOf
    <2>4. spans[q][k] = "sent"
      BY <1>2, <1>3, <2>1 DEF Waits
    <2> QED
      BY <1>2, <1>3, <2>1, <2>3, <2>4
  <1> QED
    BY <1>2, <1>3 DEF Waits

LEMMA WriteBody ==
  ASSUME TracesTypes, BodyInv, BodyKept, NEW r \in Replicas, NEW b, NEW withBody \in BOOLEAN,
         NEW bodyOk \in BOOLEAN, NEW spansOk \in BOOLEAN,
         Writable(r, b, withBody), Applied(r, b, withBody, bodyOk, spansOk)
  PROVE  BodyInv' /\ BodyKept'
  <1>1. Present' = Present /\ moved' = moved
    BY DEF Applied, Present
  <1>2. bodyRow' >= bodyRow /\ bodyRow' \in Nat /\ (withBody /\ bodyOk => bodyRow' = Present)
    BY Times DEF Applied
  <1>3. \A s \in Replicas : writtenAt'[s] = writtenAt[s] \/ (writtenAt'[s] = Present /\ bodyRow' = Present)
    BY DEF Applied
  <1>4. \A s \in Replicas : writtenAt'[s] <= bodyRow' \/ writtenAt'[s] <= moved'
    BY <1>1, <1>2, <1>3, Times DEF BodyInv
  <1>5. Lately(bodyRow) \/ Lately(moved) => Lately(bodyRow') \/ Lately(moved)
    BY <1>2, Times, TracesConstants DEF Lately
  <1>7. (Lately(bodyRow) \/ Lately(moved))' <=> Lately(bodyRow') \/ Lately(moved)
    BY <1>1 DEF Lately
  <1>8. \A s \in Replicas : batch'[s] # <<>> => batch'[s] = batch[s] /\ bodies'[s] = bodies[s]
    BY DEF Applied, TracesTypes
  <1>9. \A s \in Replicas : batch'[s] # <<>> /\ ~bodies'[s] => Lately(bodyRow') \/ Lately(moved)
    BY <1>5, <1>8 DEF BodyInv
  <1>10. BodyInv'
    BY <1>4, <1>7, <1>9 DEF BodyInv
  <1>11. CASE newest' = newest
    BY <1>1, <1>2, <1>10, <1>11, Times, TracesConstants DEF BodyKept
  <1>12. CASE newest' # newest
    <2>1. newest' = Present /\ ~(withBody /\ ~bodyOk)
      BY <1>12 DEF Applied
    <2>2. CASE withBody
      BY <1>2, <1>10, <2>1, <2>2, Times, TracesConstants DEF BodyKept
    <2>3. CASE ~withBody
      <3>1. Lately(bodyRow') \/ Lately(moved)
        BY <1>5, <2>3 DEF Writable
      <3> QED
        BY <1>1, <1>10, <2>1, <3>1 DEF BodyKept, Lately
    <2> QED
      BY <2>2, <2>3
  <1> QED
    BY <1>11, <1>12

LEMMA RivalsOf ==
  /\ Rivals("sdk") = {} /\ Rivals("agent") = {"sdk"} /\ Rivals("client") = {"agent", "sdk"}
  /\ \A k \in Kinds : Rivals(k) \subseteq ServerKinds
  BY DEF Rivals, Kinds, ServerKinds

\* A span counts if no server span of a rival kind was seen, and only then.
LEMMA CountedIff ==
  ASSUME NEW r, NEW b, NEW i, b[i][2] \in Kinds
  PROVE  Counted(r, b, i) <=> \A m \in Rivals(b[i][2]) : ~Seen(r, b, m, i)
  <1>1. CASE b[i][2] = "sdk"
    BY <1>1, RivalsOf DEF Counted
  <1>2. CASE b[i][2] = "agent"
    BY <1>2, RivalsOf DEF Counted
  <1>3. CASE b[i][2] = "client"
    BY <1>3, RivalsOf DEF Counted
  <1> QED
    BY <1>1, <1>2, <1>3 DEF Kinds, ServerKinds

LEMMA PresentRecent ==
  ASSUME TracesTypes
  PROVE  Recent(Present)
  BY Times, TracesConstants DEF Recent

LEMMA WriteInformed ==
  ASSUME TracesTypes, Informed, NEW r \in Replicas, NEW b, NEW withBody \in BOOLEAN,
         NEW bodyOk \in BOOLEAN, NEW spansOk \in BOOLEAN, Applied(r, b, withBody, bodyOk, spansOk)
  PROVE  Informed'
  <1>1. Present' = Present /\ UNCHANGED <<steady, loaded, expired>>
    BY DEF Applied, Present
  <1>2. \A t : Recent(t) <=> t > 0 /\ Present - t < Memory
    BY DEF Recent
  <1>3. \A k \in ServerKinds : sources'[k] \in {sources[k], Present}
    BY DEF Applied, TracesTypes
  <1>4. \A s \in Replicas, k \in ServerKinds : known'[s][k] \in {known[s][k], Present}
    BY DEF Applied, TracesTypes
  <1>5. steady \subseteq ServerKinds
    BY DEF TracesTypes
  <1>6. \A k \in steady : Recent(sources'[k])
    BY <1>3, <1>5, PresentRecent DEF Informed
  <1>7. \A k \in steady, s \in Replicas : loaded[s] /\ ~expired[s] => Recent(known'[s][k])
    BY <1>4, <1>5, PresentRecent DEF Informed
  <1> QED
    BY <1>1, <1>6, <1>7 DEF Informed, Recent

LEMMA WriteTwice ==
  ASSUME TracesTypes, Informed, Twice, NEW r \in Replicas, NEW b, NEW withBody \in BOOLEAN,
         NEW bodyOk \in BOOLEAN, NEW spansOk \in BOOLEAN,
         Writable(r, b, withBody), Applied(r, b, withBody, bodyOk, spansOk)
  PROVE  Twice'
  <1> SUFFICES ASSUME NEW q \in Requests, NEW k \in Kinds, NEW m \in Rivals(k),
                      spans'[q][k] = "counted", spans'[q][m] # "none"
               PROVE  q \in early'
    BY DEF Twice
  <1>0. m \in ServerKinds /\ m \in Kinds
    BY RivalsOf DEF Kinds
  <1>1. spans[q][m] # "none"
    BY <1>0, WriteSpansOf
  <1>2. early \subseteq early'
    BY DEF Applied
  <1>3. CASE spans[q][k] = "counted"
    BY <1>1, <1>2, <1>3 DEF Twice
  <1>4. CASE spans[q][k] # "counted"
    <2>1. PICK i \in DOMAIN b : b[i] = <<q, k>> /\ Counted(r, b, i)
      BY <1>4 DEF Applied
    <2>2. b[i][1] = q /\ b[i][2] = k
      BY <2>1
    <2>3. ~Recent(known[r][m])
      BY <2>1, <2>2, CountedIff DEF Seen
    <2>4. m \notin steady \/ expired[r] \/ ~loaded[r]
      BY <2>3 DEF Informed
    <2>5. m \notin steady \/ expired[r] \/ (~loaded[r] /\ Len(b) >= MaxHeld * Limit)
      BY <2>4 DEF Writable
    <2>6. Early(r, b, i)
      BY <1>1, <2>2, <2>5 DEF Early
    <2> QED
      BY <2>2, <2>6 DEF Applied
  <1> QED
    BY <1>3, <1>4

\* The kinds of the batch are kinds the server records.
LEMMA WrittenRecorded ==
  ASSUME TracesTypes, Recording, NEW r \in Replicas, NEW b, NEW withBody,
         Writable(r, b, withBody), NEW i \in DOMAIN b, b[i][2] \in ServerKinds
  PROVE  b[i][2] \in recorders
  <1>1. PICK q \in Requests, k \in Kinds : b[i] = <<q, k>>
    BY Pairs DEF Writable, Batchable
  <1>2. spans[q][k] = "sent"
    BY <1>1 DEF Writable, Batchable
  <1>3. k = b[i][2]
    BY <1>1
  <1> QED
    BY <1>2, <1>3 DEF Recording

LEMMA WriteRecording ==
  ASSUME TracesTypes, Recording, NEW r \in Replicas, NEW b, NEW withBody \in BOOLEAN,
         NEW bodyOk \in BOOLEAN, NEW spansOk \in BOOLEAN,
         Writable(r, b, withBody), Applied(r, b, withBody, bodyOk, spansOk)
  PROVE  Recording'
  <1>1. recorders' = recorders
    BY DEF Applied
  <1>2. \A q \in Requests, k \in Kinds :
           /\ spans'[q][k] = "none" <=> spans[q][k] = "none"
           /\ spans'[q][k] = "sent" => spans[q][k] = "sent"
    BY WriteSpansOf
  <1>3. ServerKinds \subseteq Kinds
    BY DEF Kinds
  <1> QED
    BY <1>1, <1>2, <1>3 DEF Recording

LEMMA WriteCeased ==
  ASSUME TracesTypes, Recording, Ceased, NEW r \in Replicas, NEW b, NEW withBody \in BOOLEAN,
         NEW bodyOk \in BOOLEAN, NEW spansOk \in BOOLEAN,
         Writable(r, b, withBody), Applied(r, b, withBody, bodyOk, spansOk)
  PROVE  Ceased'
  <1>1. UNCHANGED <<recorders, stopped>>
    BY DEF Applied
  <1>2. ASSUME NEW k \in ServerKinds \ recorders
        PROVE  ~\E i \in DOMAIN b : b[i][2] = k
    BY <1>2, WrittenRecorded
  <1>3. \A k \in ServerKinds \ recorders :
           sources'[k] = sources[k] /\ \A s \in Replicas : known'[s][k] = known[s][k]
    BY <1>2 DEF Applied, TracesTypes
  <1> QED
    BY <1>1, <1>3 DEF Ceased

LEMMA WriteSeconds ==
  ASSUME TracesTypes, Recording, Ceased, Seconds, NEW r \in Replicas, NEW b,
         NEW withBody \in BOOLEAN, NEW bodyOk \in BOOLEAN, NEW spansOk \in BOOLEAN,
         Writable(r, b, withBody), Applied(r, b, withBody, bodyOk, spansOk)
  PROVE  Seconds'
  <1>1. Recent(stopped)' <=> Recent(stopped)
    BY DEF Applied, Recent, Present
  <1>2. \A q \in Requests, k \in Kinds : spans'[q][k] = "none" <=> spans[q][k] = "none"
    BY WriteSpansOf
  <1>3. ServerKinds \subseteq Kinds
    BY DEF Kinds
  <1>4. ASSUME NEW q \in Requests, NEW k \in Kinds, spans'[q][k] = "second"
        PROVE  Recent(stopped) \/ \E m \in Rivals(k) : spans[q][m] # "none"
    <2>1. CASE spans[q][k] = "second"
      BY <2>1 DEF Seconds
    <2>2. CASE spans[q][k] # "second"
      <3>1. PICK i \in DOMAIN b : b[i] = <<q, k>> /\ ~Counted(r, b, i)
        BY <1>4, <2>2 DEF Applied
      <3>2. b[i][1] = q /\ b[i][2] = k
        BY <3>1
      <3>3. PICK m \in Rivals(k) : Seen(r, b, m, i)
        BY <3>1, <3>2, CountedIff
      <3>4. m \in ServerKinds
        BY RivalsOf
      <3>5. spans[q][k] = "sent"
        BY <3>1, <3>2 DEF Writable, Batchable
      <3>6. CASE m \in recorders
        BY <3>4, <3>5, <3>6 DEF Recording
      <3>7. CASE m \notin recorders
        <4>1. ~\E j \in 1..(i - 1) : b[j][2] = m
          <5>1. i \in 1..Len(b) /\ DOMAIN b = 1..Len(b)
            BY DEF Writable, Batchable
          <5>2. \A j \in 1..(i - 1) : j \in DOMAIN b
            BY <5>1
          <5> QED
            BY <3>4, <3>7, <5>2, WrittenRecorded
        <4>2. Recent(known[r][m])
          BY <3>3, <4>1 DEF Seen
        <4>3. known[r][m] <= stopped
          BY <3>4, <3>7 DEF Ceased
        <4>4. Recent(stopped)
          BY <3>4, <4>2, <4>3, Times, TracesConstants DEF Recent
        <4> QED
          BY <4>4
      <3> QED
        BY <3>6, <3>7
    <2> QED
      BY <2>1, <2>2
  <1> QED
    BY <1>1, <1>2, <1>3, <1>4, RivalsOf DEF Seconds

LEMMA WriteKeeps ==
  ASSUME TracesInv, NEW r \in Replicas, NEW b, NEW withBody, Writes(r, b, withBody)
  PROVE  TracesInv'
  <1>1. Writable(r, b, withBody) /\ withBody \in BOOLEAN
    BY DEF Writes, Writable
  <1>2. PICK bodyOk \in BOOLEAN, spansOk \in BOOLEAN : Applied(r, b, withBody, bodyOk, spansOk)
    BY WriteApplied DEF TracesInv
  <1> QED
    BY <1>1, <1>2, WriteTypes, WriteWaits, WriteBody, WriteInformed, WriteTwice, WriteRecording,
       WriteCeased, WriteSeconds DEF TracesInv

-----------------------------------------------------------------------------
(* So do the other steps. *)

\* Once all spans have settled, the batches are empty.
LEMMA SettledEmpty ==
  ASSUME TracesTypes, Waits, AllSettled, NEW r \in Replicas
  PROVE  batch[r] = <<>>
  <1> SUFFICES ASSUME batch[r] # <<>> PROVE FALSE
    OBVIOUS
  <1>1. batch[r] \in Seq(Requests \X Kinds)
    BY DEF TracesTypes
  <1>2. 1 \in DOMAIN batch[r]
    BY <1>1
  <1>3. batch[r][1][1] \in Requests /\ batch[r][1][2] \in Kinds
    BY <1>1, <1>2
  <1> QED
    BY <1>2, <1>3 DEF Waits, AllSettled

LEMMA MishapType ==
  ASSUME TracesTypes, Mishap
  PROVE  mishaps' \in 0..MaxMishaps
  BY TracesConstants DEF TracesTypes, Mishap

LEMMA RequestKeeps ==
  ASSUME TracesInv, NEW q \in Requests, NEW byClient \in BOOLEAN, Request(q, byClient)
  PROVE  TracesInv'
  <1> USE DEF TracesInv
  <1>0. /\ spans[q] = NoSpans
        /\ UNCHANGED <<now, recorders, stopped, early, batch, known, loaded, expired, sources,
                       steady, bodies, writtenAt, bodyRow, newest, moved, mishaps>>
    BY DEF Request
  <1>1. PICK recorded : /\ recorded = recorders \cup (IF byClient THEN {"client"} ELSE {})
                        /\ spans' = [spans EXCEPT ![q] =
                             [k \in Kinds |-> IF k \in recorded THEN "sent" ELSE "none"]]
    BY DEF Request
  <1>2. \A k \in ServerKinds : k \in recorded <=> k \in recorders
    BY <1>1 DEF ServerKinds
  <1>3. /\ spans' \in [Requests -> [Kinds -> Statuses]]
        /\ \A p \in Requests : p # q => spans'[p] = spans[p]
        /\ \A k \in Kinds : spans[q][k] = "none"
        /\ \A k \in Kinds : spans'[q][k] = IF k \in recorded THEN "sent" ELSE "none"
    BY <1>0, <1>1 DEF TracesTypes, Statuses, NoSpans
  <1>4. TracesTypes'
    BY <1>0, <1>3 DEF TracesTypes, Present
  <1>5. Waits'
    <2>1. ASSUME NEW r \in Replicas, NEW i \in DOMAIN batch[r]
          PROVE  spans'[batch[r][i][1]][batch[r][i][2]] = "sent"
      <3>1. PICK p \in Requests, k \in Kinds : batch[r][i] = <<p, k>>
        BY Pairs DEF TracesTypes
      <3>2. spans[p][k] = "sent"
        BY <2>1, <3>1 DEF Waits
      <3>3. p # q
        BY <1>3, <3>2
      <3> QED
        BY <1>3, <3>1, <3>2, <3>3
    <2> QED
      BY <1>0, <2>1 DEF Waits
  <1>6. BodyInv' /\ BodyKept'
    BY <1>0 DEF BodyInv, BodyKept, Lately, Present
  <1>7. Informed' /\ Ceased'
    BY <1>0 DEF Informed, Ceased, Recent, Present
  <1>8. Twice'
    BY <1>0, <1>3, RivalsOf DEF Twice
  <1>9. Recording'
    <2>1. ServerKinds \subseteq Kinds
      BY DEF Kinds
    <2> QED
      BY <1>0, <1>2, <1>3, <2>1 DEF Recording
  <1>10. Seconds'
    BY <1>0, <1>3 DEF Seconds, Recent, Present
  <1> QED
    BY <1>4, <1>5, <1>6, <1>7, <1>8, <1>9, <1>10

\* Spans that are on their way get lost.
LEMMA LossKeeps ==
  ASSUME TracesTypes, Twice, Recording, Seconds,
         spans' \in [Requests -> [Kinds -> Statuses]],
         \A q \in Requests, k \in Kinds :
            spans'[q][k] = spans[q][k] \/ (spans[q][k] = "sent" /\ spans'[q][k] = "lost"),
         UNCHANGED <<now, recorders, stopped, early>>
  PROVE  Twice' /\ Recording' /\ Seconds'
  <1>1. ServerKinds \subseteq Kinds /\ \A k \in Kinds : Rivals(k) \subseteq Kinds
    BY RivalsOf DEF Kinds
  <1>2. \A q \in Requests, k \in Kinds :
           /\ spans'[q][k] = "none" <=> spans[q][k] = "none"
           /\ spans'[q][k] = "sent" => spans[q][k] = "sent"
           /\ spans'[q][k] = "counted" => spans[q][k] = "counted"
           /\ spans'[q][k] = "second" => spans[q][k] = "second"
    OBVIOUS
  <1>3. Twice'
    BY <1>1, <1>2 DEF Twice
  <1>4. Recording'
    BY <1>1, <1>2 DEF Recording
  <1>5. Seconds'
    BY <1>1, <1>2 DEF Seconds, Recent, Present
  <1> QED
    BY <1>3, <1>4, <1>5

LEMMA LoseKeeps ==
  ASSUME TracesInv, NEW q \in Requests, NEW k \in Kinds, Lose(q, k)
  PROVE  TracesInv'
  <1> USE DEF TracesInv
  <1>0. /\ InFlight(q, k) /\ Mishap /\ spans' = [spans EXCEPT ![q][k] = "lost"]
        /\ UNCHANGED <<now, recorders, stopped, early, batch, known, loaded, expired, sources,
                       steady, bodies, writtenAt, bodyRow, newest, moved>>
    BY DEF Lose
  <1>1. /\ spans' \in [Requests -> [Kinds -> Statuses]]
        /\ \A p \in Requests, m \in Kinds :
              spans'[p][m] = IF p = q /\ m = k THEN "lost" ELSE spans[p][m]
    BY <1>0 DEF TracesTypes, Statuses
  <1>2. spans[q][k] = "sent" /\ \A r \in Replicas : \A i \in DOMAIN batch[r] : batch[r][i] # <<q, k>>
    BY <1>0 DEF InFlight, Batched
  <1>3. TracesTypes'
    BY <1>0, <1>1, MishapType DEF TracesTypes, Present
  <1>4. Waits'
    <2>1. ASSUME NEW r \in Replicas, NEW i \in DOMAIN batch[r]
          PROVE  spans'[batch[r][i][1]][batch[r][i][2]] = "sent"
      <3>1. PICK p \in Requests, m \in Kinds : batch[r][i] = <<p, m>>
        BY Pairs DEF TracesTypes
      <3>2. spans[p][m] = "sent"
        BY <2>1, <3>1 DEF Waits
      <3>3. ~(p = q /\ m = k)
        BY <1>2, <2>1, <3>1
      <3> QED
        BY <1>1, <3>1, <3>2, <3>3
    <2> QED
      BY <1>0, <2>1 DEF Waits
  <1>5. BodyInv' /\ BodyKept'
    BY <1>0 DEF BodyInv, BodyKept, Lately, Present
  <1>6. Informed' /\ Ceased'
    BY <1>0 DEF Informed, Ceased, Recent, Present
  <1>7. Twice' /\ Recording' /\ Seconds'
    BY <1>0, <1>1, <1>2, LossKeeps
  <1> QED
    BY <1>3, <1>4, <1>5, <1>6, <1>7

LEMMA RedeployKeeps ==
  ASSUME TracesInv, NEW ks \in SUBSET ServerKinds, Redeploy(ks)
  PROVE  TracesInv'
  <1> USE DEF TracesInv
  <1>0. /\ AllSettled /\ Mishap /\ recorders' = ks
        /\ stopped' = IF recorders \subseteq ks THEN stopped ELSE Present
        /\ UNCHANGED <<now, spans, early, batch, known, loaded, expired, sources, steady, bodies,
                       writtenAt, bodyRow, newest, moved>>
    BY DEF Redeploy
  <1>1. Present' = Present /\ stopped' \in 0..Present /\ stopped <= stopped'
    BY <1>0, Times DEF Present
  <1>2. TracesTypes'
    BY <1>0, <1>1, MishapType DEF TracesTypes
  <1>3. Waits' /\ Twice'
    BY <1>0 DEF Waits, Twice
  <1>4. BodyInv' /\ BodyKept'
    BY <1>0 DEF BodyInv, BodyKept, Lately, Present
  <1>5. Informed'
    BY <1>0 DEF Informed, Recent, Present
  <1>6. Recording'
    BY <1>0 DEF Recording, AllSettled
  <1>7. Ceased'
    <2>1. ASSUME NEW k \in ServerKinds \ ks
          PROVE  sources[k] <= stopped' /\ \A r \in Replicas : known[r][k] <= stopped'
      <3>1. CASE k \in recorders
        BY <1>0, <3>1, Times
      <3>2. CASE k \notin recorders
        <4>1. sources[k] <= stopped /\ \A r \in Replicas : known[r][k] <= stopped
          BY <3>2 DEF Ceased
        <4>2. stopped' \in Nat
          BY <1>1, Times
        <4> QED
          BY <1>1, <4>1, <4>2, Times
      <3> QED
        BY <3>1, <3>2
    <2> QED
      BY <1>0, <2>1 DEF Ceased
  <1>8. Seconds'
    <2>1. Recent(stopped) => Recent(stopped)'
      BY <1>0, <1>1, Times, TracesConstants DEF Recent
    <2> QED
      BY <1>0, <2>1 DEF Seconds
  <1> QED
    BY <1>2, <1>3, <1>4, <1>5, <1>6, <1>7, <1>8

LEMMA LaterType ==
  ASSUME NEW n \in Nat, NEW f \in [ServerKinds -> 0..n], NEW g \in [ServerKinds -> 0..n]
  PROVE  /\ Later(f, g) \in [ServerKinds -> 0..n]
         /\ \A k \in ServerKinds : /\ Later(f, g)[k] >= g[k] /\ Later(f, g)[k] \in Nat
                                   /\ Later(f, g)[k] \in {f[k], g[k]}
  BY DEF Later

LEMMA LaterRecent ==
  ASSUME TracesTypes, NEW r \in Replicas, NEW k \in ServerKinds, Recent(sources[k])
  PROVE  Recent(Later(known[r], sources)[k])
  <1>1. PICK t : t = Later(known[r], sources)[k]
    OBVIOUS
  <1>2. t \in Nat /\ t >= sources[k] /\ sources[k] \in Nat /\ now \in Nat
    <2>1. /\ Present \in Nat /\ known[r] \in [ServerKinds -> 0..Present]
          /\ sources \in [ServerKinds -> 0..Present]
      BY Times DEF TracesTypes
    <2> QED
      BY <1>1, <2>1, Times, LaterType
  <1>3. Recent(t)
    BY <1>2, TracesConstants DEF Recent, Present
  <1> QED
    BY <1>1, <1>3

LEMMA AdvanceKeeps ==
  ASSUME TracesInv, Advance
  PROVE  TracesInv'
  <1> USE DEF TracesInv
  <1>0. /\ now < MaxTime /\ AllSettled /\ now' = now + 1
        /\ spans' = [q \in Requests |-> NoSpans] /\ early' = {}
        /\ known' = [r \in Replicas |-> Later(known[r], sources)]
        /\ loaded' = [r \in Replicas |-> TRUE] /\ expired' = [r \in Replicas |-> FALSE]
        /\ steady' = {k \in ServerKinds : sources[k] > 0 /\ Present + 1 - sources[k] < Memory}
        /\ UNCHANGED <<recorders, stopped, batch, sources, bodies, writtenAt, bodyRow, newest,
                       moved, mishaps>>
    BY DEF Advance
  <1>1. now' \in 0..MaxTime /\ Present' = Present + 1
    BY <1>0, Times, TracesConstants DEF Present
  <1>2. \A t \in 0..Present : t \in 0..Present'
    BY <1>1, Times
  <1>3. \A r \in Replicas : /\ Later(known[r], sources) \in [ServerKinds -> 0..Present]
                            /\ \A k \in ServerKinds :
                                  Later(known[r], sources)[k] \in {known[r][k], sources[k]}
    BY Times, LaterType DEF TracesTypes
  <1>4. known' \in [Replicas -> [ServerKinds -> 0..Present']]
    BY <1>0, <1>2, <1>3
  <1>5. \A q \in Requests, k \in Kinds : spans'[q][k] = "none"
    BY <1>0 DEF NoSpans
  <1>6. TracesTypes'
    <2>1. spans' \in [Requests -> [Kinds -> Statuses]]
      BY <1>0 DEF NoSpans, Statuses
    <2>2. sources' \in [ServerKinds -> 0..Present'] /\ writtenAt' \in [Replicas -> 0..Present']
      BY <1>0, <1>2 DEF TracesTypes
    <2>3. /\ stopped' \in 0..Present' /\ bodyRow' \in 0..Present'
          /\ newest' \in 0..Present' /\ moved' \in 0..Present'
      BY <1>0, <1>2 DEF TracesTypes
    <2>4. /\ steady' \in SUBSET ServerKinds /\ early' \in SUBSET Requests
          /\ loaded' \in [Replicas -> BOOLEAN] /\ expired' \in [Replicas -> BOOLEAN]
      BY <1>0
    <2> QED
      BY <1>0, <1>1, <1>4, <2>1, <2>2, <2>3, <2>4 DEF TracesTypes
  <1>7. \A r \in Replicas : batch'[r] = <<>>
    BY <1>0, SettledEmpty
  <1>8. Waits'
    BY <1>7 DEF Waits
  <1>9. BodyInv' /\ BodyKept'
    BY <1>0, <1>7 DEF BodyInv, BodyKept
  <1>10. Informed'
    <2>1. ASSUME NEW k \in steady'
          PROVE  Recent(sources[k])' /\ \A r \in Replicas : Recent(known[r][k])'
      <3>1. /\ k \in ServerKinds /\ sources[k] > 0 /\ Present + 1 - sources[k] < Memory
            /\ sources[k] \in Nat
        BY <1>0, Times
      <3>2. sources'[k] = sources[k] /\ \A r \in Replicas : known'[r][k] = Later(known[r], sources)[k]
        BY <1>0
      <3>3. \A r \in Replicas : Later(known[r], sources)[k] >= sources[k]
                                /\ Later(known[r], sources)[k] \in Nat
        <4>1. /\ Present \in Nat /\ sources \in [ServerKinds -> 0..Present]
              /\ \A r \in Replicas : known[r] \in [ServerKinds -> 0..Present]
          BY Times DEF TracesTypes
        <4> QED
          BY <3>1, <4>1, LaterType
      <3> QED
        BY <1>1, <3>1, <3>2, <3>3, Times, TracesConstants DEF Recent
    <2> QED
      BY <2>1 DEF Informed
  <1>11. Twice' /\ Recording' /\ Seconds'
    BY <1>5 DEF Twice, Recording, Seconds
  <1>12. Ceased'
    BY <1>0, <1>3 DEF Ceased
  <1> QED
    BY <1>6, <1>8, <1>9, <1>10, <1>11, <1>12

LEMMA MoveKeeps ==
  ASSUME TracesInv, Move
  PROVE  TracesInv'
  <1> USE DEF TracesInv
  <1>0. /\ AllSettled /\ Mishap
        /\ sources' = [k \in ServerKinds |-> 0] /\ steady' = {}
        /\ bodyRow' = 0 /\ newest' = 0 /\ moved' = Present
        /\ UNCHANGED <<now, recorders, stopped, spans, early, batch, known, loaded, expired, bodies,
                       writtenAt>>
    BY DEF Move
  <1>1. Present' = Present /\ 0 \in 0..Present /\ Present \in 0..Present
    BY <1>0, Times DEF Present
  <1>2. TracesTypes'
    BY <1>0, <1>1, MishapType DEF TracesTypes
  <1>3. \A r \in Replicas : batch'[r] = <<>>
    BY <1>0, SettledEmpty
  <1>4. Waits'
    BY <1>3 DEF Waits
  <1>5. BodyInv' /\ BodyKept'
    BY <1>0, <1>3, Times DEF BodyInv, BodyKept
  <1>6. Informed'
    BY <1>0 DEF Informed
  <1>7. Twice' /\ Recording'
    BY <1>0 DEF Twice, Recording
  <1>8. Seconds'
    BY <1>0 DEF Seconds, Recent, Present
  <1>9. Ceased'
    BY <1>0, Times DEF Ceased
  <1> QED
    BY <1>2, <1>4, <1>5, <1>6, <1>7, <1>8, <1>9

LEMMA HoldKeeps ==
  ASSUME TracesInv, NEW r \in Replicas, NEW q \in Requests, NEW k \in Kinds, Holds(r, q, k)
  PROVE  TracesInv'
  <1> USE DEF TracesInv
  <1>0. /\ InFlight(q, k)
        /\ bodies' = [bodies EXCEPT ![r] = WithBody(r)]
        /\ UNCHANGED <<now, recorders, stopped, loaded, expired, steady, moved, spans, early,
                       known, sources, writtenAt, bodyRow, newest, mishaps>>
    BY DEF Holds
  <1>1. PICK b : b = Append(batch[r], <<q, k>>) /\ batch' = [batch EXCEPT ![r] = b]
    BY DEF Holds
  <1>2. Batchable(r, b)
    BY <1>0, <1>1, Appended
  <1>3. TracesTypes'
    <2>1. batch' \in [Replicas -> Seq(Requests \X Kinds)]
      BY <1>1, <1>2 DEF TracesTypes, Batchable
    <2>2. bodies' \in [Replicas -> BOOLEAN]
      BY <1>0, WithBodyType DEF TracesTypes
    <2> QED
      BY <1>0, <2>1, <2>2 DEF TracesTypes, Present
  <1>4. \A s \in Replicas : batch'[s] = IF s = r THEN b ELSE batch[s]
    BY <1>1 DEF TracesTypes
  <1>5. Waits'
    <2>1. ASSUME NEW s \in Replicas, NEW i \in DOMAIN batch'[s]
          PROVE  spans[batch'[s][i][1]][batch'[s][i][2]] = "sent"
      BY <1>2, <1>4, <2>1 DEF Waits, Batchable
    <2>2. ASSUME NEW s \in Replicas, NEW t \in Replicas, NEW i \in DOMAIN batch'[s],
                 NEW j \in DOMAIN batch'[t], batch'[s][i] = batch'[t][j]
          PROVE  s = t /\ i = j
      <3>1. CASE s = r /\ t = r
        BY <1>2, <1>4, <2>2, <3>1 DEF Batchable
      <3>2. CASE s = r /\ t # r
        BY <1>2, <1>4, <2>2, <3>2 DEF Batchable
      <3>3. CASE s # r /\ t = r
        BY <1>2, <1>4, <2>2, <3>3 DEF Batchable
      <3>4. CASE s # r /\ t # r
        BY <1>4, <2>2, <3>4 DEF Waits
      <3> QED
        BY <3>1, <3>2, <3>3, <3>4
    <2> QED
      BY <1>0, <2>1, <2>2 DEF Waits
  <1>6. BodyInv' /\ BodyKept'
    <2>1. ASSUME NEW s \in Replicas, batch'[s] # <<>>, ~bodies'[s]
          PROVE  Lately(bodyRow) \/ Lately(moved)
      <3>1. CASE s = r
        <4>1. ~WithBody(r)
          BY <1>0, <2>1, <3>1 DEF TracesTypes
        <4> QED
          BY <4>1, Without
      <3>2. CASE s # r
        <4>1. batch[s] # <<>> /\ ~bodies[s]
          BY <1>0, <1>4, <2>1, <3>2 DEF TracesTypes
        <4> QED
          BY <4>1 DEF BodyInv
      <3> QED
        BY <3>1, <3>2
    <2>2. BodyKept' /\ (Lately(bodyRow) \/ Lately(moved) => (Lately(bodyRow) \/ Lately(moved))')
      BY <1>0 DEF BodyKept, Lately, Present
    <2> QED
      BY <1>0, <2>1, <2>2 DEF BodyInv
  <1>7. Informed' /\ Ceased' /\ Seconds'
    BY <1>0 DEF Informed, Ceased, Seconds, Recent, Present
  <1>8. Twice' /\ Recording'
    BY <1>0 DEF Twice, Recording
  <1> QED
    BY <1>3, <1>5, <1>6, <1>7, <1>8

LEMMA ForgetKeeps ==
  ASSUME TracesInv, NEW r \in Replicas, Forget(r)
  PROVE  TracesInv'
  <1> USE DEF TracesInv
  <1>0. /\ writtenAt' = [writtenAt EXCEPT ![r] = 0]
        /\ UNCHANGED <<now, recorders, stopped, spans, early, batch, known, loaded, expired,
                       sources, steady, bodies, bodyRow, newest, moved, mishaps>>
    BY DEF Forget
  <1>1. 0 \in 0..Present /\ \A s \in Replicas : writtenAt'[s] \in {0, writtenAt[s]}
    BY <1>0, Times DEF TracesTypes
  <1>2. TracesTypes'
    BY <1>0, <1>1 DEF TracesTypes, Present
  <1>3. Waits' /\ Twice' /\ Recording'
    BY <1>0 DEF Waits, Twice, Recording
  <1>4. BodyKept' /\ BodyInv'
    <2>1. \A s \in Replicas : writtenAt'[s] <= bodyRow \/ writtenAt'[s] <= moved
      BY <1>1, Times DEF BodyInv
    <2> QED
      BY <1>0, <2>1 DEF BodyKept, BodyInv, Lately, Present
  <1>5. Informed' /\ Ceased' /\ Seconds'
    BY <1>0 DEF Informed, Ceased, Seconds, Recent, Present
  <1> QED
    BY <1>2, <1>3, <1>4, <1>5

LEMMA ReadKeeps ==
  ASSUME TracesInv, NEW r \in Replicas, ReadSources(r)
  PROVE  TracesInv'
  <1> USE DEF TracesInv
  <1>0. /\ loaded' = [loaded EXCEPT ![r] = TRUE] /\ expired' = [expired EXCEPT ![r] = FALSE]
        /\ UNCHANGED <<now, recorders, stopped, spans, early, batch, sources, steady, bodies,
                       writtenAt, bodyRow, newest, moved, mishaps>>
    BY DEF ReadSources
  <1>1. PICK f : f = Later(known[r], sources)
    OBVIOUS
  <1>2. known' = [known EXCEPT ![r] = f]
    BY <1>1 DEF ReadSources, TracesTypes
  <1>3. /\ f \in [ServerKinds -> 0..Present]
        /\ \A k \in ServerKinds : f[k] \in {known[r][k], sources[k]}
    BY <1>1, Times, LaterType DEF TracesTypes
  <1>4. TracesTypes'
    <2>1. known' \in [Replicas -> [ServerKinds -> 0..Present]]
      BY <1>2, <1>3 DEF TracesTypes
    <2> QED
      BY <1>0, <2>1 DEF TracesTypes, Present
  <1>5. Waits' /\ Twice' /\ Recording'
    BY <1>0 DEF Waits, Twice, Recording
  <1>6. BodyKept' /\ BodyInv'
    BY <1>0 DEF BodyKept, BodyInv, Lately, Present
  <1>7. \A s \in Replicas : known'[s] = IF s = r THEN f ELSE known[s]
    BY <1>2 DEF TracesTypes
  <1>8. Informed'
    <2>1. \A k \in steady : Recent(f[k])
      BY <1>1, LaterRecent DEF Informed, TracesTypes
    <2>2. \A k \in steady, s \in Replicas :
             loaded'[s] /\ ~expired'[s] => Recent(known'[s][k])
      BY <1>0, <1>7, <2>1 DEF Informed, TracesTypes
    <2> QED
      BY <1>0, <2>2 DEF Informed, Recent, Present
  <1>9. Ceased'
    BY <1>0, <1>3, <1>7 DEF Ceased
  <1>10. Seconds'
    BY <1>0 DEF Seconds, Recent, Present
  <1> QED
    BY <1>4, <1>5, <1>6, <1>8, <1>9, <1>10

LEMMA HoldExpiresKeeps ==
  ASSUME TracesInv, NEW r \in Replicas, HoldExpires(r)
  PROVE  TracesInv'
  <1> USE DEF TracesInv
  <1>0. /\ Mishap
        /\ loaded' = [loaded EXCEPT ![r] = TRUE] /\ expired' = [expired EXCEPT ![r] = TRUE]
        /\ UNCHANGED <<now, recorders, stopped, spans, early, batch, known, sources, steady, bodies,
                       writtenAt, bodyRow, newest, moved>>
    BY DEF HoldExpires
  <1>1. TracesTypes'
    BY <1>0, MishapType DEF TracesTypes, Present
  <1>2. Waits' /\ Twice' /\ Recording'
    BY <1>0 DEF Waits, Twice, Recording
  <1>3. BodyKept' /\ BodyInv'
    BY <1>0 DEF BodyKept, BodyInv, Lately, Present
  <1>4. Informed'
    <2>1. \A s \in Replicas : loaded'[s] /\ ~expired'[s] => loaded[s] /\ ~expired[s]
      BY <1>0 DEF TracesTypes
    <2> QED
      BY <1>0, <2>1 DEF Informed, Recent, Present
  <1>5. Ceased' /\ Seconds'
    BY <1>0 DEF Ceased, Seconds, Recent, Present
  <1> QED
    BY <1>1, <1>2, <1>3, <1>4, <1>5

LEMMA RestartKeeps ==
  ASSUME TracesInv, NEW r \in Replicas, TracesRestart(r)
  PROVE  TracesInv'
  <1> USE DEF TracesInv
  <1>0. /\ mishaps' = mishaps \/ Mishap
        /\ spans' = [q \in Requests |-> [k \in Kinds |->
                       IF \E i \in DOMAIN batch[r] : batch[r][i] = <<q, k>> THEN "lost"
                                                                           ELSE spans[q][k]]]
        /\ batch' = [batch EXCEPT ![r] = <<>>]
        /\ known' = [known EXCEPT ![r] = [k \in ServerKinds |-> 0]]
        /\ loaded' = [loaded EXCEPT ![r] = FALSE]
        /\ expired' = [expired EXCEPT ![r] = FALSE]
        /\ bodies' = [bodies EXCEPT ![r] = FALSE]
        /\ writtenAt' = [writtenAt EXCEPT ![r] = 0]
        /\ UNCHANGED <<now, recorders, stopped, early, sources, steady, bodyRow, newest, moved>>
    BY DEF TracesRestart
  <1> DEFINE In(q, k) == \E i \in DOMAIN batch[r] : batch[r][i] = <<q, k>>
  <1>1. \A q \in Requests, k \in Kinds : In(q, k) => spans[q][k] = "sent"
    BY DEF Waits
  <1>2. spans' = [q \in Requests |-> [k \in Kinds |-> IF In(q, k) THEN "lost" ELSE spans[q][k]]]
    BY <1>0
  <1>3. \A q \in Requests, k \in Kinds :
           spans'[q][k] = IF In(q, k) THEN "lost" ELSE spans[q][k]
    BY <1>2
  <1>4. spans' \in [Requests -> [Kinds -> Statuses]]
    <2> HIDE DEF In
    <2> QED
      BY <1>2 DEF TracesTypes, Statuses
  <1>5. Twice' /\ Recording' /\ Seconds'
    <2>1. \A q \in Requests, k \in Kinds :
             spans'[q][k] = spans[q][k] \/ (spans[q][k] = "sent" /\ spans'[q][k] = "lost")
      <3> HIDE DEF In
      <3> QED
        BY <1>1, <1>3
    <2> QED
      BY <1>0, <1>4, <2>1, LossKeeps
  <1>6. TracesTypes'
    <2>1. mishaps' \in 0..MaxMishaps
      BY <1>0, MishapType DEF TracesTypes
    <2>2. 0 \in 0..Present
      BY Times
    <2>3. known' \in [Replicas -> [ServerKinds -> 0..Present]]
      BY <1>0, <2>2 DEF TracesTypes
    <2>4. writtenAt' \in [Replicas -> 0..Present]
      BY <1>0, <2>2 DEF TracesTypes
    <2>5. batch' \in [Replicas -> Seq(Requests \X Kinds)]
      BY <1>0 DEF TracesTypes
    <2>6. /\ loaded' \in [Replicas -> BOOLEAN] /\ expired' \in [Replicas -> BOOLEAN]
          /\ bodies' \in [Replicas -> BOOLEAN]
      BY <1>0 DEF TracesTypes
    <2> QED
      BY <1>0, <1>4, <2>1, <2>3, <2>4, <2>5, <2>6 DEF TracesTypes, Present
  <1>7. \A s \in Replicas : batch'[s] # <<>> => s # r /\ batch'[s] = batch[s] /\ bodies'[s] = bodies[s]
    BY <1>0 DEF TracesTypes
  <1>8. Waits'
    <2>0. \A s \in Replicas : \A i \in DOMAIN batch'[s] :
             s # r /\ batch'[s] = batch[s] /\ i \in DOMAIN batch[s]
      BY <1>0 DEF TracesTypes
    <2>1. ASSUME NEW s \in Replicas, NEW i \in DOMAIN batch'[s]
          PROVE  spans'[batch'[s][i][1]][batch'[s][i][2]] = "sent"
      <3>0. s # r /\ batch'[s] = batch[s] /\ i \in DOMAIN batch[s]
        BY <2>0, <2>1
      <3>1. PICK q \in Requests, k \in Kinds : batch[s][i] = <<q, k>>
        BY <3>0, Pairs DEF TracesTypes
      <3>2. spans[q][k] = "sent"
        BY <3>0, <3>1 DEF Waits
      <3>3. ~In(q, k)
        BY <3>0, <3>1 DEF Waits
      <3>4. spans'[q][k] = "sent"
        BY <1>3, <3>2, <3>3
      <3> QED
        BY <3>0, <3>1, <3>4
    <2> QED
      BY <2>0, <2>1 DEF Waits
  <1>9. BodyKept' /\ BodyInv'
    <2>1. \A s \in Replicas : writtenAt'[s] \in {0, writtenAt[s]}
      BY <1>0 DEF TracesTypes
    <2>2. \A s \in Replicas : writtenAt'[s] <= bodyRow \/ writtenAt'[s] <= moved
      BY <2>1, Times DEF BodyInv
    <2> QED
      BY <1>0, <1>7, <2>2 DEF BodyKept, BodyInv, Lately, Present
  <1>10. Informed'
    <2>1. \A s \in Replicas : loaded'[s] => s # r /\ loaded[s] /\ expired'[s] = expired[s]
                                            /\ known'[s] = known[s]
      BY <1>0 DEF TracesTypes
    <2> QED
      BY <1>0, <2>1 DEF Informed, Recent, Present
  <1>11. Ceased'
    <2>1. \A s \in Replicas, k \in ServerKinds : known'[s][k] \in {0, known[s][k]}
      BY <1>0 DEF TracesTypes
    <2> QED
      BY <1>0, <2>1, Times DEF Ceased
  <1> QED
    BY <1>5, <1>6, <1>8, <1>9, <1>10, <1>11

-----------------------------------------------------------------------------
LEMMA TracesInitKeeps ==
  ASSUME TracesInit
  PROVE  TracesInv
  <1>1. /\ now = 0 /\ Present = 1 /\ stopped = 0 /\ early = {} /\ steady = {} /\ mishaps = 0
        /\ bodyRow = 0 /\ newest = 0 /\ moved = 0 /\ recorders \in SUBSET ServerKinds
        /\ spans = [q \in Requests |-> NoSpans]
        /\ batch = [r \in Replicas |-> <<>>]
        /\ known = [r \in Replicas |-> [k \in ServerKinds |-> 0]]
        /\ loaded = [r \in Replicas |-> FALSE] /\ expired = [r \in Replicas |-> FALSE]
        /\ sources = [k \in ServerKinds |-> 0]
        /\ bodies = [r \in Replicas |-> FALSE] /\ writtenAt = [r \in Replicas |-> 0]
    BY DEF TracesInit, Present
  <1>2. \A q \in Requests, k \in Kinds : spans[q][k] = "none"
    BY <1>1 DEF NoSpans
  <1>3. spans \in [Requests -> [Kinds -> Statuses]]
    BY <1>1 DEF NoSpans, Statuses
  <1>4. TracesTypes
    BY <1>1, <1>3, TracesConstants DEF TracesTypes
  <1>5. Waits /\ BodyInv /\ BodyKept
    BY <1>1 DEF Waits, BodyInv, BodyKept
  <1>6. Informed /\ Ceased
    BY <1>1 DEF Informed, Ceased
  <1>7. Twice /\ Recording /\ Seconds
    BY <1>2 DEF Twice, Recording, Seconds
  <1> QED
    BY <1>4, <1>5, <1>6, <1>7 DEF TracesInv

LEMMA TracesStepKeeps ==
  ASSUME TracesInv, [TracesNext]_tracesVars
  PROVE  TracesInv'
  <1>1. ASSUME NEW r \in Replicas, NEW q \in Requests, NEW k \in Kinds, Add(r, q, k)
        PROVE  TracesInv'
    <2>1. Holds(r, q, k) \/ \E b, withBody : Writes(r, b, withBody)
      BY <1>1, AddWritesOrHolds DEF TracesInv
    <2> QED
      BY <2>1, HoldKeeps, WriteKeeps
  <1>2. ASSUME NEW r \in Replicas, SaveBatch(r)
        PROVE  TracesInv'
    BY <1>2, SaveWrites, WriteKeeps DEF TracesInv
  <1>3. CASE UNCHANGED tracesVars
    <2> USE <1>3 DEF tracesVars
    <2>1. TracesTypes'
      BY DEF TracesInv, TracesTypes, Present
    <2>2. Waits' /\ Twice' /\ Recording'
      BY DEF TracesInv, Waits, Twice, Recording
    <2>3. BodyKept' /\ BodyInv'
      BY DEF TracesInv, BodyKept, BodyInv, Lately, Present
    <2>4. Informed' /\ Ceased' /\ Seconds'
      BY DEF TracesInv, Informed, Ceased, Seconds, Recent, Present
    <2> QED
      BY <2>1, <2>2, <2>3, <2>4 DEF TracesInv
  <1>4. CASE TracesNext
    BY <1>1, <1>2, <1>4, RequestKeeps, LoseKeeps, RedeployKeeps, AdvanceKeeps, MoveKeeps,
       ForgetKeeps, ReadKeeps, HoldExpiresKeeps, RestartKeeps DEF TracesNext
  <1> QED
    BY <1>3, <1>4

LEMMA TracesInvariant == TracesSpec => []TracesInv
  BY TracesInitKeeps, TracesStepKeeps, PTL DEF TracesSpec

\* The types of the spans, the batches and what replicas and ClickHouse
\* remember, whatever is lost, restarts, moves or is deployed.
THEOREM TracesTypeCorrect == TracesSpec => []TracesTypeOK
  <1>1. TracesInv => TracesTypeOK
    BY DEF TracesInv, TracesTypes, TracesTypeOK
  <1> QED
    BY <1>1, TracesInvariant, PTL

\* saveBodies: a stored span whose body did not fail has it in trace_bodies,
\* whichever replica wrote it, and whatever the others remember.
THEOREM BodyKeptSafety == TracesSpec => []BodyKept
  <1>1. TracesInv => BodyKept
    BY DEF TracesInv
  <1> QED
    BY <1>1, TracesInvariant, PTL

LEMMA CountTwo ==
  ASSUME TracesTypes, NEW q \in Requests, Count(q) > 1
  PROVE  \E k \in Kinds : \E m \in Rivals(k) : spans[q][k] = "counted" /\ spans[q][m] = "counted"
  <1> DEFINE C == {k \in Kinds : spans[q][k] = "counted"}
  <1>1. C \subseteq Kinds /\ Cardinality(C) > 1
    BY DEF Count
  <1>2. C # {} /\ \A x : C # {x}
    <2> HIDE DEF C
    <2>1. C # {}
      <3>1. Cardinality({}) = 0 /\ ~(0 > 1)
        BY FS_EmptySet
      <3> QED
        BY <1>1, <3>1
    <2>2. ASSUME NEW x, C = {x} PROVE FALSE
      <3>1. Cardinality({x}) = 1
        BY FS_Singleton
      <3>2. ~(1 > 1)
        OBVIOUS
      <3> QED
        BY <1>1, <2>2, <3>1, <3>2
    <2> QED
      BY <2>1, <2>2
  <1>3. PICK k \in C, m \in C : k # m
    <2> HIDE DEF C
    <2> QED
      BY <1>2
  <1>4. k \in Kinds /\ m \in Kinds /\ spans[q][k] = "counted" /\ spans[q][m] = "counted"
    OBVIOUS
  <1>5. m \in Rivals(k) \/ k \in Rivals(m)
    BY <1>3, <1>4, RivalsOf DEF Kinds, ServerKinds
  <1> QED
    BY <1>4, <1>5

\* counted: whichever replicas its spans reach and in which order, a request is
\* counted twice only by one that could not know of the server's side, however
\* many replicas there are and whatever restarts.
THEOREM CountedAtMostOnceSafety == TracesSpec => []CountedAtMostOnce
  <1>1. ASSUME TracesInv
        PROVE  CountedAtMostOnce
    <2> SUFFICES ASSUME NEW q \in Requests, Count(q) > 1
                 PROVE  q \in early
      BY DEF CountedAtMostOnce
    <2>1. PICK k \in Kinds : \E m \in Rivals(k) : spans[q][k] = "counted" /\ spans[q][m] = "counted"
      BY <1>1, CountTwo DEF TracesInv
    <2>2. PICK m \in Rivals(k) : spans[q][k] = "counted" /\ spans[q][m] = "counted"
      BY <2>1
    <2>3. spans[q][m] # "none"
      BY <2>2
    <2> QED
      BY <1>1, <2>2, <2>3 DEF TracesInv, Twice
  <1> QED
    BY <1>1, TracesInvariant, PTL

LEMMA CountNone ==
  ASSUME NEW q \in Requests, Count(q) = 0
  PROVE  \A k \in Kinds : spans[q][k] # "counted"
  <1> DEFINE C == {k \in Kinds : spans[q][k] = "counted"}
  <1>0. Kinds = {"agent", "sdk", "client"}
    BY DEF Kinds, ServerKinds
  <1>1. IsFiniteSet({"agent", "sdk", "client"})
    <2>1. IsFiniteSet({}) /\ IsFiniteSet({} \cup {"agent"})
      BY FS_EmptySet, FS_AddElement
    <2>2. IsFiniteSet(({} \cup {"agent"}) \cup {"sdk"})
      BY <2>1, FS_AddElement
    <2>3. IsFiniteSet((({} \cup {"agent"}) \cup {"sdk"}) \cup {"client"})
      BY <2>2, FS_AddElement
    <2>4. (({} \cup {"agent"}) \cup {"sdk"}) \cup {"client"} = {"agent", "sdk", "client"}
      OBVIOUS
    <2> QED
      BY <2>3, <2>4
  <1>2. IsFiniteSet(C)
    BY <1>0, <1>1, FS_Subset
  <1>3. Cardinality(C) = 0
    BY DEF Count
  <1>4. C = {}
    <2> HIDE DEF C
    <2> QED
      BY <1>2, <1>3, FS_EmptySet
  <1> QED
    BY <1>4

\* "never a request not counted": of the spans of a request that are all
\* stored, one counts, unless the server ceased to record lately.
THEOREM CountedAtLeastOnceSafety == TracesSpec => []CountedAtLeastOnce
  <1>1. ASSUME TracesInv
        PROVE  CountedAtLeastOnce
    <2> SUFFICES ASSUME NEW q \in Requests, Stored(q), Count(q) = 0, ~Recent(stopped)
                 PROVE  FALSE
      BY DEF CountedAtLeastOnce, Recent
    <2>1. \A k \in Kinds : spans[q][k] \in {"none", "second"}
      BY CountNone DEF Stored
    <2>2. PICK k \in Kinds : spans[q][k] # "none"
      BY <1>1 DEF Stored, NoSpans, TracesInv, TracesTypes
    <2>3. \A m \in Kinds : spans[q][m] # "none" => \E n \in Rivals(m) : spans[q][n] # "none"
      BY <1>1, <2>1 DEF TracesInv, Seconds
    <2>4. "sdk" \in Kinds /\ "agent" \in Kinds /\ "client" \in Kinds
      BY DEF Kinds, ServerKinds
    <2>5. spans[q]["sdk"] = "none"
      BY <2>3, <2>4, RivalsOf
    <2>6. spans[q]["agent"] = "none"
      BY <2>3, <2>4, <2>5, RivalsOf
    <2>7. spans[q]["client"] = "none"
      BY <2>3, <2>4, <2>5, <2>6, RivalsOf
    <2> QED
      BY <2>2, <2>5, <2>6, <2>7 DEF Kinds, ServerKinds
  <1> QED
    BY <1>1, TracesInvariant, PTL
=============================================================================
