----------------------- MODULE SchemaMigrationProofs -----------------------
(***************************************************************************)
(* Proofs about SchemaMigration for any replicas, migrators, databases,    *)
(* numbers of migrations and statements, and any number of faults.         *)
(*                                                                         *)
(* TakeTurns follows from one fact: who is inside WithLock and has not     *)
(* lost its session is the holder of the lock.  RecordedIsApplied needs to *)
(* know what a migrator may rely on while others overtake it: whatever it  *)
(* counts as applied is applied, because nothing but a wipe takes a        *)
(* statement back.                                                         *)
(***************************************************************************)
EXTENDS SchemaMigration, TLAPS

USE CommonAssumption, MigrationAssumption

\* A migrator inside whose session lives is the one that holds the lock.
InsideHolds ==
    \A m \in Migrators : mig[m].pc \in Inside /\ ~mig[m].lost => lock = m

\* A migrator at work has a database, and there is a migration after the ones it
\* counts as applied.
Working ==
    \A m \in Migrators :
        /\ mig[m].pc # "idle" => mig[m].ch \in ClickHouses
        /\ mig[m].pc \in {"exec", "record"} => mig[m].version < Latest

\* What c owes to Coroot alone: it was not wiped, and has its name for itself.
Own(c) == c \notin wiped /\ Sole(c)

\* What m counts as applied is applied.
Counts(m) ==
    mig[m].pc \in {"sentinel", "exec", "record"} /\ Own(mig[m].ch) =>
        /\ Migrated(mig[m].ch, mig[m].version)
        /\ mig[m].pc = "exec" =>
              \A i \in 1..Size : i < mig[m].at =>
                  <<mig[m].version + 1, i>> \in applied[mig[m].ch]
        /\ mig[m].pc = "record" => Whole(mig[m].ch, mig[m].version + 1)

CountsApplied == \A m \in Migrators : Counts(m)

-----------------------------------------------------------------------------
(* The types *)

LEMMA InitTypes == MigrationInit => MigrationTypeOK /\ Working
  BY DEF MigrationInit, MigrationTypeOK, Working, Migrator, Idle, Inside, Statements

LEMMA IdleType == Idle \in Migrator
  BY DEF Idle, Migrator

\* A migrator that goes on with v migrations applied, from the first statement.
LEMMA ContinuesType ==
  ASSUME NEW x \in Migrator, NEW v \in 0..Latest, NEW to \in {"exec", "unlock"}
  PROVE  [x EXCEPT !.pc = to, !.version = v, !.at = 1] \in Migrator
<1> DEFINE y == [x EXCEPT !.pc = to, !.version = v]
<1>1. y \in Migrator
  BY DEF Migrator, Inside
<1>2. [x EXCEPT !.pc = to, !.version = v, !.at = 1] = [y EXCEPT !.at = 1]
  OBVIOUS
<1> HIDE DEF y
<1>3. [y EXCEPT !.at = 1] \in Migrator
  BY <1>1 DEF Migrator
<1> QED BY <1>2, <1>3

\* Continue sends a migrator where its counters allow.
LEMMA ContinueTypes ==
  ASSUME MigrationTypeOK, Working, NEW m \in Migrators, NEW v \in 0..Latest,
         mig[m].pc # "idle", Continue(m, v)
  PROVE  mig' \in [Migrators -> Migrator] /\ Working'
<1> DEFINE to == IF v < release[ReplicaOf[m]] THEN "exec" ELSE "unlock"
           new == [mig[m] EXCEPT !.pc = to, !.version = v, !.at = 1]
<1>1. mig' = [mig EXCEPT ![m] = new]
  BY DEF Continue, MigrationTypeOK
<1>2. to \in {"exec", "unlock"} /\ (to = "exec" => v < Latest)
  BY DEF MigrationTypeOK
<1>3. new.ch = mig[m].ch /\ new.pc = to /\ new.version = v
  BY SMTT(60) DEF MigrationTypeOK, Migrator
<1> HIDE DEF to
<1>4. new \in Migrator
  BY <1>2, ContinuesType DEF MigrationTypeOK
<1> HIDE DEF new
<1>5. mig' \in [Migrators -> Migrator]
  BY <1>1, <1>4 DEF MigrationTypeOK
<1>6. Working'
  BY <1>1, <1>2, <1>3 DEF MigrationTypeOK, Working
<1> QED BY <1>5, <1>6

LEMMA NextTypes ==
  MigrationTypeOK /\ Working /\ [MigrationNext]_migrationVars => MigrationTypeOK' /\ Working'
<1> SUFFICES ASSUME MigrationTypeOK, Working, [MigrationNext]_migrationVars
             PROVE  MigrationTypeOK' /\ Working'
  OBVIOUS
<1> DEFINE Types == MigrationTypeOK' /\ Working'
<1>1. ASSUME NEW m \in Migrators, NEW c \in ClickHouses, Call(m, c) PROVE Types
  <2>1. [Idle EXCEPT !.pc = "lock", !.ch = c] \in Migrator
    BY IdleType DEF Migrator, Inside
  <2>2. mig' \in [Migrators -> Migrator]
    BY <1>1, <2>1 DEF Call, MigrationTypeOK
  <2>3. Working'
    BY <1>1 DEF Call, MigrationTypeOK, Working, Idle
  <2> QED BY <1>1, <2>2, <2>3 DEF Call, MigrationTypeOK
<1>2. ASSUME NEW m \in Migrators, Acquire(m) PROVE Types
  <2>1. MigrationTypeOK'
    BY <1>2, SMTT(60) DEF Acquire, MigrationTypeOK, Migrator, Inside
  <2>2. Working'
    BY <1>2 DEF Acquire, MigrationTypeOK, Working
  <2> QED BY <2>1, <2>2
<1>3. ASSUME NEW m \in Migrators, Unlock(m) PROVE Types
  <2>1. MigrationTypeOK'
    BY <1>3, SMTT(60) DEF Unlock, MigrationTypeOK, Migrator, Inside
  <2>2. Working'
    BY <1>3 DEF Unlock, MigrationTypeOK, Working
  <2> QED BY <2>1, <2>2
<1>4. ASSUME NEW m \in Migrators, UnlockFails(m) PROVE Types
  <2>1. MigrationTypeOK'
    <3>1. mig' \in [Migrators -> Migrator]
      <4> DEFINE x == [mig[m] EXCEPT !.pc = "return"]
      <4>1. mig' = [mig EXCEPT ![m] = x] /\ mig \in [Migrators -> Migrator]
        BY <1>4 DEF UnlockFails, MigrationTypeOK
      <4>2. x \in Migrator
        BY <4>1 DEF Migrator
      <4> HIDE DEF x
      <4> QED BY <4>1, <4>2
    <3> QED BY <1>4, <3>1 DEF UnlockFails, MigrationTypeOK
  <2>2. Working'
    BY <1>4 DEF UnlockFails, MigrationTypeOK, Working
  <2> QED BY <2>1, <2>2
<1>5. ASSUME NEW m \in Migrators, Return(m) PROVE Types
  <2>1. MigrationTypeOK'
    BY <1>5, IdleType DEF Return, MigrationTypeOK
  <2>2. Working'
    BY <1>5 DEF Return, MigrationTypeOK, Working, Idle
  <2> QED BY <2>1, <2>2
<1>6. ASSUME NEW m \in Migrators, SessionEnds(m) PROVE Types
  <2>1. ASSUME NEW x \in Migrator PROVE [x EXCEPT !.lost = TRUE] \in Migrator
    BY DEF Migrator
  <2>2. mig' = [mig EXCEPT ![m] = [mig[m] EXCEPT !.lost = TRUE]]
    BY <1>6 DEF SessionEnds, MigrationTypeOK
  <2>3. mig' \in [Migrators -> Migrator]
    BY <2>1, <2>2 DEF MigrationTypeOK
  <2>4. Working'
    BY <1>6 DEF SessionEnds, MigrationTypeOK, Working
  <2> QED BY <1>6, <2>3, <2>4 DEF SessionEnds, MigrationTypeOK
<1>7. ASSUME NEW m \in Migrators, ReadVersion(m) PROVE Types
  <2>1. Target(m) \in Targets /\ recorded[Target(m)] \in 0..Latest
    BY <1>7 DEF ReadVersion, Target, MigrationTypeOK, Working
  <2>2. CASE recorded[Target(m)] = 0
    BY <1>7, <2>1, <2>2, ContinueTypes DEF ReadVersion, MigrationTypeOK
  <2>3. CASE recorded[Target(m)] # 0
    <3>1. mig' = [mig EXCEPT ![m].pc = "sentinel", ![m].version = recorded[Target(m)]]
      BY <1>7, <2>3 DEF ReadVersion
    <3>2. mig' \in [Migrators -> Migrator]
      <4>1. ASSUME NEW x \in Migrator, NEW v \in 0..Latest
            PROVE  [x EXCEPT !.pc = "sentinel", !.version = v] \in Migrator
        BY DEF Migrator, Inside
      <4>2. mig' = [mig EXCEPT ![m] =
                      [mig[m] EXCEPT !.pc = "sentinel", !.version = recorded[Target(m)]]]
        BY <3>1 DEF MigrationTypeOK
      <4> QED BY <2>1, <4>1, <4>2 DEF MigrationTypeOK
    <3>3. Working'
      BY <1>7, <3>1 DEF ReadVersion, MigrationTypeOK, Working
    <3> QED BY <1>7, <3>2, <3>3 DEF ReadVersion, MigrationTypeOK
  <2> QED BY <2>2, <2>3
<1>8. ASSUME NEW m \in Migrators, LookForSentinel(m) PROVE Types
  <2>1. mig[m].version \in 0..Latest /\ 0 \in 0..Latest
    BY DEF MigrationTypeOK, Migrator
  <2>2. CASE <<1, Sentinel>> \in applied[mig[m].ch]
    BY <1>8, <2>1, <2>2, ContinueTypes DEF LookForSentinel, MigrationTypeOK
  <2>3. CASE <<1, Sentinel>> \notin applied[mig[m].ch]
    <3> DEFINE new == [mig[m] EXCEPT !.pc = "exec", !.version = 0, !.at = 1]
    <3>1. mig' = [mig EXCEPT ![m] = new]
      BY <1>8, <2>3 DEF LookForSentinel, MigrationTypeOK
    <3>2. new \in Migrator
      <4>1. mig[m] \in Migrator /\ "exec" \in {"exec", "unlock"}
        BY DEF MigrationTypeOK
      <4> QED BY <2>1, <4>1, ContinuesType
    <3>3. new.ch = mig[m].ch /\ new.version = 0
      BY DEF MigrationTypeOK, Migrator
    <3> HIDE DEF new
    <3>4. Working'
      BY <1>8, <3>1, <3>3 DEF LookForSentinel, MigrationTypeOK, Working
    <3> QED BY <1>8, <3>1, <3>2, <3>4 DEF LookForSentinel, MigrationTypeOK
  <2> QED BY <2>2, <2>3
<1>9. ASSUME NEW m \in Migrators, Exec(m) PROVE Types
  <2>1. mig[m].ch \in ClickHouses /\ <<mig[m].version + 1, mig[m].at>> \in Statements
    BY <1>9 DEF Exec, MigrationTypeOK, Working, Migrator, Statements
  <2>2. applied' \in [ClickHouses -> SUBSET Statements]
    BY <1>9, <2>1 DEF Exec, MigrationTypeOK
  <2>3. CASE mig[m].at < Size
    <3>1. mig' = [mig EXCEPT ![m].at = @ + 1]
      BY <1>9, <2>3 DEF Exec
    <3>2. mig' \in [Migrators -> Migrator]
      BY <2>3, <3>1 DEF MigrationTypeOK, Migrator
    <3>3. Working'
      BY <3>1 DEF MigrationTypeOK, Working
    <3> QED BY <1>9, <2>2, <3>2, <3>3 DEF Exec, MigrationTypeOK
  <2>4. CASE ~(mig[m].at < Size)
    <3>1. mig' = [mig EXCEPT ![m].pc = "record"]
      BY <1>9, <2>4 DEF Exec
    <3>2. mig' \in [Migrators -> Migrator]
      BY <3>1, SMTT(60) DEF MigrationTypeOK, Migrator, Inside
    <3>3. Working'
      BY <1>9, <3>1 DEF Exec, MigrationTypeOK, Working
    <3> QED BY <1>9, <2>2, <3>2, <3>3 DEF Exec, MigrationTypeOK
  <2> QED BY <2>3, <2>4
<1>10. ASSUME NEW m \in Migrators, Record(m) PROVE Types
  <2>1. Target(m) \in Targets /\ mig[m].version + 1 \in 0..Latest
    BY <1>10 DEF Record, Target, MigrationTypeOK, Working, Migrator
  <2> QED
    BY <1>10, <2>1, ContinueTypes DEF Record, MigrationTypeOK
<1>11. ASSUME NEW m \in Migrators, Fails(m) PROVE Types
  <2>1. mig[m].ch \in ClickHouses /\ Target(m) \in Targets
    BY <1>11 DEF Fails, Target, MigrationTypeOK, Working, Migrator
  <2>2. mig[m].pc = "exec" => <<mig[m].version + 1, mig[m].at>> \in Statements
    BY DEF MigrationTypeOK, Working, Migrator, Statements
  <2>3. mig[m].pc = "record" => mig[m].version + 1 \in 0..Latest
    BY DEF MigrationTypeOK, Working, Migrator
  <2>4. applied' \in [ClickHouses -> SUBSET Statements]
    BY <1>11, <2>1, <2>2 DEF Fails, MigrationTypeOK
  <2>5. recorded' \in [Targets -> 0..Latest]
    BY <1>11, <2>1, <2>3 DEF Fails, MigrationTypeOK
  <2>6. mig' \in [Migrators -> Migrator]
    <3> DEFINE to == IF mig[m].pc = "lock" THEN "return" ELSE "unlock"
               new == [mig[m] EXCEPT !.pc = to, !.ok = FALSE]
    <3>1. mig' = [mig EXCEPT ![m] = new]
      BY <1>11 DEF Fails, MigrationTypeOK
    <3>2. ASSUME NEW x \in Migrator, NEW pc \in {"return", "unlock"}
          PROVE  [x EXCEPT !.pc = pc, !.ok = FALSE] \in Migrator
      BY DEF Migrator, Inside
    <3>3. new \in Migrator
      BY <3>2 DEF MigrationTypeOK
    <3> HIDE DEF new
    <3> QED BY <3>1, <3>3 DEF MigrationTypeOK
  <2>7. Working'
    BY <1>11 DEF Fails, MigrationTypeOK, Working
  <2> QED BY <1>11, <2>4, <2>5, <2>6, <2>7 DEF Fails, MigrationTypeOK
<1>12. ASSUME NEW r \in Replicas, Restart(r) PROVE Types
  <2>1. MigrationTypeOK'
    BY <1>12, IdleType DEF Restart, MigrationTypeOK
  <2>2. Working'
    BY <1>12 DEF Restart, MigrationTypeOK, Working, Idle
  <2> QED BY <2>1, <2>2
<1>13. ASSUME NEW c \in ClickHouses, Wipe(c) PROVE Types
  <2>1. ASSUME NEW x \in Migrator PROVE [x EXCEPT !.robbed = TRUE] \in Migrator
    BY DEF Migrator
  <2>2. mig' \in [Migrators -> Migrator]
    <3>1. \A m \in Migrators : mig[m] \in Migrator /\ [mig[m] EXCEPT !.robbed = TRUE] \in Migrator
      BY <2>1 DEF MigrationTypeOK
    <3> QED BY <1>13, <3>1 DEF Wipe
  <2>3. Working'
    BY <1>13 DEF Wipe, MigrationTypeOK, Working, Migrator
  <2> QED BY <1>13, <2>2, <2>3 DEF Wipe, MigrationTypeOK
<1>14. ASSUME PoolCloses \/ UNCHANGED migrationVars PROVE Types
  BY <1>14 DEF PoolCloses, migrationVars, MigrationTypeOK, Working
<1>15. ASSUME NEW m \in Migrators, AcquireFails(m) PROVE Types
  <2>1. ASSUME NEW x \in Migrator PROVE [x EXCEPT !.pc = "return", !.ok = FALSE] \in Migrator
    BY DEF Migrator
  <2>2. mig' = [mig EXCEPT ![m] = [mig[m] EXCEPT !.pc = "return", !.ok = FALSE]]
    BY <1>15 DEF AcquireFails, MigrationTypeOK
  <2>3. mig' \in [Migrators -> Migrator]
    BY <2>1, <2>2 DEF MigrationTypeOK
  <2>4. Working'
    BY <1>15 DEF AcquireFails, MigrationTypeOK, Working
  <2> QED BY <1>15, <2>3, <2>4 DEF AcquireFails, MigrationTypeOK
<1> QED
  BY <1>1, <1>2, <1>3, <1>4, <1>5, <1>6, <1>7, <1>8, <1>9, <1>10, <1>11, <1>12, <1>13,
     <1>14, <1>15 DEF MigrationNext, Migrate

\* Types are kept: versions stay within the releases, statements within the
\* migrations, and a migrator at work has a database.
THEOREM MigrationTypeCorrect == MigrationSpec => [](MigrationTypeOK /\ Working)
  BY InitTypes, NextTypes, PTL DEF MigrationSpec

-----------------------------------------------------------------------------
(* One at a time *)

\* Continue changes nothing of the others, nor what became of the session.
LEMMA ContinueFrame ==
  ASSUME MigrationTypeOK, NEW m \in Migrators, NEW v, Continue(m, v)
  PROVE  /\ \A n \in Migrators \ {m} : mig'[n] = mig[n]
         /\ mig'[m].lost = mig[m].lost /\ mig'[m].ch = mig[m].ch
         /\ mig'[m].version = v /\ mig'[m].at = 1
         /\ mig'[m].pc \in {"exec", "unlock"}
<1> DEFINE to == IF v < release[ReplicaOf[m]] THEN "exec" ELSE "unlock"
<1>1. mig' = [mig EXCEPT ![m] = [mig[m] EXCEPT !.pc = to, !.version = v, !.at = 1]]
  BY DEF Continue, MigrationTypeOK
<1>2. to \in {"exec", "unlock"}
  OBVIOUS
<1> HIDE DEF to
<1> QED BY <1>1, <1>2 DEF MigrationTypeOK, Migrator

LEMMA NextInsideHolds ==
  MigrationTypeOK /\ InsideHolds /\ [MigrationNext]_migrationVars => InsideHolds'
<1> SUFFICES ASSUME MigrationTypeOK, InsideHolds, [MigrationNext]_migrationVars
             PROVE  InsideHolds'
  OBVIOUS
<1> USE DEF MigrationTypeOK, InsideHolds
<1>1. ASSUME NEW m \in Migrators, NEW c \in ClickHouses, Call(m, c) PROVE InsideHolds'
  BY <1>1 DEF Call, Idle, Inside
<1>2. ASSUME NEW m \in Migrators, Acquire(m) PROVE InsideHolds'
  BY <1>2 DEF Acquire
<1>3. ASSUME NEW m \in Migrators, Unlock(m) \/ UnlockFails(m) PROVE InsideHolds'
  <2>1. CASE Unlock(m)
    BY <2>1 DEF Unlock, Inside
  <2>2. CASE UnlockFails(m)
    BY <2>2 DEF UnlockFails, Inside
  <2> QED BY <1>3, <2>1, <2>2
<1>4. ASSUME NEW m \in Migrators, Return(m) PROVE InsideHolds'
  BY <1>4 DEF Return, Idle, Inside
<1>5. ASSUME NEW m \in Migrators, SessionEnds(m) PROVE InsideHolds'
  BY <1>5 DEF SessionEnds, Migrator
<1>6. ASSUME NEW m \in Migrators, ReadVersion(m) PROVE InsideHolds'
  <2>1. mig[m].pc \in Inside /\ lock' = lock
    BY <1>6 DEF ReadVersion, Inside
  <2>2. mig'[m].lost = mig[m].lost /\ \A n \in Migrators \ {m} : mig'[n] = mig[n]
    <3>1. CASE recorded[Target(m)] = 0
      BY <1>6, <3>1, ContinueFrame DEF ReadVersion
    <3>2. CASE recorded[Target(m)] # 0
      BY <1>6, <3>2 DEF ReadVersion, Migrator
    <3> QED BY <3>1, <3>2
  <2> QED BY <2>1, <2>2
<1>7. ASSUME NEW m \in Migrators, LookForSentinel(m) PROVE InsideHolds'
  <2>1. mig[m].pc \in Inside /\ lock' = lock
    BY <1>7 DEF LookForSentinel, Inside
  <2>2. mig'[m].lost = mig[m].lost /\ \A n \in Migrators \ {m} : mig'[n] = mig[n]
    <3>1. CASE <<1, Sentinel>> \in applied[mig[m].ch]
      BY <1>7, <3>1, ContinueFrame DEF LookForSentinel
    <3>2. CASE <<1, Sentinel>> \notin applied[mig[m].ch]
      BY <1>7, <3>2 DEF LookForSentinel, Migrator
    <3> QED BY <3>1, <3>2
  <2> QED BY <2>1, <2>2
<1>8. ASSUME NEW m \in Migrators, Exec(m) PROVE InsideHolds'
  BY <1>8 DEF Exec, Inside
<1>9. ASSUME NEW m \in Migrators, Record(m) PROVE InsideHolds'
  BY <1>9 DEF Record, Continue, Inside
<1>10. ASSUME NEW m \in Migrators, Fails(m) PROVE InsideHolds'
  BY <1>10 DEF Fails, Inside
<1>11. ASSUME NEW r \in Replicas, Restart(r) PROVE InsideHolds'
  BY <1>11 DEF Restart, Idle, Inside
<1>12. ASSUME NEW c \in ClickHouses, Wipe(c) PROVE InsideHolds'
  BY <1>12 DEF Wipe, Migrator
<1>13. ASSUME PoolCloses \/ UNCHANGED migrationVars PROVE InsideHolds'
  BY <1>13 DEF PoolCloses, migrationVars
<1>14. ASSUME NEW m \in Migrators, AcquireFails(m) PROVE InsideHolds'
  BY <1>14 DEF AcquireFails, Inside
<1> QED
  BY <1>1, <1>2, <1>3, <1>4, <1>5, <1>6, <1>7, <1>8, <1>9, <1>10, <1>11, <1>12, <1>13, <1>14
     DEF MigrationNext, Migrate

\* Two migrators are inside Migrate at once only if one of them lost the session of
\* its lock: whatever pg_advisory_unlock, the pools and the restarts do.
THEOREM TakeTurnsSafety == MigrationSpec => []TakeTurns
<1>1. MigrationInit => InsideHolds
  BY DEF MigrationInit, InsideHolds, Idle, Inside
<1>2. MigrationTypeOK /\ InsideHolds => TakeTurns
  BY DEF MigrationTypeOK, InsideHolds, TakeTurns
<1> QED
  BY <1>1, <1>2, NextInsideHolds, MigrationTypeCorrect, PTL DEF MigrationSpec

-----------------------------------------------------------------------------
(* Recorded is applied *)

\* No step takes a statement back from a database that stays unwiped.
Grows ==
    /\ wiped \subseteq wiped'
    /\ \A c \in ClickHouses \ wiped' : applied[c] \subseteq applied'[c]

LEMMA NextGrows == MigrationTypeOK /\ Working /\ [MigrationNext]_migrationVars => Grows
<1> SUFFICES ASSUME MigrationTypeOK, Working, [MigrationNext]_migrationVars PROVE Grows
  OBVIOUS
<1> USE DEF MigrationTypeOK, Grows
<1>1. ASSUME NEW m \in Migrators, Exec(m) PROVE Grows
  BY <1>1 DEF Exec
<1>2. ASSUME NEW m \in Migrators, Fails(m) PROVE Grows
  BY <1>2 DEF Fails
<1>3. ASSUME NEW c \in ClickHouses, Wipe(c) PROVE Grows
  BY <1>3 DEF Wipe
<1>4. ASSUME UNCHANGED <<applied, wiped>> PROVE Grows
  BY <1>4
<1> QED
  BY <1>1, <1>2, <1>3, <1>4
     DEF MigrationNext, Migrate, Call, Acquire, AcquireFails, Unlock, UnlockFails, Return,
         SessionEnds, ReadVersion, LookForSentinel, Record, Restart, PoolCloses, migrationVars

\* So what a database of Coroot's own has, it keeps.
LEMMA Kept ==
  ASSUME Grows, NEW c \in ClickHouses, Own(c)'
  PROVE  /\ Own(c)
         /\ \A v \in Nat : Whole(c, v) => Whole(c, v)'
         /\ \A v \in Nat : Migrated(c, v) => Migrated(c, v)'
  BY DEF Grows, Own, Sole, Whole, Migrated

\* What a migrator that does not move counts on stays true.
LEMMA CountsKept ==
  ASSUME MigrationTypeOK, Working, Grows, NEW n \in Migrators, Counts(n),
         mig'[n].pc = mig[n].pc, mig'[n].ch = mig[n].ch,
         mig'[n].version = mig[n].version, mig'[n].at = mig[n].at
  PROVE  Counts(n)'
<1> SUFFICES ASSUME mig[n].pc \in {"sentinel", "exec", "record"}, Own(mig[n].ch)'
             PROVE  /\ Migrated(mig[n].ch, mig[n].version)'
                    /\ mig[n].pc = "exec" =>
                          \A i \in 1..Size : i < mig[n].at =>
                              <<mig[n].version + 1, i>> \in applied'[mig[n].ch]
                    /\ mig[n].pc = "record" => Whole(mig[n].ch, mig[n].version + 1)'
  BY DEF Counts, Own, Sole, Whole, Migrated
<1>1. mig[n].ch \in ClickHouses /\ mig[n].version \in Nat /\ mig[n].version + 1 \in Nat
  BY DEF MigrationTypeOK, Working, Migrator
<1> QED
  BY <1>1, Kept DEF Counts, Grows, Own

\* A migrator that continues with v migrations applied counts on these only.
LEMMA ContinueCounts ==
  ASSUME MigrationTypeOK, Working, Grows, CountsApplied,
         NEW m \in Migrators, NEW v \in 0..Latest, mig[m].pc # "idle", Continue(m, v),
         NEW c \in ClickHouses, c = mig[m].ch, Own(c) => Migrated(c, v)
  PROVE  CountsApplied'
<1>1. ASSUME NEW n \in Migrators \ {m} PROVE Counts(n)'
  BY <1>1, ContinueFrame, CountsKept DEF CountsApplied
<1>2. Counts(m)'
  <2>1. /\ mig'[m].ch = c /\ mig'[m].version = v /\ mig'[m].at = 1
        /\ mig'[m].pc \in {"exec", "unlock"}
    BY ContinueFrame
  <2>2. Own(c)' => Migrated(c, v)'
    BY Kept
  <2>3. \A i \in 1..Size : ~(i < 1)
    OBVIOUS
  <2>4. Migrated(c, v)' = \A u \in 1..v : \A i \in 1..Size : <<u, i>> \in applied'[c]
    BY DEF Migrated, Whole
  <2>5. Own(c)' = (c \notin wiped' /\ Sole(c))
    BY DEF Own, Sole
  <2> QED BY <2>1, <2>2, <2>3, <2>4, <2>5 DEF Counts, Own, Sole, Migrated, Whole
<1> QED BY <1>1, <1>2 DEF CountsApplied

LEMMA NextCounts ==
  ASSUME MigrationTypeOK, Working, CountsApplied, RecordedIsApplied,
         [MigrationNext]_migrationVars
  PROVE  CountsApplied'
<1>0. Grows
  BY NextGrows
<1> DEFINE Others(m) == \A n \in Migrators \ {m} : mig'[n] = mig[n]
<1>a. ASSUME NEW m \in Migrators, Others(m), Counts(m)' PROVE CountsApplied'
  BY <1>0, <1>a, CountsKept DEF CountsApplied
<1>b. ASSUME NEW m \in Migrators, Others(m), mig'[m].pc \notin {"sentinel", "exec", "record"}
      PROVE  CountsApplied'
  BY <1>a, <1>b DEF Counts
<1>1. ASSUME NEW m \in Migrators, NEW c \in ClickHouses, Call(m, c) PROVE CountsApplied'
  BY <1>1, <1>b DEF Call, Idle, MigrationTypeOK
<1>2. ASSUME NEW m \in Migrators, Acquire(m) PROVE CountsApplied'
  BY <1>2, <1>b DEF Acquire, MigrationTypeOK
<1>3. ASSUME NEW m \in Migrators, Unlock(m) PROVE CountsApplied'
  BY <1>3, <1>b DEF Unlock, MigrationTypeOK
<1>4. ASSUME NEW m \in Migrators, UnlockFails(m) \/ AcquireFails(m) PROVE CountsApplied'
  <2>1. CASE UnlockFails(m)
    BY <2>1, <1>b DEF UnlockFails, MigrationTypeOK
  <2>2. CASE AcquireFails(m)
    BY <2>2, <1>b DEF AcquireFails, MigrationTypeOK
  <2> QED BY <1>4, <2>1, <2>2
<1>5. ASSUME NEW m \in Migrators, Return(m) PROVE CountsApplied'
  BY <1>5, <1>b DEF Return, Idle, MigrationTypeOK
<1>6. ASSUME NEW m \in Migrators, Fails(m) PROVE CountsApplied'
  <2>1. Others(m)
    BY <1>6 DEF Fails, MigrationTypeOK
  <2>2. mig'[m].pc \in {"return", "unlock"}
    BY <1>6 DEF Fails, MigrationTypeOK, Migrator
  <2> QED BY <2>1, <2>2, <1>b
<1>7. ASSUME NEW m \in Migrators, SessionEnds(m) PROVE CountsApplied'
  <2>1. \A n \in Migrators : /\ mig'[n].pc = mig[n].pc /\ mig'[n].ch = mig[n].ch
                             /\ mig'[n].version = mig[n].version /\ mig'[n].at = mig[n].at
    BY <1>7 DEF SessionEnds, MigrationTypeOK, Migrator
  <2> QED BY <1>0, <2>1, CountsKept DEF CountsApplied
<1>8. ASSUME NEW m \in Migrators, ReadVersion(m) PROVE CountsApplied'
  <2> PICK c \in ClickHouses : c = mig[m].ch
    BY <1>8 DEF ReadVersion, Working
  <2>1. recorded[TargetOf[c]] \in 0..Latest /\ Target(m) = TargetOf[c]
    BY DEF MigrationTypeOK, Target
  <2>2. Own(c) => Migrated(c, recorded[TargetOf[c]])
    BY DEF RecordedIsApplied, Own
  <2>3. CASE recorded[TargetOf[c]] = 0
    BY <1>0, <1>8, <2>1, <2>2, <2>3, ContinueCounts DEF ReadVersion
  <2>4. CASE recorded[TargetOf[c]] # 0
    <3>1. mig' = [mig EXCEPT ![m].pc = "sentinel", ![m].version = recorded[TargetOf[c]]]
      BY <1>8, <2>1, <2>4 DEF ReadVersion
    <3>2. /\ mig'[m].pc = "sentinel" /\ mig'[m].ch = c
          /\ mig'[m].version = recorded[TargetOf[c]]
      BY <3>1 DEF MigrationTypeOK, Migrator
    <3>3. Others(m)
      BY <3>1 DEF MigrationTypeOK
    <3>4. wiped' = wiped /\ applied' = applied
      BY <1>8 DEF ReadVersion
    <3>5. Counts(m)'
      BY <2>2, <3>2, <3>4 DEF Counts, Own, Sole, Migrated, Whole
    <3> QED BY <1>a, <3>3, <3>5
  <2> QED BY <2>3, <2>4
<1>9. ASSUME NEW m \in Migrators, LookForSentinel(m) PROVE CountsApplied'
  <2> PICK c \in ClickHouses : c = mig[m].ch
    BY <1>9 DEF LookForSentinel, Working
  <2>1. mig[m].version \in 0..Latest /\ (Own(c) => Migrated(c, mig[m].version))
    BY <1>9 DEF LookForSentinel, MigrationTypeOK, Migrator, CountsApplied, Counts
  <2>2. CASE <<1, Sentinel>> \in applied[c]
    <3> PICK v \in 0..Latest : v = mig[m].version
      BY <2>1
    <3>1. Own(c) => Migrated(c, v)
      BY <2>1
    <3> QED BY <1>0, <1>9, <2>2, <3>1, ContinueCounts DEF LookForSentinel
  <2>3. CASE <<1, Sentinel>> \notin applied[c]
    <3>1. mig' = [mig EXCEPT ![m] = [mig[m] EXCEPT !.pc = "exec", !.version = 0, !.at = 1]]
      BY <1>9, <2>3 DEF LookForSentinel, MigrationTypeOK
    <3>2. /\ mig'[m].pc = "exec" /\ mig'[m].ch = c /\ mig'[m].version = 0 /\ mig'[m].at = 1
      BY <3>1 DEF MigrationTypeOK, Migrator
    <3>3. Others(m)
      BY <3>1 DEF MigrationTypeOK
    <3>4. Counts(m)'
      BY <3>2 DEF Counts, Migrated
    <3> QED BY <1>a, <3>3, <3>4
  <2> QED BY <2>2, <2>3
<1>10. ASSUME NEW m \in Migrators, Exec(m) PROVE CountsApplied'
  <2> PICK c \in ClickHouses : c = mig[m].ch
    BY <1>10 DEF Exec, Working
  <2>1. /\ mig[m].version \in Nat /\ mig[m].at \in 1..Size
        /\ wiped' = wiped /\ applied' = [applied EXCEPT ![c] = @ \cup {<<mig[m].version + 1, mig[m].at>>}]
    BY <1>10 DEF Exec, MigrationTypeOK, Migrator
  <2>2. Own(c) => /\ Migrated(c, mig[m].version)
                  /\ \A i \in 1..Size : i < mig[m].at => <<mig[m].version + 1, i>> \in applied[c]
    BY <1>10 DEF Exec, CountsApplied, Counts
  <2>3. Others(m) /\ mig'[m].ch = c /\ mig'[m].version = mig[m].version
    BY <1>10 DEF Exec, MigrationTypeOK, Migrator
  <2>4. \/ mig'[m].pc = "exec" /\ mig'[m].at = mig[m].at + 1
        \/ mig'[m].pc = "record" /\ mig[m].at = Size
    <3>1. CASE mig[m].at < Size
      BY <1>10, <3>1 DEF Exec, MigrationTypeOK, Migrator
    <3>2. CASE ~(mig[m].at < Size)
      <4>1. mig[m].at = Size
        BY <2>1, <3>2
      <4> QED BY <1>10, <3>2, <4>1 DEF Exec, MigrationTypeOK, Migrator
    <3> QED BY <3>1, <3>2
  <2>5. Own(c)' =>
          /\ Migrated(c, mig[m].version)'
          /\ \A i \in 1..Size : i < mig[m].at + 1 => <<mig[m].version + 1, i>> \in applied'[c]
    <3> SUFFICES ASSUME Own(c)'
                 PROVE  /\ \A u \in 1..mig[m].version : \A i \in 1..Size : <<u, i>> \in applied'[c]
                        /\ \A i \in 1..Size : i < mig[m].at + 1 =>
                              <<mig[m].version + 1, i>> \in applied'[c]
      BY <2>3 DEF Migrated, Whole
    <3>1. Own(c)
      BY <1>0, Kept
    <3>2. applied'[c] = applied[c] \cup {<<mig[m].version + 1, mig[m].at>>}
      BY <2>1 DEF MigrationTypeOK
    <3>3. \A i \in 1..Size : i < mig[m].at + 1 => i < mig[m].at \/ i = mig[m].at
      BY <2>1
    <3> QED BY <2>2, <3>1, <3>2, <3>3 DEF Migrated, Whole
  <2>6. Counts(m)'
    BY <2>1, <2>3, <2>4, <2>5 DEF Counts, Own, Sole, Migrated, Whole
  <2> QED BY <1>a, <2>3, <2>6
<1>11. ASSUME NEW m \in Migrators, Record(m) PROVE CountsApplied'
  <2> PICK c \in ClickHouses : c = mig[m].ch
    BY <1>11 DEF Record, Working
  <2> PICK v \in 0..Latest : v = mig[m].version + 1
    BY <1>11 DEF Record, Working, MigrationTypeOK, Migrator
  <2>1. Own(c) => Migrated(c, mig[m].version) /\ Whole(c, v)
    BY <1>11 DEF Record, CountsApplied, Counts
  <2>2. Own(c) => Migrated(c, v)
    BY <2>1 DEF Migrated, MigrationTypeOK, Migrator
  <2> QED BY <1>0, <1>11, <2>2, ContinueCounts DEF Record
<1>12. ASSUME NEW r \in Replicas, Restart(r) PROVE CountsApplied'
  <2>1. \A n \in Migrators : mig'[n] = mig[n] \/ mig'[n].pc = "idle"
    BY <1>12 DEF Restart, Idle
  <2> QED BY <1>0, <2>1, CountsKept DEF CountsApplied, Counts
<1>13. ASSUME NEW c \in ClickHouses, Wipe(c) PROVE CountsApplied'
  <2>1. \A n \in Migrators : /\ mig'[n].pc = mig[n].pc /\ mig'[n].ch = mig[n].ch
                             /\ mig'[n].version = mig[n].version /\ mig'[n].at = mig[n].at
    BY <1>13 DEF Wipe, MigrationTypeOK, Migrator
  <2> QED BY <1>0, <2>1, CountsKept DEF CountsApplied
<1>14. ASSUME PoolCloses \/ UNCHANGED migrationVars PROVE CountsApplied'
  BY <1>0, <1>14, CountsKept DEF PoolCloses, migrationVars, CountsApplied
<1> QED
  BY <1>1, <1>2, <1>3, <1>4, <1>5, <1>6, <1>7, <1>8, <1>9, <1>10, <1>11, <1>12, <1>13,
     <1>14 DEF MigrationNext, Migrate

LEMMA NextRecorded ==
  ASSUME MigrationTypeOK, Working, CountsApplied, RecordedIsApplied,
         [MigrationNext]_migrationVars
  PROVE  RecordedIsApplied'
<1>0. Grows
  BY NextGrows
<1>1. ASSUME recorded' = recorded PROVE RecordedIsApplied'
  <2> SUFFICES ASSUME NEW c \in ClickHouses, Own(c)'
               PROVE  Migrated(c, recorded[TargetOf[c]])'
    BY DEF RecordedIsApplied, Own, Sole
  <2>1. Own(c) /\ recorded[TargetOf[c]] \in Nat
    BY <1>0, Kept DEF MigrationTypeOK
  <2>2. Migrated(c, recorded[TargetOf[c]])
    BY <2>1 DEF RecordedIsApplied, Own
  <2> QED BY <1>0, <1>1, <2>1, <2>2, Kept DEF Migrated, Whole
\* Record, or a failed Record that had its effect: version + 1 of m's target.
<1>2. ASSUME NEW m \in Migrators, mig[m].pc = "record", applied' = applied, wiped' = wiped,
             recorded' = [recorded EXCEPT ![Target(m)] = mig[m].version + 1]
      PROVE  RecordedIsApplied'
  <2> PICK d \in ClickHouses : d = mig[m].ch
    BY <1>2 DEF Working
  <2>1. mig[m].version \in Nat /\ Target(m) = TargetOf[d]
    BY DEF MigrationTypeOK, Migrator, Target
  <2> SUFFICES ASSUME NEW c \in ClickHouses, Own(c)
               PROVE  \A u \in 1..recorded'[TargetOf[c]] :
                         \A i \in 1..Size : <<u, i>> \in applied[c]
    BY <1>2 DEF RecordedIsApplied, Own, Sole, Migrated, Whole
  <2>2. CASE TargetOf[c] = TargetOf[d]
    <3>1. c = d /\ recorded'[TargetOf[c]] = mig[m].version + 1
      BY <1>2, <2>1, <2>2 DEF Own, Sole, MigrationTypeOK
    <3>2. Migrated(d, mig[m].version) /\ Whole(d, mig[m].version + 1)
      BY <1>2, <3>1 DEF CountsApplied, Counts
    <3>3. \A u \in 1..(mig[m].version + 1) : u \in 1..mig[m].version \/ u = mig[m].version + 1
      BY <2>1
    <3> QED BY <3>1, <3>2, <3>3 DEF Migrated, Whole
  <2>3. CASE TargetOf[c] # TargetOf[d]
    <3>1. recorded'[TargetOf[c]] = recorded[TargetOf[c]]
      BY <1>2, <2>1, <2>3 DEF MigrationTypeOK
    <3> QED BY <3>1 DEF RecordedIsApplied, Own, Migrated, Whole
  <2> QED BY <2>2, <2>3
<1>3. ASSUME NEW m \in Migrators, Record(m) PROVE RecordedIsApplied'
  BY <1>2, <1>3 DEF Record
<1>4. ASSUME NEW m \in Migrators, Fails(m) PROVE RecordedIsApplied'
  BY <1>1, <1>2, <1>4 DEF Fails
<1> QED
  BY <1>1, <1>3, <1>4
     DEF MigrationNext, Migrate, Call, Acquire, AcquireFails, Unlock, UnlockFails, Return,
         SessionEnds, ReadVersion, LookForSentinel, Exec, Restart, Wipe, PoolCloses, migrationVars

\* A version recorded in Postgres is a schema applied in ClickHouse, for any number of
\* migrators, lost sessions, statements that failed after their effect, and restarts.
THEOREM RecordedIsAppliedSafety == MigrationSpec => []RecordedIsApplied
<1>1. MigrationInit => CountsApplied /\ RecordedIsApplied
  <2> SUFFICES ASSUME MigrationInit PROVE CountsApplied /\ RecordedIsApplied
    OBVIOUS
  <2>1. \A m \in Migrators : mig[m].pc = "idle"
    BY DEF MigrationInit, Idle
  <2>2. \A c \in ClickHouses : recorded[TargetOf[c]] = 0
    BY DEF MigrationInit
  <2> QED BY <2>1, <2>2 DEF CountsApplied, Counts, RecordedIsApplied, Migrated
<1>2. /\ MigrationTypeOK /\ Working /\ CountsApplied /\ RecordedIsApplied
      /\ [MigrationNext]_migrationVars
      => CountsApplied' /\ RecordedIsApplied'
  BY NextCounts, NextRecorded
<1> QED
  BY <1>1, <1>2, MigrationTypeCorrect, PTL DEF MigrationSpec
=============================================================================
