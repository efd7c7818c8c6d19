--------------------------- MODULE WorldEvaluator ---------------------------
(***************************************************************************)
(* The cycles that keep the world tables of a project up to date (world/-  *)
(* run.go, world/evaluator.go, world/rules.go, world/backend.go): every    *)
(* query is evaluated over the steps it is missing, what comes out is      *)
(* stored, and the recording rules are computed from what is stored.       *)
(*                                                                         *)
(* What a query has is known from its rows in ClickHouse only; an insert   *)
(* is of two tables and of several shards, and each part of it may fail    *)
(* alone, or be done and reported as failed.  The primary is decided once  *)
(* per period, for the cycles of all projects: a replica that lost its     *)
(* lock since begins a cycle, or finishes it, beside the new primary's.    *)
(*                                                                         *)
(* Time is counted in steps.  Every series has a value at every step; the  *)
(* rules have one series, and a backfill of them is one chunk.  The TTLs   *)
(* of the tables are left out, and an insert which a server carries out    *)
(* after its client's context has ended.                                   *)
(***************************************************************************)
EXTENDS Common, FiniteSets

CONSTANTS
    Queries,
    Series,         \* of the queries
    QueryOf,        \* [Series -> Queries]
    Rule,           \* the series of the recording rules
    Backfill,
    Margin,         \* lastPerQuery reads so much more than the backfill: an hour
    Lag,            \* a step is final so many steps after it
    Lookahead,      \* ruleLookahead
    Timeout,        \* of a cycle's context: two minutes
    StartTime,      \* when the program is started
    MaxClock,       \* bound
    MaxTroubles     \* bound: failing statements, lost locks, crashes

ASSUME EvaluatorAssumption ==
    /\ QueryOf \in [Series -> Queries]
    /\ Rule \notin Series
    /\ {Backfill, Margin, Lag, Lookahead, Timeout, MaxClock, MaxTroubles} \subseteq Nat
    /\ StartTime \in Nat /\ StartTime > Backfill + Lag + Lookahead /\ StartTime <= MaxClock
    /\ Margin >= Lag + Lookahead
    /\ Timeout <= Backfill + 1

VARIABLES
    clock,
    primary,    \* the replica that has the primary lock, or None
    points,     \* world_points: how often a series has a step
    labels,     \* world_series
    marker,     \* the last step of rulesMarker, or 0
    seen,       \* seriesCache of each replica
    cycle,      \* the local variables of runProject
    status,     \* evalStatus.lastEvaluated
    overlap,    \* history: two cycles ran beside each other
    torn,       \* history: an insert that failed stored a part of its rows
    unlabelled, \* history: the rules' labels failed and are counted as written
    partial,    \* history: steps whose rules were computed without a query's point
    outage,     \* history: a series ended earlier than a cycle goes back
    troubles

evaluatorVars == <<clock, primary, points, labels, marker, seen, cycle, status, overlap, torn,
                   unlabelled, partial, outage, troubles>>

-----------------------------------------------------------------------------
AllSeries == Series \cup {Rule}
Steps == 0..MaxClock

NoCycle == [pc |-> "idle", to |-> 0, last |-> [q \in Queries |-> 0], marked |-> 0, ruled |-> 0,
            out |-> {}, due |-> {}, from |-> 0, failed |-> {}]

\* The last step a series has, 0 if none.
LastOf(s) == LET has == {t \in Steps : points[s][t] > 0}
             IN  IF has = {} THEN 0 ELSE CHOOSE t \in has : \A u \in has : u <= t

\* The first step a series has, MaxClock if none: its program's history is not
\* longer than that.
FirstOf(s) == LET has == {t \in Steps : points[s][t] > 0} \cup {MaxClock}
              IN  CHOOSE t \in has : \A u \in has : t <= u

EvaluatorInit ==
    /\ clock = StartTime
    /\ primary = None
    /\ points = [s \in AllSeries |-> [t \in Steps |-> 0]]
    /\ labels = {}
    /\ marker = 0
    /\ seen = [r \in Replicas |-> {}]
    /\ cycle = [r \in Replicas |-> NoCycle]
    /\ status = [r \in Replicas |-> 0]
    /\ overlap = FALSE /\ torn = FALSE /\ unlabelled = FALSE
    /\ partial = {} /\ outage = FALSE
    /\ troubles = 0

Trouble == troubles < MaxTroubles /\ troubles' = troubles + 1

-----------------------------------------------------------------------------
(* Time, and the primary lock *)

\* A cycle runs.
Running(r) == cycle[r].pc \notin {"idle", "begin"}

\* Whatever a cycle does ends with its context.
TimePasses ==
    /\ clock < MaxClock
    /\ \A r \in Replicas : Running(r) => clock < cycle[r].to + Lag + Timeout
    /\ clock' = clock + 1
    /\ UNCHANGED <<primary, points, labels, marker, seen, cycle, status, overlap, torn,
                   unlabelled, partial, outage, troubles>>

Elect(r) ==
    /\ primary = None
    /\ primary' = r
    /\ UNCHANGED <<clock, points, labels, marker, seen, cycle, status, overlap, torn,
                   unlabelled, partial, outage, troubles>>

\* The session of the lock ends; a cycle that has begun goes on.
LosePrimary ==
    /\ primary # None
    /\ Trouble
    /\ primary' = None
    /\ UNCHANGED <<clock, points, labels, marker, seen, cycle, status, overlap, torn,
                   unlabelled, partial, outage>>

-----------------------------------------------------------------------------
(* EvaluateProject *)

\* lastPerQuery
LastPerQuery(q) ==
    LET lasts == {LastOf(s) : s \in {x \in Series : QueryOf[x] = q}}
    IN  IF lasts = {} THEN 0 ELSE CHOOSE t \in lasts : \A u \in lasts : u <= t

\* Run: at most once in a step, the primary goes through its projects.
Decide(r) ==
    /\ primary = r
    /\ cycle[r].pc = "idle"
    /\ cycle[r].to + Lag < clock
    /\ cycle' = [cycle EXCEPT ![r].pc = "begin"]
    /\ UNCHANGED <<clock, primary, points, labels, marker, seen, status, overlap, torn,
                   unlabelled, partial, outage, troubles>>

\* What of a last step lastPerQuery finds: older ones are not read.
Found(t) == IF t + Backfill + Margin >= clock THEN t ELSE 0

\* How far behind the clock a cycle stores a series.
Behind(s) == IF s = Rule THEN Lag + Lookahead ELSE Lag

\* The project's turn comes, the replica be the primary still or not: the cycle reads
\* how far each query and the rules are.
Begin(r) ==
    /\ cycle[r].pc = "begin"
    /\ cycle' = [cycle EXCEPT ![r] =
                   [NoCycle EXCEPT !.pc = "query", !.to = clock - Lag, !.marked = Found(marker),
                                   !.last = [q \in Queries |-> Found(LastPerQuery(q))],
                                   !.ruled = Found(LastOf(Rule))]]
    /\ overlap' = (overlap \/ \E o \in Replicas : Running(o))
    /\ outage' = (outage \/ \E s \in AllSeries :
                                LastOf(s) > 0 /\ LastOf(s) + 1 + Backfill + Behind(s) < clock)
    /\ UNCHANGED <<clock, primary, points, labels, marker, seen, status, torn, unlabelled,
                   partial, troubles>>

\* Where runProject leaves a cycle: the step it ended at, as its result has it.
Ended(r, to) ==
    /\ status' = [status EXCEPT ![r] = to]
    /\ cycle' = [cycle EXCEPT ![r] = [NoCycle EXCEPT !.to = cycle[r].to]]

\* drop: new connections next time, and a new seriesCache.
Drop(r) == seen' = [seen EXCEPT ![r] = {}]

\* lastPerQuery fails, or what comes before it (GetProjects, GetCheckConfigs): the
\* result has no end, the one before is kept.
BeginFails(r) ==
    /\ cycle[r].pc = "begin"
    /\ Trouble
    /\ Drop(r) \/ UNCHANGED seen
    /\ cycle' = [cycle EXCEPT ![r] = [NoCycle EXCEPT !.to = clock - Lag]]
    /\ UNCHANGED <<clock, primary, points, labels, marker, status, overlap, torn, unlabelled,
                   partial, outage>>

\* metricNames fails: the result of cycle has its end already.
NamesFail(r) ==
    /\ cycle[r].pc = "query"
    /\ Trouble
    /\ Drop(r)
    /\ Ended(r, cycle[r].to)
    /\ UNCHANGED <<clock, primary, points, labels, marker, overlap, torn, unlabelled,
                   partial, outage>>

\* The first step that is missing.
From(last, to) == IF last + 1 > to - Backfill THEN last + 1 ELSE to - Backfill

\* cycle: the queries that miss steps are evaluated, some may fail.  The labels of
\* series not seen are due, and those that were written seriesRefresh ago, as they
\* were written: all of a query.
Evaluate(r) ==
    /\ cycle[r].pc = "query"
    /\ \E failed, refresh \in SUBSET Queries :
        LET me == cycle[r]
            tasks == {q \in Queries : From(me.last[q], me.to) <= me.to}
            out == {s \in Series : QueryOf[s] \in tasks \ failed}
            due == {s \in out : s \notin seen[r] \/ QueryOf[s] \in refresh}
        IN  /\ failed \subseteq tasks
            /\ IF failed = {} THEN UNCHANGED troubles ELSE Trouble
            /\ seen' = [seen EXCEPT ![r] = @ \cup out]
            /\ cycle' = [cycle EXCEPT ![r].out = out,
                                      ![r].due = due,
                                      ![r].failed = failed,
                                      ![r].pc = IF out = {} THEN "rules"
                                                ELSE IF due = {} THEN "points" ELSE "series"]
    /\ UNCHANGED <<clock, primary, points, labels, marker, status, overlap, torn, unlabelled,
                   partial, outage>>

\* write: the labels first.  (What is written is not needed any more.)
WriteSeries(r) ==
    /\ cycle[r].pc = "series"
    /\ labels' = labels \cup cycle[r].due
    /\ cycle' = [cycle EXCEPT ![r].pc = "points", ![r].due = {}]
    /\ UNCHANGED <<clock, primary, points, marker, seen, status, overlap, torn, unlabelled,
                   partial, outage, troubles>>

\* The points of the series ss over the steps from..to go in once more.
Inserted(ss, from, to) ==
    [s \in AllSeries |-> [t \in Steps |->
        IF s \in ss /\ from <= t /\ t <= to
        THEN IF points[s][t] = 0 THEN 1 ELSE 2
        ELSE points[s][t]]]

\* The points of the queries' series ss, each over the steps of its query.
InsertedOf(r, ss) ==
    [s \in AllSeries |->
        IF s \in ss THEN Inserted({s}, From(cycle[r].last[QueryOf[s]], cycle[r].to), cycle[r].to)[s]
                    ELSE points[s]]

\* write: the points of all queries in one insert.
WritePoints(r) ==
    /\ cycle[r].pc = "points"
    /\ points' = InsertedOf(r, cycle[r].out)
    /\ cycle' = [cycle EXCEPT ![r].pc = "rules", ![r].out = {}]
    /\ UNCHANGED <<clock, primary, labels, marker, seen, status, overlap, torn, unlabelled,
                   partial, outage, troubles>>

\* (mutant of WriteFails: the connections and the seriesCache are kept)
WriteFailsNoDrop(r) ==
    /\ cycle[r].pc \in {"series", "points"}
    /\ Trouble
    /\ Ended(r, cycle[r].to)
    /\ UNCHANGED <<clock, primary, points, labels, marker, seen, overlap, torn, unlabelled,
                   partial, outage>>

\* (mutant of WriteFails: the cycle goes on to its rules)
WriteFailsGoesOn(r) ==
    /\ cycle[r].pc \in {"series", "points"}
    /\ Trouble
    /\ Drop(r)
    /\ cycle' = [cycle EXCEPT ![r].pc = "rules"]
    /\ UNCHANGED <<clock, primary, points, labels, marker, status, overlap, torn, unlabelled,
                   partial, outage>>

\* write fails, with some of the rows stored: the cycle ends before its rules.
WriteFails(r) ==
    /\ cycle[r].pc \in {"series", "points"}
    /\ Trouble
    /\ IF cycle[r].pc = "series"
       THEN /\ \E ss \in SUBSET cycle[r].due : labels' = labels \cup ss
            /\ UNCHANGED <<points, torn>>
       ELSE /\ \E ss \in SUBSET cycle[r].out :
                  /\ points' = InsertedOf(r, ss)
                  /\ torn' = (torn \/ ss \notin {{}, cycle[r].out})
            /\ UNCHANGED labels
    /\ Drop(r)
    /\ Ended(r, cycle[r].to)
    /\ UNCHANGED <<clock, primary, marker, overlap, unlabelled, partial, outage>>

-----------------------------------------------------------------------------
(* recordingRules *)

RulesTo(r) == cycle[r].to - Lookahead

\* The steps are computed from the world that is stored.
ComputeRules(r) ==
    LET me == cycle[r]
        from == IF me.marked > 0 THEN me.marked + 1 ELSE RulesTo(r) - Backfill
        missing == {t \in from..RulesTo(r) : \E s \in Series : points[s][t] = 0 /\ FirstOf(s) < t}
    IN  /\ me.pc = "rules"
        /\ IF from > RulesTo(r)
           THEN Ended(r, RulesTo(r)) /\ UNCHANGED <<seen, partial>>
           ELSE /\ seen' = [seen EXCEPT ![r] = @ \cup {Rule}]
                /\ partial' = IF me.failed = {} THEN partial \cup missing ELSE partial
                /\ \E due \in BOOLEAN :
                      /\ Rule \in seen[r] \/ due
                      /\ cycle' = [cycle EXCEPT
                                      ![r].from = from,
                                      ![r].pc = IF due THEN "ruleSeries" ELSE "rulePoints"]
                /\ UNCHANGED status
        /\ UNCHANGED <<clock, primary, points, labels, marker, overlap, torn, unlabelled, outage,
                       troubles>>

\* LoadWorld fails.
LoadFails(r) ==
    /\ cycle[r].pc = "rules"
    /\ Trouble
    /\ Ended(r, RulesTo(r))
    /\ UNCHANGED <<clock, primary, points, labels, marker, seen, overlap, torn, unlabelled,
                   partial, outage>>

WriteRuleSeries(r) ==
    /\ cycle[r].pc = "ruleSeries"
    /\ labels' = labels \cup {Rule}
    /\ cycle' = [cycle EXCEPT ![r].pc = "rulePoints"]
    /\ UNCHANGED <<clock, primary, points, marker, seen, status, overlap, torn, unlabelled,
                   partial, outage, troubles>>

\* (mutant of NotBefore: the rules go by the marker alone)
ByMarker(r) == cycle[r].from

\* A rule that has rows is continued after them, whatever the marker says.
NotBefore(r) == IF cycle[r].ruled + 1 > cycle[r].from THEN cycle[r].ruled + 1 ELSE cycle[r].from

Later2(a, b) == IF a > b THEN a ELSE b

\* write: the points of the rules and the marker in one insert.
WriteRules(r) ==
    /\ cycle[r].pc = "rulePoints"
    /\ points' = Inserted({Rule}, NotBefore(r), RulesTo(r))
    /\ marker' = Later2(marker, RulesTo(r))
    /\ Ended(r, RulesTo(r))
    /\ UNCHANGED <<clock, primary, labels, seen, overlap, torn, unlabelled, partial, outage,
                   troubles>>

\* write fails: the labels may or may not be stored, the points and the marker
\* too, apart; and nothing is dropped.
WriteRulesFails(r) ==
    /\ cycle[r].pc \in {"ruleSeries", "rulePoints"}
    /\ Trouble
    /\ IF cycle[r].pc = "ruleSeries"
       THEN /\ labels' \in {labels, labels \cup {Rule}}
            /\ unlabelled' = (unlabelled \/ Rule \notin labels')
            /\ UNCHANGED <<points, marker, torn>>
       ELSE /\ \E rows, mark \in BOOLEAN :
                  /\ points' = IF rows THEN Inserted({Rule}, NotBefore(r), RulesTo(r)) ELSE points
                  /\ marker' = IF mark THEN Later2(marker, RulesTo(r)) ELSE marker
                  /\ torn' = (torn \/ (mark /\ ~rows))
            /\ UNCHANGED <<labels, unlabelled>>
    /\ Ended(r, RulesTo(r))
    /\ UNCHANGED <<clock, primary, seen, overlap, partial, outage>>

-----------------------------------------------------------------------------
EvaluatorRestarts(r) ==
    /\ Trouble
    /\ primary' = IF primary = r THEN None ELSE primary
    /\ seen' = [seen EXCEPT ![r] = {}]
    /\ cycle' = [cycle EXCEPT ![r] = NoCycle]
    /\ status' = [status EXCEPT ![r] = 0]
    /\ UNCHANGED <<clock, points, labels, marker, overlap, torn, unlabelled,
                   partial, outage>>

EvaluatorNext ==
    \/ TimePasses \/ LosePrimary
    \/ \E r \in Replicas :
          \/ Elect(r) \/ Decide(r) \/ Begin(r) \/ BeginFails(r) \/ NamesFail(r) \/ Evaluate(r)
          \/ WriteSeries(r) \/ WritePoints(r) \/ WriteFails(r)
          \/ ComputeRules(r) \/ LoadFails(r) \/ WriteRuleSeries(r) \/ WriteRules(r)
          \/ WriteRulesFails(r) \/ EvaluatorRestarts(r)

EvaluatorSpec == EvaluatorInit /\ [][EvaluatorNext]_evaluatorVars

-----------------------------------------------------------------------------
EvaluatorTypeOK ==
    /\ clock \in Nat
    /\ primary \in Replicas \cup {None}
    /\ points \in [AllSeries -> [Steps -> 0..2]]
    /\ labels \in SUBSET AllSeries
    /\ marker \in Steps
    /\ seen \in [Replicas -> SUBSET AllSeries]
    /\ status \in [Replicas -> Steps]

\* "with several instances of Coroot only the primary one evaluates ...; two
\* would write every point twice" (Run): a series has every step between its
\* first and its last one exactly once, whatever failed, whatever was stored
\* and reported as failed, whoever crashed, however long the program runs: the steps
\* stored twice come from two cycles beside each other, the missing ones from an
\* insert of which a part was stored or from an outage longer than the backfill.
EachStepOnce ==
    \A s \in AllSeries : \A t \in FirstOf(s)..LastOf(s) :
        /\ points[s][t] > 1 => overlap
        /\ points[s][t] = 0 => torn \/ outage

\* "the series go first, so that points are never read without their labels"
\* (write): what has points has labels, except a rule whose labels failed to be
\* written and count as written since.
LabelsFirst ==
    \A s \in AllSeries : LastOf(s) > 0 => s \in labels \/ (s = Rule /\ unlabelled)

\* "rows here are written once" (ruleLookahead): the rules of a step are computed
\* when all series of all queries have that step, or a query failed in that very
\* cycle, or an insert was torn before, or there is the hole of an outage longer than
\* the backfill.
RulesWhole == partial = {} \/ torn \/ outage

\* "recentlyEvaluated is up to when this instance stored the results of a project
\* in its last cycle" (client.go), "the end of the stored results" (GetTo): the
\* rules are computed up to the step that is served.  This does not hold: the
\* README tells how it fails.
ServedIsStored == \A r \in Replicas : status[r] <= marker
=============================================================================
