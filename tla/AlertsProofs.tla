----------------------------- MODULE AlertsProofs -----------------------------
(***************************************************************************)
(* Theorems about the alerts of one project (Alerts), for every set of     *)
(* rules and fingerprints, every cap, every number of requests and faults. *)
(*                                                                         *)
(* Types           the records of the running check and request, and the   *)
(*                 rules that the rows and the writes under way belong to   *)
(* Untouched       what a check that initializes log patterns finds        *)
(* Announced       every row is announced, about to be, or needs not be    *)
(* EndsAnnounced   every end is announced, about to be, or needs not be    *)
(* Overtaking, Snapshot, Counting     the cap of alerts per application    *)
(* Quieting        an ended occurrence and the rows it leaves              *)
(* Waiting         pendingAlerts beside the time a condition was seen      *)
(* Sighted         what a resolving loop is about to resolve               *)
(***************************************************************************)
EXTENDS Alerts, FiniteSetTheorems, WellFoundedInduction, TLAPS

Pcs == {"idle", "rules", "list", "init", "eval", "write", "enqueue", "queue", "nonmatching"}

Listed == [id : Nat, row : Row]

\* The local variables of Check and of a request.
Locals == [pc : Pcs, seen : SUBSET Fingerprints, ok : SUBSET Fingerprints, apps : SUBSET Apps,
           loaded : SUBSET Rules, todo : SUBSET Rules, rule : Rules \cup {None},
           work : SUBSET Fingerprints, active : SUBSET Fingerprints, listed : SUBSET Listed,
           made : SUBSET Fingerprints, queue : SUBSET Acts,
           phase : {"eval", "stale", "nonmatching"}, act : Acts]

Requests == [pc : {"idle", "update", "enqueue", "delete"},
             op : {"none", "resolve", "suppress", "delete"}, id : Nat,
             rule : Rules \cup {None}, notify : SUBSET Nat]

Capped(r) == RuleType[r] \in {"log", "k8s"}

\* A rule is being evaluated (its resolving loops have not begun).
Evaluating == chk.pc = "eval" \/ (chk.pc \in {"write", "enqueue"} /\ chk.phase = "eval")

\* The check is about to insert a row, or has inserted row i and not announced it.
Inserting == chk.pc = "write" /\ chk.act.op = "create"
Creating(i) == chk.pc = "enqueue" /\ chk.act.op = "create" /\ chk.act.id = i

-----------------------------------------------------------------------------
(* The types *)

Tables ==
    /\ condition \in [Fingerprints -> {"firing", "ok", "absent"}]
    /\ present \subseteq Apps
    /\ rules \in [Rules -> {"never", "enabled", "disabled", "deleted"}]
    /\ alerts \in Seq(Row)
    /\ pending \in [Fingerprints -> Ages \cup {None}]
    /\ initialized \in BOOLEAN /\ due \in BOOLEAN
    /\ opened \subseteq Ids /\ resolved \subseteq Ids
    /\ reopened \subseteq Ids /\ unheard \subseteq Ids
    /\ streak \in [Fingerprints -> Ages \cup {None}]
    /\ quiet \subseteq Fingerprints /\ cleared \subseteq Fingerprints
    /\ changes \in 0..MaxChanges /\ requests \in Nat /\ faults \in 0..MaxFaults

\* An alert is of the application of its fingerprint, or of none.
RowApps == \A i \in Ids : alerts[i].app \in {AppOf[alerts[i].fp], NoApp}

CheckTypes ==
    /\ chk \in Locals
    /\ chk.pc \notin {"idle", "rules"} => chk.rule \in Rules /\ chk.rule \notin chk.todo
    /\ chk.pc \in {"init", "eval", "write", "enqueue"} /\ chk.phase = "eval"
          => \A fp \in chk.work : RuleOf[fp] = chk.rule
    /\ chk.pc \in {"init", "eval"} => chk.phase = "eval"
    /\ chk.pc = "queue" => chk.phase # "eval"
    /\ chk.pc = "init" => RuleType[chk.rule] = "log" /\ ~initialized
    /\ \A l \in chk.listed : /\ l.id \in Ids
                             /\ l.row.fp = alerts[l.id].fp /\ l.row.app = alerts[l.id].app
                             /\ Evaluating => RuleOf[l.row.fp] = chk.rule

\* What a check is about to write belongs to its rule.
ActTypes ==
    /\ \A a \in chk.queue : a.op = "resolve" /\ a.id \in Ids
    /\ chk.act.op \in {"update", "resolve"} => chk.act.id \in Ids
    /\ chk.pc \in {"write", "enqueue"} => chk.act.op # "none"
    /\ chk.pc \in {"write", "enqueue"} /\ chk.phase # "eval" => chk.act.op = "resolve"
    /\ chk.pc = "enqueue" => chk.act.op \in {"create", "resolve"} /\ chk.act.id \in Ids
    /\ Inserting => /\ chk.act.notify /\ chk.act.fp \in chk.made \ chk.work
                    /\ RuleOf[chk.act.fp] = chk.rule
    /\ chk.pc = "write" /\ chk.act.op = "clear"
          => /\ ~chk.act.notify
             /\ chk.act.fp \in Fingerprints
             /\ RuleOf[chk.act.fp] = chk.rule /\ RuleType[chk.rule] = "check"
    /\ chk.pc = "write" /\ chk.act.op = "update"
          => /\ ~chk.act.notify
             /\ chk.act.fp = None
             /\ RuleOf[alerts[chk.act.id].fp] = chk.rule
             /\ Capped(chk.rule) => \E l \in chk.listed : l.id = chk.act.id
    /\ chk.act.op = "resolve" => chk.act.fp = None
    /\ \A a \in chk.queue : a.fp = None
    /\ chk.pc = "write" /\ chk.act.op = "resolve" /\ chk.phase = "eval"
          => RuleType[chk.rule] = "check"
    /\ Evaluating => chk.work \cap chk.made = {}

RequestTypes ==
    /\ req \in Requests
    /\ req.notify \subseteq Ids
    /\ req.pc = "idle" => req = NoRequest
    /\ req.pc # "idle" => req.rule \in Rules /\ req.op # "none"
    /\ req.op \in {"resolve", "suppress"} => req.id \in Ids /\ req.rule = RuleOf[alerts[req.id].fp]
    /\ req.pc = "delete" => req.op = "delete"
    /\ req.op = "delete" => "delete" \in Operations

Types == Tables /\ RowApps /\ CheckTypes /\ ActTypes /\ RequestTypes

-----------------------------------------------------------------------------
(* The other parts of the invariant *)

\* In a check of a project without alerts the rules that are still to be
\* evaluated have none, nor do the patterns that are still to be recorded.
Untouched ==
    /\ chk.pc # "idle" /\ ~initialized
          => \A i \in Ids : /\ RuleOf[alerts[i].fp] \notin chk.todo
                            /\ chk.pc = "list" => RuleOf[alerts[i].fp] # chk.rule
    /\ chk.pc = "init" => \A i \in Ids : alerts[i].fp \notin chk.work

\* Only the patterns of a log rule become rows that are not announced, and they
\* stay ended until a user reopens them.
Announced ==
    faults = 0 =>
        \A i \in Ids : \/ i \in opened \cup reopened \/ Creating(i)
                       \/ /\ RuleType[RuleOf[alerts[i].fp]] = "log"
                          /\ alerts[i].manual \/ alerts[i].suppressed

Opened(i) == i \in opened \/ Creating(i)

\* The end of alert i was announced, is about to be, or is left out.
Ended(i) ==
    LET r == RuleOf[alerts[i].fp]
    IN  \/ i \in resolved
        \/ ~Stored(r)
        \/ r \in Builtin /\ "delete" \in Operations
        \/ chk.pc = "enqueue" /\ chk.act.op = "resolve" /\ chk.act.id = i
        \/ req.pc = "enqueue" /\ i \in req.notify /\ req.rule = r
        \/ req.op = "delete" /\ req.pc \in {"enqueue", "delete"} /\ req.rule = r

Closed(i) == Opened(i) => Ended(i)

\* An alert that is not active is closed, and so is one that a check or a
\* request is about to end without an announcement.
EndsAnnounced ==
    faults = 0 =>
        /\ \A i \in Ids : Firing(alerts[i]) \/ Closed(i)
        /\ \A l \in chk.listed : l.row.manual => Closed(l.id)
        /\ \A a \in chk.queue : ~a.notify => Closed(a.id)
        /\ chk.pc = "write" /\ chk.act.op = "resolve" /\ ~chk.act.notify => Closed(chk.act.id)
        /\ req.pc = "update" /\ req.op # "delete" /\ req.id \notin req.notify => Closed(req.id)

\* An active alert that no user reopened.
Fires(i) == i \notin reopened /\ Firing(alerts[i])

\* Row k is newer than row i, and of the same fingerprint.
Newer(k, i) == k > i /\ alerts[k].fp = alerts[i].fp

Overtaking ==
    /\ \A i, k \in Ids : Capped(RuleOf[alerts[i].fp]) /\ Newer(k, i) => ~Fires(i)
    /\ Inserting => \A i \in Ids : alerts[i].fp = chk.act.fp => ~Fires(i)

Counts(l) == ~l.row.manual /\ ~l.row.suppressed

\* What the evaluation of rule r listed, beside the table: an active row that it
\* does not know to have opened was listed as active, or it opened it unheard and
\* is done with the fingerprint; one listed as ended stays so until a user
\* reopens it, and no row overtakes one that counts.
TrueToTable(r) ==
    /\ \A i \in Ids : RuleOf[alerts[i].fp] = r /\ Fires(i)
          => \/ alerts[i].fp \in chk.made
             \/ \E l \in chk.listed : l.id = i /\ Counts(l)
             \/ i \in unheard /\ alerts[i].fp \notin chk.work
    /\ \A l \in chk.listed : ~Counts(l)
          => l.id \in reopened \/ alerts[l.id].manual \/ alerts[l.id].suppressed
    /\ \A l \in chk.listed, k \in Ids : Newer(k, l.id) => l.id \in reopened \/ ~Counts(l)
    /\ \A l \in chk.listed : l.row.fp \notin chk.made

Snapshot == Evaluating /\ Capped(chk.rule) => TrueToTable(chk.rule)

Counted(a) == {l \in chk.listed : l.row.app = a /\ ~l.row.manual /\ ~l.row.suppressed}
Made(a) == {g \in chk.made : AppOf[g] = a}

\* The count of an application, as the evaluation keeps it.
Within(a) ==
    /\ Cardinality({l \in Counted(a) : l.id \notin Uncounted}) <= MaxAlertsPerApp
    /\ Made(a) # {} => Cardinality(Counted(a)) + Cardinality(Made(a)) <= MaxAlertsPerApp

\* The cap, as the evaluation counts.
Counting ==
    /\ IsFiniteSet(chk.listed) /\ IsFiniteSet(chk.made)
    /\ Evaluating /\ Capped(chk.rule) => \A a \in Apps : Within(a)

\* A quiet condition has a row that is not resolved, and neither what was listed
\* nor what was decided before it became quiet leads to another one.
Quieting ==
    /\ \A fp \in quiet : \E i \in Ids : alerts[i].fp = fp /\ ~alerts[i].resolved
    /\ Inserting => chk.act.fp \notin quiet
    /\ Evaluating /\ Capped(chk.rule)
          => \A fp \in quiet \cap chk.work : \E l \in chk.listed : l.row.fp = fp

SeenFor(fp, wait) == streak[fp] # None /\ streak[fp] >= wait

\* pendingAlerts holds no condition for longer than every check saw it.
Waiting ==
    /\ \A fp \in Fingerprints :
          RuleType[RuleOf[fp]] = "check" /\ pending[fp] # None
             => SeenFor(fp, pending[fp]) \/ fp \in cleared
    /\ Inserting /\ RuleType[chk.rule] = "check"
          => SeenFor(chk.act.fp, For[chk.rule]) \/ chk.act.fp \in cleared

\* The evaluation of rule r saw what is active, and its resolving loop leaves that alone.
Leaves(r) ==
    /\ Evaluating => Evaluated(r) \subseteq chk.active
    /\ chk.pc \in {"queue", "write", "enqueue"} /\ chk.phase = "stale"
          => \A a \in chk.queue : alerts[a.id].fp \notin Evaluated(r)
    /\ chk.pc = "write" /\ chk.phase = "stale" => alerts[chk.act.id].fp \notin Evaluated(r)

Watched(r) == r \in Rules /\ RuleType[r] \in {"promql", "log"}

Sighted == chk.pc # "idle" /\ Watched(chk.rule) => Leaves(chk.rule)

-----------------------------------------------------------------------------
(* What the operations do to the table *)

LEMMA TableFacts ==
  ASSUME alerts \in Seq(Row)
  PROVE  /\ Len(alerts) \in Nat /\ Ids = 1..Len(alerts) /\ Ids \subseteq Nat
         /\ DOMAIN alerts = Ids /\ IsFiniteSet(Ids)
         /\ \A i \in Ids : /\ alerts[i] \in Row
                           /\ alerts[i].fp \in Fingerprints /\ alerts[i].app \in Apps \cup {NoApp}
                           /\ alerts[i].resolved \in BOOLEAN /\ alerts[i].manual \in BOOLEAN
                           /\ alerts[i].suppressed \in BOOLEAN /\ alerts[i].age \in Ages
<1>1. Len(alerts) \in Nat /\ Ids = 1..Len(alerts) /\ DOMAIN alerts = Ids
  BY DEF Ids
<1>2. IsFiniteSet(Ids)
  BY <1>1, FS_Interval
<1>3. \A i \in Ids : alerts[i] \in Row
  BY <1>1
<1> QED BY <1>1, <1>2, <1>3 DEF Row

LEMMA AgeFacts ==
  ASSUME NEW fp \in Fingerprints
  PROVE  /\ 0 \in Ages /\ Ages \subseteq Nat
         /\ \A a \in Ages : Older(fp, a) \in Ages
<1>1. MaxAge \in [Rules -> Nat] /\ RuleOf[fp] \in Rules
  BY AlertsAssumption
<1>2. 0..MaxAge[RuleOf[fp]] \subseteq Ages
  BY <1>1 DEF Ages
<1>3. Ages \subseteq Nat
  BY <1>1 DEF Ages
<1>4. ASSUME NEW a \in Ages PROVE Older(fp, a) \in Ages
  BY <1>1, <1>2, <1>3 DEF Older
<1> QED BY <1>1, <1>2, <1>3, <1>4

\* All but the age of row i is as it was.
SameRow(i) ==
    /\ alerts'[i].fp = alerts[i].fp /\ alerts'[i].app = alerts[i].app
    /\ alerts'[i].resolved = alerts[i].resolved /\ alerts'[i].manual = alerts[i].manual
    /\ alerts'[i].suppressed = alerts[i].suppressed

SameIds == alerts' \in Seq(Row) /\ Len(alerts') = Len(alerts) /\ Ids' = Ids

\* Nothing but ages changed; one row was added; one row was rewritten.
RowsKept == SameIds /\ \A i \in Ids : SameRow(i)

Grown(row) ==
    /\ alerts' \in Seq(Row)
    /\ Len(alerts') = Len(alerts) + 1 /\ Ids' = Ids \cup {Len(alerts) + 1}
    /\ Len(alerts) + 1 \notin Ids
    /\ \A i \in Ids : alerts'[i] = alerts[i]
    /\ alerts'[Len(alerts) + 1] = row

Rewritten(i, res, man, sup) ==
    /\ SameIds
    /\ \A k \in Ids : k # i => SameRow(k)
    /\ alerts'[i].fp = alerts[i].fp /\ alerts'[i].app = alerts[i].app
    /\ alerts'[i].resolved = res /\ alerts'[i].manual = man /\ alerts'[i].suppressed = sup

LEMMA SameTable ==
  ASSUME alerts \in Seq(Row), alerts' = alerts
  PROVE  RowsKept
BY DEF RowsKept, SameIds, SameRow, Ids

LEMMA NewTable ==
  ASSUME alerts \in Seq(Row), NEW f \in [Ids -> Row], alerts' = f
  PROVE  SameIds /\ \A i \in Ids : alerts'[i] = f[i]
<1>1. Len(alerts) \in Nat /\ Ids = 1..Len(alerts)
  BY DEF Ids
<1>2. f \in Seq(Row) /\ Len(f) = Len(alerts)
  BY <1>1
<1> QED BY <1>1, <1>2 DEF SameIds, Ids

LEMMA AppendRow ==
  ASSUME alerts \in Seq(Row), NEW row \in Row, alerts' = Append(alerts, row)
  PROVE  Grown(row)
<1>1. Len(alerts) \in Nat /\ Ids = 1..Len(alerts)
  BY DEF Ids
<1>2. /\ alerts' \in Seq(Row) /\ Len(alerts') = Len(alerts) + 1
      /\ \A i \in 1..Len(alerts) : alerts'[i] = alerts[i]
      /\ alerts'[Len(alerts) + 1] = row
  OBVIOUS
<1>3. Ids' = 1..(Len(alerts) + 1)
  BY <1>2 DEF Ids
<1> QED BY <1>1, <1>2, <1>3 DEF Grown

\* The statements that rewrite one row.
LEMMA OneRow ==
  ASSUME alerts \in Seq(Row), NEW i \in Ids, NEW row \in Row,
         row.fp = alerts[i].fp, row.app = alerts[i].app,
         alerts' = [alerts EXCEPT ![i] = row]
  PROVE  Rewritten(i, row.resolved, row.manual, row.suppressed)
<1> DEFINE f == [alerts EXCEPT ![i] = row]
<1>1. f \in [Ids -> Row] /\ f[i] = row /\ \A k \in Ids : k # i => f[k] = alerts[k]
  BY TableFacts
<1> HIDE DEF f
<1>2. alerts' = f
  BY DEF f
<1>3. SameIds /\ \A k \in Ids : alerts'[k] = f[k]
  BY <1>1, <1>2, NewTable
<1> QED BY <1>1, <1>3 DEF Rewritten, SameRow

\* The statements that rewrite many: ClearSuppression and ResolveAlertsByRule.
SuppressionCleared(fp) ==
    /\ SameIds
    /\ \A i \in Ids :
         /\ alerts'[i].fp = alerts[i].fp /\ alerts'[i].app = alerts[i].app
         /\ alerts'[i].resolved = alerts[i].resolved /\ alerts'[i].manual = alerts[i].manual
         /\ alerts'[i].suppressed = (alerts[i].suppressed /\ alerts[i].fp # fp)

ResolvedByRule(r) ==
    /\ SameIds
    /\ \A i \in Ids :
         /\ alerts'[i].fp = alerts[i].fp /\ alerts'[i].app = alerts[i].app
         /\ alerts'[i].resolved = (alerts[i].resolved \/ RuleOf[alerts[i].fp] = r)
         /\ alerts'[i].manual = alerts[i].manual
         /\ alerts'[i].suppressed = alerts[i].suppressed

LEMMA TickRows ==
  ASSUME alerts \in Seq(Row), Tick
  PROVE  RowsKept
<1> DEFINE f == [i \in Ids |-> [alerts[i] EXCEPT !.age = Older(alerts[i].fp, @)]]
<1>1. ASSUME NEW i \in Ids
      PROVE  /\ f[i] \in Row /\ f[i].fp = alerts[i].fp /\ f[i].app = alerts[i].app
             /\ f[i].resolved = alerts[i].resolved /\ f[i].manual = alerts[i].manual
             /\ f[i].suppressed = alerts[i].suppressed
  <2>1. alerts[i] \in Row /\ alerts[i].fp \in Fingerprints /\ alerts[i].age \in Ages
    BY TableFacts
  <2>2. Older(alerts[i].fp, alerts[i].age) \in Ages
    BY <2>1, AgeFacts
  <2> QED BY <2>1, <2>2 DEF Row
<1>2. f \in [Ids -> Row]
  BY <1>1
<1>3. alerts' = f
  BY DEF Tick
<1> HIDE DEF f
<1>4. SameIds /\ \A k \in Ids : alerts'[k] = f[k]
  BY <1>2, <1>3, NewTable
<1> QED BY <1>1, <1>4 DEF RowsKept, SameRow

LEMMA WriteRows ==
  ASSUME alerts \in Seq(Row), chk \in Locals, ActTypes, Stores
  PROVE  /\ chk.act.op = "create" => Grown(NewRow(chk.act.fp, FALSE))
         /\ chk.act.op = "update" =>
              Rewritten(chk.act.id, FALSE, alerts[chk.act.id].manual, alerts[chk.act.id].suppressed)
         /\ chk.act.op = "resolve" =>
              Rewritten(chk.act.id, TRUE, alerts[chk.act.id].manual, alerts[chk.act.id].suppressed)
         /\ chk.act.op = "clear" => SuppressionCleared(chk.act.fp)
<1> DEFINE a == chk.act
<1>1. chk.pc = "write" /\ alerts' = Written(a)
  BY DEF Stores
<1>2. ASSUME a.op = "create" PROVE Grown(NewRow(a.fp, FALSE))
  <2>1. a.fp \in Fingerprints
    BY <1>1, <1>2 DEF ActTypes, Inserting, Locals
  <2>2. NewRow(a.fp, FALSE) \in Row
    <3>1. 0 \in Ages
      BY <2>1, AgeFacts
    <3>2. chk.apps \subseteq Apps
      BY DEF Locals
    <3> QED BY <2>1, <3>1, <3>2 DEF NewRow, Row
  <2>3. alerts' = Append(alerts, NewRow(a.fp, FALSE))
    BY <1>1, <1>2 DEF Written
  <2> QED BY <2>2, <2>3, AppendRow
<1>3. ASSUME NEW res \in BOOLEAN, a.id \in Ids,
             alerts' = [alerts EXCEPT ![a.id].resolved = res, ![a.id].age = 0]
      PROVE  Rewritten(a.id, res, alerts[a.id].manual, alerts[a.id].suppressed)
  <2> DEFINE row == [alerts[a.id] EXCEPT !.resolved = res, !.age = 0]
  <2>1. alerts[a.id] \in Row /\ alerts[a.id].fp \in Fingerprints
    BY <1>3, TableFacts
  <2>2. 0 \in Ages
    BY <2>1, AgeFacts
  <2>3. /\ row \in Row /\ row.fp = alerts[a.id].fp /\ row.app = alerts[a.id].app
        /\ row.resolved = res /\ row.manual = alerts[a.id].manual
        /\ row.suppressed = alerts[a.id].suppressed
    BY <2>1, <2>2 DEF Row
  <2>4. alerts' = [alerts EXCEPT ![a.id] = row]
    BY <1>3, TableFacts
  <2> HIDE DEF row
  <2>5. Rewritten(a.id, row.resolved, row.manual, row.suppressed)
    BY <1>3, <2>3, <2>4, OneRow
  <2> QED BY <2>3, <2>5
<1>4. ASSUME a.op = "update" PROVE Rewritten(a.id, FALSE, alerts[a.id].manual, alerts[a.id].suppressed)
  BY <1>1, <1>3, <1>4 DEF Written, ActTypes
<1>5. ASSUME a.op = "resolve" PROVE Rewritten(a.id, TRUE, alerts[a.id].manual, alerts[a.id].suppressed)
  BY <1>1, <1>3, <1>5 DEF Written, ActTypes
<1>6. ASSUME a.op = "clear" PROVE SuppressionCleared(a.fp)
  <2> DEFINE f == [i \in Ids |-> IF alerts[i].fp = a.fp
                                 THEN [alerts[i] EXCEPT !.suppressed = FALSE] ELSE alerts[i]]
  <2>1. alerts' = f
    BY <1>1, <1>6 DEF Written
  <2>2. ASSUME NEW i \in Ids
        PROVE  /\ f[i] \in Row /\ f[i].fp = alerts[i].fp /\ f[i].app = alerts[i].app
               /\ f[i].resolved = alerts[i].resolved /\ f[i].manual = alerts[i].manual
               /\ f[i].suppressed = (alerts[i].suppressed /\ alerts[i].fp # a.fp)
    <3>1. alerts[i] \in Row
      BY TableFacts
    <3> QED BY <3>1 DEF Row
  <2>3. f \in [Ids -> Row]
    BY <2>2
  <2> HIDE DEF f
  <2>4. SameIds /\ \A k \in Ids : alerts'[k] = f[k]
    BY <2>1, <2>3, NewTable
  <2> QED BY <2>2, <2>4 DEF SuppressionCleared
<1> QED BY <1>2, <1>4, <1>5, <1>6

LEMMA InitRows ==
  ASSUME alerts \in Seq(Row), chk \in Locals, NEW fp \in Fingerprints, InitLogPattern(fp)
  PROVE  Grown(NewRow(fp, TRUE))
<1>1. NewRow(fp, TRUE) \in Row
  <2>1. 0 \in Ages
    BY AgeFacts
  <2>2. chk.apps \subseteq Apps
    BY DEF Locals
  <2> QED BY <2>1, <2>2 DEF NewRow, Row
<1>2. alerts' = Append(alerts, NewRow(fp, TRUE))
  BY DEF InitLogPattern
<1> QED BY <1>1, <1>2, AppendRow

LEMMA ReopenRows ==
  ASSUME alerts \in Seq(Row), NEW i \in Ids, ReopenAlerts(i)
  PROVE  Rewritten(i, alerts[i].resolved, FALSE, FALSE)
<1> DEFINE row == [alerts[i] EXCEPT !.manual = FALSE, !.suppressed = FALSE, !.age = 0]
<1>1. alerts[i] \in Row /\ alerts[i].fp \in Fingerprints
  BY TableFacts
<1>2. 0 \in Ages
  BY <1>1, AgeFacts
<1>3. /\ row \in Row /\ row.fp = alerts[i].fp /\ row.app = alerts[i].app
      /\ row.resolved = alerts[i].resolved /\ row.manual = FALSE /\ row.suppressed = FALSE
  BY <1>1, <1>2 DEF Row
<1>4. alerts' = [alerts EXCEPT ![i] = row]
  BY TableFacts DEF ReopenAlerts
<1> HIDE DEF row
<1>5. Rewritten(i, row.resolved, row.manual, row.suppressed)
  BY <1>3, <1>4, OneRow
<1> QED BY <1>3, <1>5

LEMMA RequestRows ==
  ASSUME alerts \in Seq(Row), RequestTypes, UpdateRows
  PROVE  /\ req.op = "resolve" =>
              \/ alerts[req.id].resolved /\ RowsKept
              \/ /\ ~alerts[req.id].resolved
                 /\ Rewritten(req.id, FALSE, TRUE, alerts[req.id].suppressed)
         /\ req.op = "suppress" => Rewritten(req.id, FALSE, FALSE, TRUE)
         /\ req.op = "delete" => ResolvedByRule(req.rule)
<1>1. ASSUME req.op = "resolve"
      PROVE  \/ alerts[req.id].resolved /\ RowsKept
             \/ /\ ~alerts[req.id].resolved
                /\ Rewritten(req.id, FALSE, TRUE, alerts[req.id].suppressed)
  <2>1. CASE alerts[req.id].resolved
    <3>1. alerts' = alerts
      BY <1>1, <2>1 DEF UpdateRows
    <3> QED BY <2>1, <3>1, SameTable
  <2>2. CASE ~alerts[req.id].resolved
    <3> DEFINE row == [alerts[req.id] EXCEPT !.manual = TRUE, !.age = 0]
    <3>1. req.id \in Ids
      BY <1>1 DEF RequestTypes
    <3>2. alerts[req.id] \in Row /\ alerts[req.id].fp \in Fingerprints
          /\ alerts[req.id].resolved = FALSE
      BY <2>2, <3>1, TableFacts
    <3>3. 0 \in Ages
      BY <3>2, AgeFacts
    <3>4. /\ row \in Row /\ row.fp = alerts[req.id].fp /\ row.app = alerts[req.id].app
          /\ row.resolved = FALSE /\ row.manual = TRUE
          /\ row.suppressed = alerts[req.id].suppressed
      BY <3>2, <3>3 DEF Row
    <3>5. alerts' = [alerts EXCEPT ![req.id] = row]
      BY <1>1, <2>2, <3>1, TableFacts DEF UpdateRows
    <3> HIDE DEF row
    <3>6. Rewritten(req.id, row.resolved, row.manual, row.suppressed)
      BY <3>1, <3>4, <3>5, OneRow
    <3> QED BY <2>2, <3>4, <3>6
  <2> QED BY <2>1, <2>2
<1>2. ASSUME req.op = "suppress"
      PROVE  Rewritten(req.id, FALSE, FALSE, TRUE)
  <2> DEFINE row == [alerts[req.id] EXCEPT !.suppressed = TRUE, !.resolved = FALSE,
                                           !.manual = FALSE, !.age = 0]
  <2>1. req.id \in Ids
    BY <1>2 DEF RequestTypes
  <2>2. alerts[req.id] \in Row /\ alerts[req.id].fp \in Fingerprints
    BY <2>1, TableFacts
  <2>3. 0 \in Ages
    BY <2>2, AgeFacts
  <2>4. /\ row \in Row /\ row.fp = alerts[req.id].fp /\ row.app = alerts[req.id].app
        /\ row.resolved = FALSE /\ row.manual = FALSE /\ row.suppressed = TRUE
    BY <2>2, <2>3 DEF Row
  <2>5. alerts' = [alerts EXCEPT ![req.id] = row]
    BY <1>2, <2>1, TableFacts DEF UpdateRows
  <2> HIDE DEF row
  <2>6. Rewritten(req.id, row.resolved, row.manual, row.suppressed)
    BY <2>1, <2>4, <2>5, OneRow
  <2> QED BY <2>4, <2>6
<1>3. ASSUME req.op = "delete"
      PROVE  ResolvedByRule(req.rule)
  <2> DEFINE f == [i \in Ids |-> IF i \in LatestByRule(req.rule)
                                 THEN [alerts[i] EXCEPT !.resolved = TRUE, !.age = 0]
                                 ELSE alerts[i]]
  <2>1. alerts' = f
    BY <1>3 DEF UpdateRows
  <2>2. ASSUME NEW i \in Ids
        PROVE  /\ f[i] \in Row /\ f[i].fp = alerts[i].fp /\ f[i].app = alerts[i].app
               /\ f[i].resolved = (alerts[i].resolved \/ RuleOf[alerts[i].fp] = req.rule)
               /\ f[i].manual = alerts[i].manual /\ f[i].suppressed = alerts[i].suppressed
    <3>1. alerts[i] \in Row /\ alerts[i].fp \in Fingerprints
      BY TableFacts
    <3>2. 0 \in Ages
      BY <3>1, AgeFacts
    <3> QED BY <3>1, <3>2 DEF Row, LatestByRule
  <2>3. f \in [Ids -> Row]
    BY <2>2
  <2> HIDE DEF f
  <2>4. SameIds /\ \A k \in Ids : alerts'[k] = f[k]
    BY <2>1, <2>3, NewTable
  <2> QED BY <2>2, <2>4 DEF ResolvedByRule
<1> QED BY <1>1, <1>2, <1>3

-----------------------------------------------------------------------------
(* The newest row of a set *)

LEMMA SmallestExists ==
  ASSUME NEW T, T \subseteq Nat, T # {}
  PROVE  \E m \in T : \A y \in T : m <= y
<1> DEFINE R == {ss \in Nat \X Nat : ss[1] < ss[2]}
<1>1. IsWellFoundedOn(R, Nat)
  BY NatLessThanWellFounded, Zenon DEF OpToRel
<1>2. \A a, b \in Nat : a < b => <<a, b>> \in R
  OBVIOUS
<1> HIDE DEF R
<1>3. PICK m \in T : \A y \in T : ~(<<y, m>> \in R)
  BY <1>1, WFMin
<1>4. \A y \in T : ~(y < m)
  BY <1>2, <1>3
<1>5. \A y \in T : m <= y
  BY <1>4
<1> QED BY <1>5

LEMMA LargestExists ==
  ASSUME NEW n \in Nat, NEW S \in SUBSET (1..n), S # {}
  PROVE  \E m \in S : \A y \in S : y <= m
<1> DEFINE T == {n - x : x \in S}
<1>1. T \subseteq Nat /\ T # {}
  <2>1. PICK x \in S : TRUE
    OBVIOUS
  <2>2. n - x \in T
    OBVIOUS
  <2>3. \A y \in S : n - y \in Nat
    OBVIOUS
  <2> QED BY <2>2, <2>3
<1>2. PICK m \in T : \A y \in T : m <= y
  <2> HIDE DEF T
  <2> QED BY <1>1, SmallestExists
<1>3. PICK x \in S : m = n - x
  OBVIOUS
<1>4. ASSUME NEW y \in S PROVE y <= x
  <2>1. m <= n - y
    BY <1>2
  <2> QED BY <1>3, <2>1
<1> QED BY <1>4

LEMMA NewestIn ==
  ASSUME alerts \in Seq(Row), NEW ids \in SUBSET Ids, ids # {}
  PROVE  Newest(ids) \in ids /\ \A k \in ids : k <= Newest(ids)
<1>1. \E i \in ids : \A k \in ids : k <= i
  BY TableFacts, LargestExists
<1> QED BY <1>1 DEF Newest

-----------------------------------------------------------------------------
(* What the steps of a check do to its local variables *)

SameRule ==
    /\ chk' \in Locals
    /\ chk'.seen = chk.seen /\ chk'.ok = chk.ok /\ chk'.apps = chk.apps
    /\ chk'.loaded = chk.loaded /\ chk'.todo = chk.todo /\ chk'.rule = chk.rule

SameSnapshot == chk'.work = chk.work /\ chk'.listed = chk.listed /\ chk'.made = chk.made

\* The check goes on at p, and nothing else happens to it.
Goes(p) ==
    /\ SameRule /\ SameSnapshot /\ chk'.active = chk.active
    /\ chk'.queue = chk.queue /\ chk'.phase = chk.phase /\ chk'.act = chk.act
    /\ chk'.pc = p

\* A new alert of fp may be opened.
MayOpen(fp) ==
    IF Capped(chk.rule)
    THEN /\ \A l \in chk.listed : l.row.fp # fp
         /\ AppOf[fp] \in Apps => ~(FiringCount(fp) >= MaxAlertsPerApp)
    ELSE ActiveOrSuppressed(fp) = {}

\* What Evaluate(fp) decided to do.
Decides(fp, a) ==
    \/ a = NoAct
    \/ a = Create(fp, TRUE) /\ MayOpen(fp)
    \/ \E i \in Ids : /\ a = Update(i) /\ RuleOf[alerts[i].fp] = chk.rule
                      /\ Capped(chk.rule) => \E l \in chk.listed : l.id = i
    \/ \E i \in Ids : a = Resolve(i, TRUE) /\ RuleType[chk.rule] = "check"
    \/ a = Clear(fp) /\ RuleType[chk.rule] = "check"

EvaluateOutcome(fp) ==
    /\ chk.pc = "eval" /\ fp \in chk.work
    /\ SameRule
    /\ chk'.listed = chk.listed /\ chk'.queue = chk.queue /\ chk'.phase = chk.phase
    /\ chk'.work = chk.work \ {fp}
    /\ chk.active \subseteq chk'.active
    /\ Decides(fp, chk'.act)
    /\ chk'.pc = IF chk'.act.op = "none" THEN "eval" ELSE "write"
    /\ chk'.made = IF chk'.act.op = "create" THEN chk.made \cup {fp} ELSE chk.made

LEMMA ActFacts ==
  ASSUME NEW fp \in Fingerprints, NEW i \in Nat
  PROVE  /\ NoAct \in Acts /\ Create(fp, TRUE) \in Acts /\ Update(i) \in Acts
         /\ Clear(fp) \in Acts /\ \A b \in BOOLEAN : Resolve(i, b) \in Acts
BY DEF Acts, NoAct, Create, Update, Clear, Resolve

LEMMA DecidedOutcome ==
  ASSUME chk \in Locals, NEW fp \in chk.work, NEW a \in Acts,
         chk.pc = "eval", Decided(fp, a), Decides(fp, a)
  PROVE  EvaluateOutcome(fp)
<1> DEFINE p == IF a.op = "none" THEN "eval" ELSE "write"
           m == IF a.op = "create" THEN chk.made \cup {fp} ELSE chk.made
           w == chk.work \ {fp}
<1>1. p \in Pcs /\ m \in SUBSET Fingerprints /\ w \in SUBSET Fingerprints
  BY DEF Pcs, Locals
<1>2. chk' = [chk EXCEPT !.pc = p, !.act = a, !.work = w, !.made = m]
  BY DEF Decided, Locals
<1>3. p = (IF a.op = "none" THEN "eval" ELSE "write")
      /\ m = (IF a.op = "create" THEN chk.made \cup {fp} ELSE chk.made)
      /\ w = chk.work \ {fp}
  OBVIOUS
<1> HIDE DEF p, m, w
<1>4. SameRule /\ chk'.listed = chk.listed /\ chk'.queue = chk.queue /\ chk'.phase = chk.phase
      /\ chk'.active = chk.active /\ chk'.work = w /\ chk'.made = m /\ chk'.act = a /\ chk'.pc = p
  BY <1>1, <1>2 DEF SameRule, Locals
<1>5. Decides(fp, chk'.act)
  BY <1>4
<1> QED BY <1>3, <1>4, <1>5 DEF EvaluateOutcome

LEMMA EvaluateDoes ==
  ASSUME alerts \in Seq(Row), CheckTypes, NEW fp \in Fingerprints, Evaluate(fp)
  PROVE  EvaluateOutcome(fp)
<1>1. chk \in Locals /\ chk.pc = "eval" /\ fp \in chk.work /\ chk.rule \in Rules
      /\ RuleOf[fp] = chk.rule
  BY DEF Evaluate, CheckTypes
<1>2. \A i \in Ids : i \in Nat /\ Update(i) \in Acts /\ \A b \in BOOLEAN : Resolve(i, b) \in Acts
  BY TableFacts, ActFacts
<1>3. NoAct \in Acts /\ Create(fp, TRUE) \in Acts /\ Clear(fp) \in Acts
  BY ActFacts
<1> DEFINE i == Newest(ActiveOrSuppressed(fp))
<1>4. ActiveOrSuppressed(fp) # {} => i \in Ids /\ alerts[i].fp = fp
  <2>1. ActiveOrSuppressed(fp) \subseteq Ids
    BY DEF ActiveOrSuppressed
  <2>2. ActiveOrSuppressed(fp) # {} => i \in ActiveOrSuppressed(fp)
    BY <2>1, NewestIn
  <2> QED BY <2>2 DEF ActiveOrSuppressed
<1>5. ASSUME NEW a \in Acts, Decided(fp, a), Decides(fp, a)
      PROVE  EvaluateOutcome(fp)
  BY <1>1, <1>5, DecidedOutcome
<1>6. ASSUME OpenOrWait(fp), ActiveOrSuppressed(fp) = {}, ~Capped(chk.rule)
      PROVE  EvaluateOutcome(fp)
  <2>1. Decides(fp, NoAct) /\ Decides(fp, Create(fp, TRUE))
    BY <1>6 DEF Decides, MayOpen
  <2>2. Decided(fp, NoAct) \/ Decided(fp, Create(fp, TRUE))
    BY <1>6 DEF OpenOrWait
  <2> QED BY <1>3, <1>5, <2>1, <2>2
<1>7. Decides(fp, NoAct)
  BY DEF Decides
<1>8. CASE EvaluateCheckAlert(fp)
  <2>1. RuleType[chk.rule] = "check" /\ ~Capped(chk.rule)
    BY <1>8 DEF EvaluateCheckAlert, Capped
  <2>2. Decides(fp, Clear(fp))
    BY <2>1 DEF Decides
  <2>3. ActiveOrSuppressed(fp) # {} => Decides(fp, Update(i)) /\ Decides(fp, Resolve(i, TRUE))
    BY <1>1, <1>4, <2>1 DEF Decides
  <2>4. \/ Decided(fp, NoAct) \/ Decided(fp, Clear(fp))
        \/ OpenOrWait(fp) /\ ActiveOrSuppressed(fp) = {}
        \/ ActiveOrSuppressed(fp) # {} /\ (Decided(fp, Update(i)) \/ Decided(fp, Resolve(i, TRUE)))
    BY <1>8 DEF EvaluateCheckAlert
  <2> QED BY <1>2, <1>3, <1>4, <1>5, <1>6, <1>7, <2>1, <2>2, <2>3, <2>4
<1>9. CASE EvaluatePromQLAlert(fp)
  <2>1. RuleType[chk.rule] = "promql" /\ ~Capped(chk.rule)
    BY <1>9 DEF EvaluatePromQLAlert, Capped
  <2>2. ActiveOrSuppressed(fp) # {} => Decides(fp, Update(i))
    BY <1>1, <1>4, <2>1 DEF Decides
  <2>3. \/ Decided(fp, NoAct)
        \/ OpenOrWait(fp) /\ ActiveOrSuppressed(fp) = {}
        \/ ActiveOrSuppressed(fp) # {} /\ Decided(fp, Update(i))
    BY <1>9 DEF EvaluatePromQLAlert
  <2> QED BY <1>2, <1>3, <1>4, <1>5, <1>6, <1>7, <2>1, <2>2, <2>3
<1>10. ASSUME NEW l \in chk.listed
       PROVE  Update(l.id) \in Acts /\ Decides(fp, Update(l.id))
  <2>1. l.id \in Ids /\ RuleOf[alerts[l.id].fp] = chk.rule
    BY <1>1 DEF CheckTypes, Evaluating
  <2> QED BY <1>2, <1>10, <2>1 DEF Decides
<1>11. CASE EvaluateLogPatternAlert(fp)
  <2>1. RuleType[chk.rule] = "log" /\ Capped(chk.rule)
    BY <1>11 DEF EvaluateLogPatternAlert, Capped
  <2>2. ASSUME NEW l \in BlockingAlerts(fp),
             chk' = [chk EXCEPT
                !.pc = IF l.row.suppressed \/ l.row.manual THEN "eval" ELSE "write",
                !.act = IF l.row.suppressed \/ l.row.manual THEN NoAct ELSE Update(l.id),
                !.work = @ \ {fp},
                !.active = @ \cup {l.row.fp}]
        PROVE  EvaluateOutcome(fp)
    <3>1. l \in chk.listed
      BY DEF BlockingAlerts
    <3>2. l.row.fp \in Fingerprints
      BY <1>1, <3>1 DEF Locals, Listed, Row
    <3> DEFINE a == IF l.row.suppressed \/ l.row.manual THEN NoAct ELSE Update(l.id)
               p == IF l.row.suppressed \/ l.row.manual THEN "eval" ELSE "write"
               w == chk.work \ {fp}
               v == chk.active \cup {l.row.fp}
    <3>3. Update(l.id) \in Acts /\ Decides(fp, Update(l.id)) /\ Update(l.id).op = "update"
          /\ NoAct.op = "none"
      BY <1>10, <3>1 DEF Update, NoAct
    <3>4. a \in Acts /\ Decides(fp, a) /\ p = (IF a.op = "none" THEN "eval" ELSE "write")
          /\ a.op # "create"
      BY <1>3, <1>7, <3>3
    <3>5. p \in Pcs /\ w \in SUBSET Fingerprints /\ v \in SUBSET Fingerprints /\ chk.active \subseteq v
          /\ w = chk.work \ {fp}
      BY <1>1, <3>2 DEF Pcs, Locals
    <3>6. chk' = [chk EXCEPT !.pc = p, !.act = a, !.work = w, !.active = v]
      BY <1>1, <2>2 DEF Locals
    <3> HIDE DEF a, p, w, v
    <3>7. SameRule /\ chk'.listed = chk.listed /\ chk'.queue = chk.queue /\ chk'.phase = chk.phase
          /\ chk'.active = v /\ chk'.work = w /\ chk'.made = chk.made /\ chk'.act = a /\ chk'.pc = p
      BY <1>1, <3>4, <3>5, <3>6 DEF SameRule, Locals
    <3>8. Decides(fp, chk'.act)
      BY <3>4, <3>7
    <3> QED BY <1>1, <3>4, <3>5, <3>7, <3>8 DEF EvaluateOutcome
  <2>3. CASE /\ BlockingAlerts(fp) = {}
             /\ Decided(fp, IF FiringCount(fp) >= MaxAlertsPerApp THEN NoAct ELSE Create(fp, TRUE))
    <3>1. \A l \in chk.listed : l.row.fp # fp
      BY <2>3 DEF BlockingAlerts
    <3>2. CASE FiringCount(fp) >= MaxAlertsPerApp
      BY <1>3, <1>5, <1>7, <2>3, <3>2
    <3>3. CASE ~(FiringCount(fp) >= MaxAlertsPerApp)
      <4>1. Decides(fp, Create(fp, TRUE))
        BY <2>1, <3>1, <3>3 DEF Decides, MayOpen
      <4> QED BY <1>3, <1>5, <2>3, <3>3, <4>1
    <3> QED BY <3>2, <3>3
  <2> QED BY <1>11, <2>2, <2>3 DEF EvaluateLogPatternAlert
<1>12. CASE EvaluateKubernetesEventsAlert(fp)
  <2>1. RuleType[chk.rule] = "k8s" /\ Capped(chk.rule)
    BY <1>12 DEF EvaluateKubernetesEventsAlert, Capped
  <2>2. ASSUME NEW l \in chk.listed, l.row.fp = fp,
               Decided(fp, IF l.row.suppressed THEN NoAct ELSE Update(l.id))
        PROVE  EvaluateOutcome(fp)
    <3>1. Update(l.id) \in Acts /\ Decides(fp, Update(l.id))
      BY <1>10
    <3> QED BY <1>3, <1>5, <1>7, <2>2, <3>1
  <2>3. ASSUME \A l \in chk.listed : l.row.fp # fp,
               Decided(fp, IF AppOf[fp] # NoApp /\ FiringCount(fp) >= MaxAlertsPerApp
                           THEN NoAct ELSE Create(fp, TRUE))
        PROVE  EvaluateOutcome(fp)
    <3>1. CASE AppOf[fp] # NoApp /\ FiringCount(fp) >= MaxAlertsPerApp
      BY <1>3, <1>5, <1>7, <2>3, <3>1
    <3>2. CASE ~(AppOf[fp] # NoApp /\ FiringCount(fp) >= MaxAlertsPerApp)
      <4>1. AppOf[fp] \in Apps => AppOf[fp] # NoApp
        BY AlertsAssumption
      <4>2. Decides(fp, Create(fp, TRUE))
        BY <2>1, <2>3, <3>2, <4>1 DEF Decides, MayOpen
      <4> QED BY <1>3, <1>5, <2>3, <3>2, <4>2
    <3> QED BY <3>1, <3>2
  <2> QED BY <1>12, <2>2, <2>3 DEF EvaluateKubernetesEventsAlert
<1> QED BY <1>8, <1>9, <1>11, <1>12 DEF Evaluate

LEMMA EvaluatedFacts ==
  ASSUME chk \in Locals, NEW r \in Rules
  PROVE  Evaluated(r) \subseteq Fingerprints /\ \A fp \in Evaluated(r) : RuleOf[fp] = r
<1>1. chk.seen \subseteq Fingerprints /\ Matching(r) \subseteq Fingerprints
      /\ \A fp \in Matching(r) : RuleOf[fp] = r
  BY DEF Matching, Locals
<1> QED BY <1>1 DEF Evaluated

\* The rows a log or Kubernetes events rule lists.
Listing(r) == {Read(i) : i \in NewestByFingerprint(LatestByRule(r))}

LEMMA ListingFacts ==
  ASSUME alerts \in Seq(Row), NEW r \in Rules
  PROVE  /\ Listing(r) \subseteq Listed /\ IsFiniteSet(Listing(r))
         /\ \A l \in Listing(r) : /\ l.id \in Ids /\ l.row = alerts[l.id]
                                  /\ RuleOf[alerts[l.id].fp] = r /\ ~alerts[l.id].resolved
         /\ \A i \in Ids : RuleOf[alerts[i].fp] = r /\ ~alerts[i].resolved
               => \E l \in Listing(r) : alerts[l.id].fp = alerts[i].fp /\ l.id >= i
<1> DEFINE S == NewestByFingerprint(LatestByRule(r))
<1>1. S \subseteq Ids /\ \A i \in S : RuleOf[alerts[i].fp] = r /\ ~alerts[i].resolved
  BY DEF NewestByFingerprint, LatestByRule
<1>2. \A i \in S : Read(i) \in Listed /\ Read(i).id = i /\ Read(i).row = alerts[i]
  BY <1>1, TableFacts DEF Read, Listed
<1>3. IsFiniteSet(S)
  BY <1>1, TableFacts, FS_Subset
<1>4. ASSUME NEW i \in Ids, RuleOf[alerts[i].fp] = r, ~alerts[i].resolved
      PROVE  \E k \in S : alerts[k].fp = alerts[i].fp /\ k >= i
  <2> DEFINE T == {k \in LatestByRule(r) : alerts[k].fp = alerts[i].fp}
  <2>1. T \subseteq Ids /\ i \in T
    BY <1>4 DEF LatestByRule
  <2>2. PICK m \in T : \A k \in T : k <= m
    <3> HIDE DEF T
    <3> QED BY <2>1, TableFacts, LargestExists
  <2>3. m \in S
    BY <2>2 DEF NewestByFingerprint
  <2>4. m \in Nat /\ i \in Nat /\ m >= i
    BY <2>1, <2>2, TableFacts
  <2> QED BY <2>2, <2>3, <2>4
<1>5. Listing(r) = {Read(i) : i \in S}
  BY DEF Listing
<1> HIDE DEF S
<1>6. IsFiniteSet(Listing(r))
  <2> DEFINE f == [i \in S |-> Read(i)]
  <2>1. f \in Surjection(S, Listing(r))
    BY <1>5 DEF Surjection
  <2> QED BY <1>3, <2>1, FS_Surjection
<1> QED BY <1>1, <1>2, <1>4, <1>5, <1>6

ListOutcome ==
    /\ chk.pc = "list"
    /\ SameRule
    /\ chk'.pc = IF RuleType[chk.rule] = "log" /\ ~initialized THEN "init" ELSE "eval"
    /\ chk'.phase = "eval" /\ chk'.queue = chk.queue /\ chk'.act = chk.act
    /\ chk'.work = Evaluated(chk.rule)
    /\ chk'.active = IF RuleType[chk.rule] = "check" THEN {} ELSE Evaluated(chk.rule)
    /\ chk'.made = {}
    /\ chk'.listed = IF Capped(chk.rule) THEN Listing(chk.rule) ELSE {}

LEMMA ListDoes ==
  ASSUME alerts \in Seq(Row), CheckTypes, ListRule
  PROVE  ListOutcome
<1>1. chk \in Locals /\ chk.pc = "list" /\ chk.rule \in Rules
  BY DEF ListRule, CheckTypes
<1> DEFINE p == IF RuleType[chk.rule] = "log" /\ ~initialized THEN "init" ELSE "eval"
           w == Evaluated(chk.rule)
           v == IF RuleType[chk.rule] = "check" THEN {} ELSE Evaluated(chk.rule)
           s == IF Capped(chk.rule) THEN Listing(chk.rule) ELSE {}
<1>2. p \in Pcs /\ w \in SUBSET Fingerprints /\ v \in SUBSET Fingerprints /\ s \in SUBSET Listed
  BY <1>1, EvaluatedFacts, ListingFacts DEF Pcs
<1>3. chk' = [chk EXCEPT !.pc = p, !.phase = "eval", !.work = w, !.active = v, !.made = {},
                         !.listed = s]
  BY <1>1 DEF ListRule, Capped, Listing
<1> HIDE DEF p, w, v, s
<1>4. /\ SameRule /\ chk'.pc = p /\ chk'.phase = "eval" /\ chk'.queue = chk.queue
      /\ chk'.act = chk.act /\ chk'.work = w /\ chk'.active = v /\ chk'.made = {} /\ chk'.listed = s
  BY <1>1, <1>2, <1>3 DEF SameRule, Locals
<1> QED BY <1>1, <1>4 DEF ListOutcome, p, w, v, s

\* What the loop over stale alerts has before it.
StaleRead == IF RuleType[chk.rule] = "promql" THEN {Read(i) : i \in LatestByRule(chk.rule)}
             ELSE chk.listed

EndsOutcome ==
    /\ chk.pc = "eval"
    /\ SameRule /\ SameSnapshot /\ chk'.active = chk.active /\ chk'.act = chk.act
    /\ chk'.phase = "stale"
    /\ chk'.pc = IF RuleType[chk.rule] = "check" THEN "nonmatching" ELSE "queue"
    /\ \A a \in chk'.queue : \E l \in StaleRead : /\ a = Resolve(l.id, ~l.row.manual)
                                                  /\ l.row.fp \notin chk.active

LEMMA StaleReadFacts ==
  ASSUME alerts \in Seq(Row), CheckTypes, chk.rule \in Rules
  PROVE  \A l \in StaleRead : /\ l.id \in Ids /\ l.id \in Nat /\ l.row.manual \in BOOLEAN
                              /\ l.row.fp = alerts[l.id].fp
                              /\ l.row = alerts[l.id] \/ l \in chk.listed
<1>1. CASE RuleType[chk.rule] = "promql"
  <2>1. \A i \in LatestByRule(chk.rule) : i \in Ids /\ Read(i).id = i /\ Read(i).row = alerts[i]
    BY DEF LatestByRule, Read
  <2> QED BY <1>1, <2>1, TableFacts DEF StaleRead
<1>2. CASE RuleType[chk.rule] # "promql"
  <2>1. \A l \in chk.listed : l.id \in Nat /\ l.row.manual \in BOOLEAN
    BY DEF CheckTypes, Locals, Listed, Row
  <2> QED BY <1>2, <2>1 DEF StaleRead, CheckTypes
<1> QED BY <1>1, <1>2

LEMMA EndsDoes ==
  ASSUME alerts \in Seq(Row), CheckTypes, EvaluationEnds
  PROVE  EndsOutcome
<1>1. chk \in Locals /\ chk.pc = "eval" /\ chk.rule \in Rules
  BY DEF EvaluationEnds, CheckTypes
<1> DEFINE p == IF RuleType[chk.rule] = "check" THEN "nonmatching" ELSE "queue"
           q == {Resolve(l.id, NotYetEnded(l.row)) :
                   l \in {m \in Stale(StaleRead) : ~KeepsFiring(chk.rule, m.row)}}
<1>2. \A l \in {m \in Stale(StaleRead) : ~KeepsFiring(chk.rule, m.row)} :
         l \in StaleRead /\ l.row.fp \notin chk.active
  BY DEF Stale
<1>3. \A a \in q : \E l \in StaleRead : a = Resolve(l.id, ~l.row.manual) /\ l.row.fp \notin chk.active
  BY <1>2 DEF NotYetEnded
<1>4. \A l \in StaleRead : l.id \in Nat /\ (~l.row.manual) \in BOOLEAN
  BY <1>1, StaleReadFacts
<1>5. \A l \in StaleRead : Resolve(l.id, ~l.row.manual) \in Acts
  BY <1>4 DEF Resolve, Acts
<1>6. p \in Pcs /\ q \in SUBSET Acts
  BY <1>3, <1>5 DEF Pcs
<1>7. chk' = [chk EXCEPT !.pc = p, !.phase = "stale", !.queue = q]
  BY <1>1 DEF EvaluationEnds, StaleRead
<1>8. p = (IF RuleType[chk.rule] = "check" THEN "nonmatching" ELSE "queue")
  OBVIOUS
<1> HIDE DEF p, q
<1>9. /\ SameRule /\ SameSnapshot /\ chk'.active = chk.active /\ chk'.act = chk.act
      /\ chk'.phase = "stale" /\ chk'.pc = p /\ chk'.queue = q
  BY <1>1, <1>6, <1>7 DEF SameRule, SameSnapshot, Locals
<1> QED BY <1>1, <1>3, <1>8, <1>9 DEF EndsOutcome

NonMatchingOutcome ==
    /\ chk.pc = "nonmatching"
    /\ SameRule /\ SameSnapshot /\ chk'.active = chk.active /\ chk'.act = chk.act
    /\ chk'.phase = "nonmatching" /\ chk'.pc = "queue"
    /\ \A a \in chk'.queue : \E i \in Ids : a = Resolve(i, ~alerts[i].manual)

LEMMA NonMatchingDoes ==
  ASSUME alerts \in Seq(Row), CheckTypes, ListNonMatching
  PROVE  NonMatchingOutcome
<1>1. chk \in Locals /\ chk.pc = "nonmatching" /\ chk.rule \in Rules
  BY DEF ListNonMatching, CheckTypes
<1> DEFINE kept(i) == /\ chk.rule \in chk.loaded
                      /\ alerts[i].app \in Selected[chk.rule]
                      /\ alerts[i].app \in chk.apps \cup {NoApp}
           q == {Resolve(i, NotYetEnded(alerts[i])) : i \in {k \in LatestByRule(chk.rule) : ~kept(k)}}
<1>2. \A a \in q : \E i \in Ids : a = Resolve(i, ~alerts[i].manual)
  BY DEF LatestByRule, NotYetEnded
<1>3. \A i \in Ids : Resolve(i, ~alerts[i].manual) \in Acts
  BY TableFacts DEF Resolve, Acts
<1>4. q \in SUBSET Acts
  BY <1>2, <1>3
<1>5. chk' = [chk EXCEPT !.pc = "queue", !.phase = "nonmatching", !.queue = q]
  BY <1>1 DEF ListNonMatching
<1> HIDE DEF q
<1>6. /\ SameRule /\ SameSnapshot /\ chk'.active = chk.active /\ chk'.act = chk.act
      /\ chk'.phase = "nonmatching" /\ chk'.pc = "queue" /\ chk'.queue = q
  BY <1>1, <1>4, <1>5 DEF SameRule, SameSnapshot, Locals, Pcs
<1> QED BY <1>1, <1>2, <1>6 DEF NonMatchingOutcome

WriteOutcome ==
    /\ chk.pc = "write"
    /\ SameRule /\ SameSnapshot /\ chk'.active = chk.active
    /\ chk'.queue = chk.queue /\ chk'.phase = chk.phase
    /\ chk'.pc = IF chk.act.notify THEN "enqueue" ELSE Loop
    /\ chk'.act.op = chk.act.op /\ chk'.act.fp = chk.act.fp /\ chk'.act.notify = chk.act.notify
    /\ chk'.act.id = IF chk.act.op = "create" THEN Len(alerts) + 1 ELSE chk.act.id

LEMMA WriteDoes ==
  ASSUME alerts \in Seq(Row), chk \in Locals, Write
  PROVE  WriteOutcome
<1> DEFINE i == IF chk.act.op = "create" THEN Len(alerts) + 1 ELSE chk.act.id
           a == [chk.act EXCEPT !.id = i]
           p == IF chk.act.notify THEN "enqueue" ELSE Loop
<1>1. chk.act \in Acts /\ Len(alerts) \in Nat
  BY DEF Locals
<1>2. i \in Nat
  BY <1>1 DEF Acts
<1>3. a \in Acts /\ a.op = chk.act.op /\ a.fp = chk.act.fp /\ a.notify = chk.act.notify /\ a.id = i
  BY <1>1, <1>2 DEF Acts
<1>4. p \in Pcs
  BY DEF Pcs, Loop
<1>5. chk' = [chk EXCEPT !.pc = p, !.act = a]
  BY <1>1 DEF Write, Locals, Acts
<1>6. p = (IF chk.act.notify THEN "enqueue" ELSE Loop)
      /\ i = (IF chk.act.op = "create" THEN Len(alerts) + 1 ELSE chk.act.id)
  OBVIOUS
<1> HIDE DEF a, p, i
<1>7. /\ SameRule /\ SameSnapshot /\ chk'.active = chk.active
      /\ chk'.queue = chk.queue /\ chk'.phase = chk.phase /\ chk'.pc = p /\ chk'.act = a
  BY <1>3, <1>4, <1>5 DEF SameRule, SameSnapshot, Locals
<1>8. chk.pc = "write"
  BY DEF Write, Stores
<1> QED BY <1>3, <1>6, <1>7, <1>8 DEF WriteOutcome

\* A write that took effect and is reported as failed.
UnheardOutcome ==
    /\ chk.pc = "write"
    /\ SameRule /\ chk'.work = chk.work /\ chk'.listed = chk.listed /\ chk'.active = chk.active
    /\ chk'.queue = chk.queue /\ chk'.phase = chk.phase
    /\ chk'.pc = Loop /\ chk'.act = chk.act /\ chk'.made = chk.made \ {chk.act.fp}

LEMMA UnheardDoes ==
  ASSUME chk \in Locals, WriteUnheard
  PROVE  UnheardOutcome
<1>1. chk.pc = "write" /\ chk' = [chk EXCEPT !.pc = Loop, !.made = @ \ {chk.act.fp}]
  BY DEF WriteUnheard, Stores
<1>2. Loop \in Pcs
  BY DEF Loop, Pcs
<1> QED BY <1>1, <1>2 DEF UnheardOutcome, SameRule, Locals

\* What is common to the two.
StoreOutcome ==
    /\ Stores /\ chk.pc = "write"
    /\ SameRule /\ chk'.work = chk.work /\ chk'.listed = chk.listed /\ chk'.active = chk.active
    /\ chk'.queue = chk.queue /\ chk'.phase = chk.phase
    /\ chk'.pc \in {"enqueue", Loop} /\ chk'.made \subseteq chk.made

LEMMA StoreDoes ==
  ASSUME alerts \in Seq(Row), chk \in Locals, Write \/ WriteUnheard
  PROVE  StoreOutcome
<1>1. CASE Write
  BY <1>1, WriteDoes DEF Write, WriteOutcome, SameSnapshot, StoreOutcome
<1>2. CASE WriteUnheard
  BY <1>2, UnheardDoes DEF WriteUnheard, UnheardOutcome, StoreOutcome
<1> QED BY <1>1, <1>2

\* A step that goes on at another place of the program.
LEMMA GoesOn ==
  ASSUME chk \in Locals, NEW p \in Pcs, chk' = [chk EXCEPT !.pc = p]
  PROVE  Goes(p)
BY DEF Goes, SameRule, SameSnapshot, Locals

LEMMA EnqueueDoes ==
  ASSUME chk \in Locals, Enqueue
  PROVE  Goes(Loop)
<1>1. Loop \in Pcs
  BY DEF Loop, Pcs
<1>2. chk' = [chk EXCEPT !.pc = Loop]
  BY DEF Enqueue
<1> QED BY <1>1, <1>2, GoesOn

LEMMA InitEndDoes ==
  ASSUME chk \in Locals, InitLogPatternsEnd
  PROVE  Goes("nonmatching")
<1>1. PICK p : p = "nonmatching"
  OBVIOUS
<1>2. p \in Pcs /\ chk' = [chk EXCEPT !.pc = p]
  BY <1>1 DEF Pcs, InitLogPatternsEnd
<1>3. Goes(p)
  BY <1>2, GoesOn
<1> QED BY <1>1, <1>3

LEMMA LoopEndDoes ==
  ASSUME chk \in Locals, ResolveLoopEnds
  PROVE  Goes(IF chk.phase = "stale" THEN "nonmatching" ELSE "rules")
<1>1. PICK p : p = IF chk.phase = "stale" THEN "nonmatching" ELSE "rules"
  OBVIOUS
<1>2. p \in Pcs /\ chk' = [chk EXCEPT !.pc = p]
  BY <1>1 DEF Pcs, ResolveLoopEnds
<1>3. Goes(p)
  BY <1>2, GoesOn
<1> QED BY <1>1, <1>3

NextRuleOutcome(r) ==
    /\ chk.pc = "rules" /\ r \in chk.todo
    /\ chk' \in Locals
    /\ chk'.todo = chk.todo \ {r} /\ chk'.rule = r
    /\ chk'.pc \in {"list", "nonmatching"}
    /\ SameSnapshot /\ chk'.queue = chk.queue /\ chk'.act = chk.act /\ chk'.phase = chk.phase

LEMMA NextRuleDoes ==
  ASSUME chk \in Locals, NEW r \in Rules, NextRule(r)
  PROVE  NextRuleOutcome(r)
<1>1. PICK p : p = IF r \in chk.loaded THEN "list" ELSE "nonmatching"
  OBVIOUS
<1>2. chk.pc = "rules" /\ r \in chk.todo /\ p \in {"list", "nonmatching"} /\ p \in Pcs
      /\ chk' = [chk EXCEPT !.pc = p, !.rule = r, !.todo = @ \ {r}]
  BY <1>1 DEF NextRule, Pcs
<1> QED BY <1>2 DEF NextRuleOutcome, SameSnapshot, Locals

LEMMA BeginDoes ==
  ASSUME Tables, BeginCheck
  PROVE  /\ chk' \in Locals /\ chk'.pc = "rules" /\ chk'.listed = {} /\ chk'.queue = {}
         /\ chk'.act = NoAct /\ chk'.phase = "eval" /\ chk'.rule = None /\ chk'.made = {}
         /\ chk'.work = {}
<1> DEFINE x == [Idle EXCEPT !.pc = "rules",
                 !.seen = {fp \in Fingerprints : condition[fp] = "firing"},
                 !.ok = {fp \in Fingerprints : condition[fp] = "ok"},
                 !.apps = present,
                 !.loaded = {r \in Rules : rules[r] = "enabled"},
                 !.todo = {r \in Rules : Stored(r)}]
<1>1. chk' = x
  BY DEF BeginCheck
<1>2. NoAct \in Acts
  BY DEF NoAct, Acts
<1>3. x \in Locals
  BY <1>2 DEF Idle, Locals, Pcs, Tables
<1> QED BY <1>1, <1>3 DEF Idle

LEMMA IdleFacts ==
  /\ Idle \in Locals /\ Idle.pc = "idle" /\ Idle.listed = {} /\ Idle.queue = {}
  /\ Idle.act = NoAct /\ Idle.phase = "eval" /\ Idle.made = {} /\ Idle.work = {}
<1>1. NoAct \in Acts
  BY DEF NoAct, Acts
<1> QED BY <1>1 DEF Idle, Locals, Pcs

InitOutcome(fp) ==
    /\ chk.pc = "init" /\ fp \in chk.work
    /\ SameRule /\ chk'.pc = chk.pc /\ chk'.phase = chk.phase
    /\ chk'.queue = chk.queue /\ chk'.act = chk.act
    /\ chk'.listed = chk.listed /\ chk'.made = chk.made /\ chk'.active = chk.active
    /\ chk'.work = chk.work \ {fp}

LEMMA InitDoes ==
  ASSUME chk \in Locals, NEW fp \in Fingerprints, InitLogPattern(fp)
  PROVE  InitOutcome(fp)
<1>1. chk.pc = "init" /\ fp \in chk.work /\ chk' = [chk EXCEPT !.work = @ \ {fp}]
  BY DEF InitLogPattern
<1> QED BY <1>1 DEF InitOutcome, SameRule, Locals

NextOutcome(a) ==
    /\ chk.pc = "queue" /\ a \in chk.queue
    /\ SameRule /\ SameSnapshot /\ chk'.active = chk.active
    /\ chk'.pc = "write" /\ chk'.phase = chk.phase
    /\ chk'.act = a /\ chk'.queue = chk.queue \ {a}

LEMMA ResolveNextDoes ==
  ASSUME chk \in Locals, NEW a \in chk.queue, ResolveNext(a)
  PROVE  NextOutcome(a)
<1>1. chk.pc = "queue" /\ chk' = [chk EXCEPT !.pc = "write", !.act = a, !.queue = @ \ {a}]
  BY DEF ResolveNext
<1> QED BY <1>1 DEF NextOutcome, SameRule, SameSnapshot, Locals, Pcs

FailOutcome ==
    /\ SameRule /\ chk'.queue = chk.queue /\ chk'.act = chk.act
    /\ \/ chk.pc \in {"list", "nonmatching"} /\ Goes(chk'.pc) /\ chk'.pc \in {"nonmatching", "rules"}
       \/ chk.pc = "eval" /\ RuleType[chk.rule] = "promql" /\ Goes("nonmatching")
       \/ /\ chk.pc = "list" /\ RuleType[chk.rule] = "k8s"
          /\ chk'.pc = "eval" /\ chk'.phase = "eval" /\ chk'.work = {} /\ chk'.active = {}
          /\ chk'.made = {} /\ chk'.listed = Listing(chk.rule)
       \/ /\ chk.pc \in {"init", "eval"} /\ chk'.pc = chk.pc /\ chk'.work \subseteq chk.work
          /\ chk'.active = chk.active /\ chk'.made = chk.made /\ chk'.listed = chk.listed
          /\ chk'.phase = chk.phase
       \/ /\ chk.pc = "write" /\ chk'.pc = Loop /\ chk'.made = chk.made \ {chk.act.fp}
          /\ chk'.work = chk.work /\ chk'.active = chk.active /\ chk'.listed = chk.listed
          /\ chk'.phase = chk.phase

LEMMA FailDoes ==
  ASSUME alerts \in Seq(Row), CheckTypes, StatementFails
  PROVE  FailOutcome
<1>1. chk \in Locals /\ (chk.pc \notin {"idle", "rules"} => chk.rule \in Rules /\ chk.rule # None)
  BY AlertsAssumption DEF CheckTypes
<1>2. ASSUME NEW p \in {"nonmatching", "rules"}, chk.pc \in {"list", "nonmatching"},
             chk' = [chk EXCEPT !.pc = p]
      PROVE  FailOutcome
  <2>1. p \in Pcs
    BY DEF Pcs
  <2>2. Goes(p)
    BY <1>1, <1>2, <2>1, GoesOn
  <2> QED BY <1>2, <2>2 DEF FailOutcome, Goes
<1>3. ASSUME chk.pc = "eval", RuleType[chk.rule] = "promql", chk' = [chk EXCEPT !.pc = "nonmatching"]
      PROVE  FailOutcome
  <2>1. PICK p : p = "nonmatching"
    OBVIOUS
  <2>2. p \in Pcs /\ chk' = [chk EXCEPT !.pc = p]
    BY <1>3, <2>1 DEF Pcs
  <2>3. Goes(p)
    BY <1>1, <2>2, GoesOn
  <2> QED BY <1>3, <2>1, <2>3 DEF FailOutcome, Goes
<1>4. ASSUME chk.pc = "list", RuleType[chk.rule] = "k8s",
             chk' = [chk EXCEPT !.pc = "eval", !.phase = "eval", !.work = {}, !.active = {},
                                !.made = {}, !.listed = Listing(chk.rule)]
      PROVE  FailOutcome
  <2>1. Listing(chk.rule) \subseteq Listed
    BY <1>1, <1>4, ListingFacts
  <2> QED BY <1>1, <1>4, <2>1 DEF FailOutcome, SameRule, Locals, Pcs
<1>5. ASSUME chk.pc \in {"init", "eval"}, NEW fp \in chk.work, chk' = [chk EXCEPT !.work = @ \ {fp}]
      PROVE  FailOutcome
  BY <1>1, <1>5 DEF FailOutcome, SameRule, Locals
<1>6. ASSUME chk.pc = "write", chk' = [chk EXCEPT !.pc = Loop, !.made = @ \ {chk.act.fp}]
      PROVE  FailOutcome
  <2>1. Loop \in Pcs
    BY DEF Loop, Pcs
  <2> QED BY <1>1, <1>6, <2>1 DEF FailOutcome, SameRule, Locals
<1> QED BY <1>1, <1>2, <1>3, <1>4, <1>5, <1>6 DEF StatementFails, Listing

-----------------------------------------------------------------------------
(* The types are kept *)

\* No row goes away or changes its fingerprint or its application.
OldRows ==
    /\ alerts' \in Seq(Row) /\ Ids \subseteq Ids'
    /\ \A i \in Ids : alerts'[i].fp = alerts[i].fp /\ alerts'[i].app = alerts[i].app

LEMMA RowsStay ==
  /\ RowsKept => OldRows /\ Ids' = Ids
  /\ \A row : Grown(row) => OldRows
  /\ \A i \in Ids : \A res, man, sup : Rewritten(i, res, man, sup) => OldRows /\ Ids' = Ids
  /\ \A fp : SuppressionCleared(fp) => OldRows /\ Ids' = Ids
  /\ \A r : ResolvedByRule(r) => OldRows /\ Ids' = Ids
BY DEF RowsKept, SameRow, SameIds, Grown, Rewritten, SuppressionCleared, ResolvedByRule, OldRows

LEMMA RowAppsKept ==
  ASSUME Tables, RowApps, OldRows, Ids' = Ids
  PROVE  RowApps'
BY DEF RowApps, OldRows

LEMMA RowAppsGrown ==
  ASSUME Tables, RowApps, NEW fp \in Fingerprints, NEW m \in BOOLEAN, Grown(NewRow(fp, m))
  PROVE  RowApps'
<1>1. NewRow(fp, m).fp = fp /\ NewRow(fp, m).app \in {AppOf[fp], NoApp}
  BY DEF NewRow
<1> QED BY <1>1 DEF RowApps, Grown

LEMMA CheckTypesKept ==
  ASSUME CheckTypes, OldRows, chk' = chk, initialized' = initialized
  PROVE  CheckTypes'
BY DEF CheckTypes, OldRows, Evaluating

LEMMA ActTypesKept ==
  ASSUME ActTypes, OldRows, chk' = chk
  PROVE  ActTypes'
BY DEF ActTypes, OldRows, Evaluating, Inserting

LEMMA RequestTypesKept ==
  ASSUME RequestTypes, OldRows, req' = req
  PROVE  RequestTypes'
BY DEF RequestTypes, OldRows

LEMMA TypesAfterWorld ==
  ASSUME Types, WorldChanges \/ UNCHANGED vars
  PROVE  Types'
<1>1. alerts' = alerts /\ chk' = chk /\ req' = req /\ initialized' = initialized
  BY DEF WorldChanges, vars
<1>2. OldRows /\ Ids' = Ids
  BY <1>1, SameTable, RowsStay DEF Types, Tables
<1>3. RowApps' /\ CheckTypes' /\ ActTypes' /\ RequestTypes'
  BY <1>1, <1>2, RowAppsKept, CheckTypesKept, ActTypesKept, RequestTypesKept DEF Types
<1>4. Tables'
  <2>1. CASE UNCHANGED vars
    BY <1>2, <2>1 DEF Types, Tables, vars, world, history, counters
  <2>2. CASE WorldChanges
    <3>1. condition' \in [Fingerprints -> {"firing", "ok", "absent"}] /\ present' \subseteq Apps
      BY <2>2 DEF WorldChanges, Types, Tables
    <3>2. changes' \in 0..MaxChanges
      BY <2>2, AlertsAssumption DEF WorldChanges, Types, Tables
    <3> QED BY <1>2, <2>2, <3>1, <3>2 DEF WorldChanges, Types, Tables, history
  <2> QED BY <2>1, <2>2
<1> QED BY <1>3, <1>4 DEF Types

LEMMA TypesAfterTick ==
  ASSUME Types, Tick
  PROVE  Types'
<1>1. chk' = chk /\ req' = req /\ initialized' = initialized
  BY DEF Tick
<1>2. OldRows /\ Ids' = Ids
  BY TickRows, RowsStay DEF Types, Tables
<1>3. RowApps' /\ CheckTypes' /\ ActTypes' /\ RequestTypes'
  BY <1>1, <1>2, RowAppsKept, CheckTypesKept, ActTypesKept, RequestTypesKept DEF Types
<1>4. /\ pending' \in [Fingerprints -> Ages \cup {None}]
      /\ streak' \in [Fingerprints -> Ages \cup {None}]
  <2>1. \A fp \in Fingerprints, a \in Ages : Older(fp, a) \in Ages
    BY AgeFacts
  <2>2. \A fp \in Fingerprints : /\ pending[fp] # None => pending[fp] \in Ages
                                 /\ streak[fp] # None => streak[fp] \in Ages
    BY DEF Types, Tables
  <2> QED BY <2>1, <2>2 DEF Tick
<1>5. Tables'
  BY <1>2, <1>4 DEF Tick, Types, Tables, OldRows, world, counters
<1> QED BY <1>3, <1>5 DEF Types

LEMMA TypesAfterRequest ==
  ASSUME Types,
         \/ \E i \in Ids : ReadAlert("resolve", i) \/ ReadAlert("suppress", i)
         \/ \E r \in Rules : ReadRule(r) \/ UpdateAlertingRule(r)
         \/ EnqueueResolvedAlerts \/ DeleteAlertingRule \/ RequestFails
  PROVE  Types'
<1>1. alerts' = alerts /\ chk' = chk /\ initialized' = initialized
  BY DEF ReadAlert, ReadRule, UpdateAlertingRule, EnqueueResolvedAlerts, DeleteAlertingRule,
         RequestFails
<1>2. OldRows /\ Ids' = Ids
  BY <1>1, SameTable, RowsStay DEF Types, Tables
<1>3. RowApps' /\ CheckTypes' /\ ActTypes'
  BY <1>1, <1>2, RowAppsKept, CheckTypesKept, ActTypesKept DEF Types
<1>4. NoRequest \in Requests /\ NoRequest.pc = "idle" /\ NoRequest.op = "none"
      /\ NoRequest.notify = {}
  BY DEF NoRequest, Requests
<1>5. ASSUME NEW i \in Ids, NEW op \in {"resolve", "suppress"}, ReadAlert(op, i)
      PROVE  Tables' /\ RequestTypes'
  <2>1. PICK S \in SUBSET Ids : req' = [pc |-> "update", op |-> op, id |-> i,
                                        rule |-> RuleOf[alerts[i].fp], notify |-> S]
    BY <1>5 DEF ReadAlert
  <2>2. i \in Nat /\ Ids \subseteq Nat /\ RuleOf[alerts[i].fp] \in Rules
    BY TableFacts, AlertsAssumption DEF Types, Tables
  <2>3. RequestTypes'
    BY <1>1, <1>2, <2>1, <2>2 DEF RequestTypes, Requests
  <2>4. Tables'
    BY <1>1, <1>2, <1>5 DEF ReadAlert, Request, Types, Tables, world, history
  <2> QED BY <2>3, <2>4
<1>6. ASSUME NEW r \in Rules, ReadRule(r)
      PROVE  Tables' /\ RequestTypes'
  <2>1. LatestByRule(r) \subseteq Ids /\ Ids \subseteq Nat
    BY TableFacts DEF LatestByRule, Types, Tables
  <2>2. req' = [pc |-> "update", op |-> "delete", id |-> 0, rule |-> r, notify |-> LatestByRule(r)]
        /\ "delete" \in Operations
    BY <1>6 DEF ReadRule, Request
  <2>3. RequestTypes'
    BY <1>1, <1>2, <2>1, <2>2 DEF RequestTypes, Requests
  <2>4. Tables'
    BY <1>1, <1>2, <1>6 DEF ReadRule, Request, Types, Tables, world, history
  <2> QED BY <2>3, <2>4
<1>7. ASSUME NEW r \in Rules, UpdateAlertingRule(r)
      PROVE  Tables' /\ RequestTypes'
  <2>1. RequestTypes'
    BY <1>2, <1>7, RequestTypesKept DEF UpdateAlertingRule, Types
  <2>2. rules' \in [Rules -> {"never", "enabled", "disabled", "deleted"}]
    BY <1>7 DEF UpdateAlertingRule, Types, Tables
  <2>3. Tables'
    BY <1>1, <1>2, <1>7, <2>2 DEF UpdateAlertingRule, Request, Types, Tables, world, history
  <2> QED BY <2>1, <2>3
<1>8. ASSUME EnqueueResolvedAlerts
      PROVE  Tables' /\ RequestTypes'
  <2>1. RequestTypes'
    <3>1. CASE req.op = "delete"
      <4>1. req' = [req EXCEPT !.pc = "delete"]
        BY <1>8, <3>1 DEF EnqueueResolvedAlerts
      <4> QED BY <1>1, <1>2, <1>8, <3>1, <4>1 DEF EnqueueResolvedAlerts, Types, RequestTypes, Requests
    <3>2. CASE req.op # "delete"
      <4>1. req' = NoRequest
        BY <1>8, <3>2 DEF EnqueueResolvedAlerts
      <4> QED BY <1>4, <4>1 DEF RequestTypes
    <3> QED BY <3>1, <3>2
  <2>2. resolved' \subseteq Ids
    BY <1>8 DEF EnqueueResolvedAlerts, Types, RequestTypes, Tables
  <2>3. Tables'
    BY <1>1, <1>2, <1>8, <2>2 DEF EnqueueResolvedAlerts, Types, Tables, world, history, counters
  <2> QED BY <2>1, <2>3
<1>9. ASSUME DeleteAlertingRule
      PROVE  Tables' /\ RequestTypes'
  <2>1. RequestTypes'
    BY <1>4, <1>9 DEF DeleteAlertingRule, RequestTypes
  <2>2. rules' \in [Rules -> {"never", "enabled", "disabled", "deleted"}]
    BY <1>9 DEF DeleteAlertingRule, Types, Tables
  <2>3. Tables'
    BY <1>1, <1>2, <1>9, <2>2 DEF DeleteAlertingRule, Types, Tables, world, history, counters
  <2> QED BY <2>1, <2>3
<1>10. ASSUME RequestFails
       PROVE  Tables' /\ RequestTypes'
  <2>1. req' = NoRequest => RequestTypes'
    BY <1>4 DEF RequestTypes
  <2>2. ASSUME req.op = "delete", req.pc # "idle", req' = [req EXCEPT !.pc = "delete"]
        PROVE  RequestTypes'
    BY <1>1, <1>2, <2>2 DEF Types, RequestTypes, Requests
  <2>3. faults' \in 0..MaxFaults
    BY <1>10, AlertsAssumption DEF RequestFails, Types, Tables
  <2>4. Tables'
    BY <1>1, <1>2, <1>10, <2>3 DEF RequestFails, Types, Tables, world, history
  <2>5. RequestTypes'
    BY <1>10, <2>1, <2>2 DEF RequestFails
  <2> QED BY <2>4, <2>5
<1>11. Tables' /\ RequestTypes'
  <2>1. PICK o1, o2 : o1 = "resolve" /\ o2 = "suppress"
    OBVIOUS
  <2>2. o1 \in {"resolve", "suppress"} /\ o2 \in {"resolve", "suppress"}
    BY <2>1
  <2> QED BY <1>5, <1>6, <1>7, <1>8, <1>9, <1>10, <2>1, <2>2
<1> QED BY <1>3, <1>11 DEF Types

LEMMA TypesAfterReopen ==
  ASSUME Types, NEW i \in Ids, ReopenAlerts(i)
  PROVE  Types'
<1>1. OldRows /\ Ids' = Ids
  BY ReopenRows, RowsStay DEF Types, Tables
<1>2. chk' = chk /\ req' = req /\ initialized' = initialized
  BY DEF ReopenAlerts
<1>3. RowApps' /\ CheckTypes' /\ ActTypes' /\ RequestTypes'
  BY <1>1, <1>2, RowAppsKept, CheckTypesKept, ActTypesKept, RequestTypesKept DEF Types
<1>4. reopened' \subseteq Ids /\ quiet' \subseteq Fingerprints
  BY DEF ReopenAlerts, Types, Tables
<1>5. Tables'
  BY <1>1, <1>4 DEF ReopenAlerts, Request, Types, Tables, OldRows, world
<1> QED BY <1>3, <1>5 DEF Types

LEMMA TypesAfterUpdateRows ==
  ASSUME Types, UpdateRows
  PROVE  Types'
<1>0. req.op \in {"resolve", "suppress", "delete"} /\ req.rule \in Rules
      /\ (req.op # "delete" => req.id \in Ids)
  BY DEF Types, RequestTypes, Requests, UpdateRows
<1>1. OldRows /\ Ids' = Ids
  BY <1>0, RequestRows, RowsStay DEF Types, Tables
<1>2. chk' = chk /\ initialized' = initialized /\ req' = [req EXCEPT !.pc = "enqueue"]
      /\ req.pc = "update"
  BY DEF UpdateRows
<1>3. RowApps' /\ CheckTypes' /\ ActTypes'
  BY <1>1, <1>2, RowAppsKept, CheckTypesKept, ActTypesKept DEF Types
<1>4. RequestTypes'
  BY <1>1, <1>2 DEF Types, RequestTypes, Requests, OldRows
<1>5. quiet' \subseteq Fingerprints
  <2>1. req.op # "delete" => alerts[req.id].fp \in Fingerprints
    BY <1>0, TableFacts DEF Types, Tables
  <2> QED BY <2>1 DEF UpdateRows, Types, Tables
<1>6. Tables'
  BY <1>1, <1>5 DEF UpdateRows, Types, Tables, OldRows, world, counters
<1> QED BY <1>3, <1>4, <1>6 DEF Types

\* A check step that leaves the table alone.
LEMMA RestOfTypes ==
  ASSUME Types, alerts' = alerts, CheckTypes', ActTypes', Tables', req' = req
  PROVE  Types'
<1>1. OldRows /\ Ids' = Ids
  BY SameTable, RowsStay DEF Types, Tables
<1> QED BY <1>1, RowAppsKept, RequestTypesKept DEF Types

LEMMA TypesAfterControl ==
  ASSUME Types,
         \/ BeginCheck \/ EndCheck \/ Crash
         \/ \E r \in Rules : NextRule(r)
         \/ InitLogPatternsEnd \/ ResolveLoopEnds \/ Enqueue
         \/ \E a \in chk.queue : ResolveNext(a)
  PROVE  Types'
<1> USE DEF Types
<1>0. alerts' = alerts /\ req' = req /\ Ids' = Ids /\ chk \in Locals
  BY DEF BeginCheck, EndCheck, Crash, NextRule, InitLogPatternsEnd, ResolveLoopEnds, Enqueue,
         ResolveNext, Ids, CheckTypes
<1>1. ASSUME chk' \in Locals, chk'.listed = {}, chk'.queue = {}, chk'.act = NoAct,
             chk'.pc \in {"idle", "rules"}
      PROVE  CheckTypes' /\ ActTypes'
  <2>1. NoAct.op = "none"
    BY DEF NoAct
  <2> QED BY <1>1, <2>1 DEF CheckTypes, ActTypes, Inserting, Evaluating
<1>2. CASE BeginCheck
  <2>1. CheckTypes' /\ ActTypes'
    BY <1>1, <1>2, BeginDoes
  <2>2. Tables'
    BY <1>0, <1>2 DEF BeginCheck, Tables, world, history, counters
  <2> QED BY <1>0, <2>1, <2>2, RestOfTypes
<1>3. CASE EndCheck
  <2>1. CheckTypes' /\ ActTypes'
    BY <1>1, <1>3, IdleFacts DEF EndCheck
  <2>2. pending' \in [Fingerprints -> Ages \cup {None}]
    BY <1>3 DEF EndCheck, Tables
  <2>3. Tables'
    BY <1>0, <1>3, <2>2 DEF EndCheck, Tables, world, history, counters
  <2> QED BY <1>0, <2>1, <2>3, RestOfTypes
<1>4. CASE Crash
  <2>1. CheckTypes' /\ ActTypes'
    BY <1>1, <1>4, IdleFacts DEF Crash
  <2>2. pending' \in [Fingerprints -> Ages \cup {None}] /\ faults' \in 0..MaxFaults
    BY <1>4, AlertsAssumption DEF Crash, Tables
  <2>3. Tables'
    BY <1>0, <1>4, <2>2 DEF Crash, Tables, world, history
  <2> QED BY <1>0, <2>1, <2>3, RestOfTypes
<1>5. ASSUME NEW r \in Rules, NextRule(r)
      PROVE  Types'
  <2>1. NextRuleOutcome(r)
    BY <1>0, <1>5, NextRuleDoes
  <2>2. CheckTypes'
    BY <1>0, <2>1 DEF CheckTypes, NextRuleOutcome, SameSnapshot, Evaluating
  <2>3. ActTypes'
    BY <1>0, <2>1 DEF ActTypes, NextRuleOutcome, SameSnapshot, Evaluating, Inserting
  <2>4. Tables'
    BY <1>0, <1>5 DEF NextRule, Tables, world, history, counters
  <2> QED BY <1>0, <2>2, <2>3, <2>4, RestOfTypes
<1>6. ASSUME NEW p \in {"nonmatching", "rules"}, Goes(p), chk.pc \in {"init", "queue"},
             Tables', initialized' = initialized
      PROVE  Types'
  <2>1. CheckTypes'
    BY <1>0, <1>6 DEF CheckTypes, Goes, SameRule, SameSnapshot, Evaluating
  <2>2. ActTypes'
    BY <1>0, <1>6 DEF ActTypes, Goes, SameRule, SameSnapshot, Evaluating, Inserting
  <2> QED BY <1>0, <1>6, <2>1, <2>2, RestOfTypes
<1>7. CASE InitLogPatternsEnd
  <2>1. Goes("nonmatching") /\ chk.pc = "init" /\ initialized' = initialized
    BY <1>0, <1>7, InitEndDoes DEF InitLogPatternsEnd
  <2>2. Tables'
    BY <1>0, <1>7 DEF InitLogPatternsEnd, Tables, world, history, counters
  <2>3. PICK p : p = "nonmatching"
    OBVIOUS
  <2> QED BY <1>6, <2>1, <2>2, <2>3
<1>8. CASE ResolveLoopEnds
  <2>1. PICK p \in {"nonmatching", "rules"} : Goes(p)
    BY <1>0, <1>8, LoopEndDoes
  <2>2. Tables' /\ initialized' = initialized /\ chk.pc = "queue"
    BY <1>0, <1>8 DEF ResolveLoopEnds, Tables, world, history, counters
  <2> QED BY <1>6, <2>1, <2>2
<1>9. CASE Enqueue
  <2>1. Goes(Loop) /\ chk.pc = "enqueue" /\ initialized' = initialized
    BY <1>0, <1>9, EnqueueDoes DEF Enqueue
  <2>2. CheckTypes'
    BY <1>0, <2>1 DEF CheckTypes, Goes, SameRule, SameSnapshot, Evaluating, Loop
  <2>3. ActTypes'
    BY <1>0, <2>1 DEF ActTypes, Goes, SameRule, SameSnapshot, Evaluating, Inserting, Loop
  <2>4. opened' \subseteq Ids /\ resolved' \subseteq Ids
    BY <1>9 DEF Enqueue, ActTypes, Tables
  <2>5. Tables'
    BY <1>0, <1>9, <2>4 DEF Enqueue, Tables, world, history, counters
  <2> QED BY <1>0, <2>2, <2>3, <2>5, RestOfTypes
<1>10. ASSUME NEW a \in chk.queue, ResolveNext(a)
       PROVE  Types'
  <2>1. NextOutcome(a) /\ initialized' = initialized
    BY <1>0, <1>10, ResolveNextDoes DEF ResolveNext
  <2>2. CheckTypes'
    BY <1>0, <2>1 DEF CheckTypes, NextOutcome, SameRule, SameSnapshot, Evaluating
  <2>3. ActTypes'
    BY <1>0, <2>1 DEF ActTypes, CheckTypes, NextOutcome, SameRule, SameSnapshot, Evaluating, Inserting
  <2>4. Tables'
    BY <1>0, <1>10 DEF ResolveNext, Tables, world, history, counters
  <2> QED BY <1>0, <2>2, <2>3, <2>4, RestOfTypes
<1> QED BY <1>2, <1>3, <1>4, <1>5, <1>7, <1>8, <1>9, <1>10

LEMMA TypesAfterList ==
  ASSUME Types, ListRule
  PROVE  Types'
<1> USE DEF Types
<1>0. /\ alerts' = alerts /\ req' = req /\ Ids' = Ids /\ chk \in Locals
      /\ initialized' = initialized /\ alerts \in Seq(Row)
      /\ chk.pc = "list" /\ chk.rule \in Rules
  BY DEF ListRule, Ids, CheckTypes, Tables
<1>1. ListOutcome
  BY <1>0, ListDoes
<1>2. chk'.work \subseteq Evaluated(chk.rule) /\ \A fp \in chk'.work : RuleOf[fp] = chk.rule
  BY <1>0, <1>1, EvaluatedFacts DEF ListOutcome
<1>3. \A l \in chk'.listed : l.id \in Ids /\ l.row = alerts[l.id] /\ RuleOf[alerts[l.id].fp] = chk.rule
  BY <1>0, <1>1, ListingFacts DEF ListOutcome
<1>4. CheckTypes'
  BY <1>0, <1>1, <1>2, <1>3 DEF CheckTypes, ListOutcome, SameRule, Evaluating
<1>5. ActTypes'
  BY <1>0, <1>1 DEF ActTypes, ListOutcome, SameRule, Evaluating, Inserting
<1>6. streak' \in [Fingerprints -> Ages \cup {None}] /\ quiet' \subseteq Fingerprints
      /\ reopened' = reopened /\ cleared' = cleared /\ unheard' = unheard
  <2>1. \A fp \in Fingerprints : 0 \in Ages
    BY AgeFacts
  <2>2. \A S : Seen(S) \in [Fingerprints -> Ages \cup {None}]
    BY <2>1 DEF Seen, Tables
  <2> QED BY <2>2 DEF ListRule, Observe, Tables
<1>7. Tables'
  BY <1>0, <1>6 DEF ListRule, Tables, world, counters
<1> QED BY <1>0, <1>4, <1>5, <1>7, RestOfTypes

\* What a decision is about to write.
LEMMA DecidesFacts ==
  ASSUME alerts \in Seq(Row), NEW fp \in Fingerprints, NEW a, Decides(fp, a)
  PROVE  /\ a.op \in {"none", "create", "update", "resolve", "clear"}
         /\ a.op = "create" => a = Create(fp, TRUE) /\ MayOpen(fp) /\ a.fp = fp /\ a.notify = TRUE
         /\ a.op = "update" =>
              /\ a.id \in Ids /\ a.fp = None /\ a.notify = FALSE
              /\ RuleOf[alerts[a.id].fp] = chk.rule
              /\ Capped(chk.rule) => \E l \in chk.listed : l.id = a.id
         /\ a.op = "resolve" =>
              a.id \in Ids /\ a.fp = None /\ a.notify = TRUE /\ RuleType[chk.rule] = "check"
         /\ a.op = "clear" => a.fp = fp /\ a.notify = FALSE /\ RuleType[chk.rule] = "check"
<1>1. CASE a = NoAct
  BY <1>1 DEF NoAct
<1>2. CASE a = Create(fp, TRUE) /\ MayOpen(fp)
  BY <1>2 DEF Create
<1>3. CASE \E i \in Ids : /\ a = Update(i) /\ RuleOf[alerts[i].fp] = chk.rule
                          /\ Capped(chk.rule) => \E l \in chk.listed : l.id = i
  BY <1>3 DEF Update
<1>4. CASE \E i \in Ids : a = Resolve(i, TRUE) /\ RuleType[chk.rule] = "check"
  BY <1>4 DEF Resolve
<1>5. CASE a = Clear(fp) /\ RuleType[chk.rule] = "check"
  BY <1>5 DEF Clear
<1> QED BY <1>1, <1>2, <1>3, <1>4, <1>5 DEF Decides

LEMMA TypesAfterEvaluate ==
  ASSUME Types, NEW fp \in Fingerprints, Evaluate(fp)
  PROVE  Types'
<1> USE DEF Types
<1>0. /\ alerts' = alerts /\ req' = req /\ Ids' = Ids /\ chk \in Locals
      /\ initialized' = initialized /\ alerts \in Seq(Row)
      /\ chk.pc = "eval" /\ chk.rule \in Rules /\ fp \in chk.work /\ RuleOf[fp] = chk.rule
      /\ chk.phase = "eval"
  BY DEF Evaluate, Ids, CheckTypes, Tables
<1>1. EvaluateOutcome(fp)
  BY <1>0, EvaluateDoes
<1>2. Decides(fp, chk'.act)
  BY <1>1 DEF EvaluateOutcome
<1>3. PICK a : a = chk'.act
  OBVIOUS
<1>4. /\ a.op = "create" => a.fp = fp /\ a.notify = TRUE
      /\ a.op = "update" =>
              /\ a.id \in Ids /\ a.fp = None /\ a.notify = FALSE
              /\ RuleOf[alerts[a.id].fp] = chk.rule
              /\ Capped(chk.rule) => \E l \in chk.listed : l.id = a.id
      /\ a.op = "resolve" =>
              a.id \in Ids /\ a.fp = None /\ a.notify = TRUE /\ RuleType[chk.rule] = "check"
      /\ a.op = "clear" => a.fp = fp /\ a.notify = FALSE /\ RuleType[chk.rule] = "check"
  BY <1>0, <1>2, <1>3, DecidesFacts
<1>5. CheckTypes'
  BY <1>0, <1>1 DEF CheckTypes, EvaluateOutcome, SameRule, Evaluating
<1>6. chk.work \cap chk.made = {}
  BY <1>0 DEF ActTypes, Evaluating
<1>7. ActTypes'
  BY <1>0, <1>1, <1>3, <1>4, <1>6 DEF ActTypes, EvaluateOutcome, SameRule, Evaluating, Inserting
<1>8. pending' \in [Fingerprints -> Ages \cup {None}]
  <2>1. 0 \in Ages
    BY AgeFacts
  <2>2. pending' = pending \/ \E x \in Ages \cup {None} : pending' = [pending EXCEPT ![fp] = x]
    BY <2>1 DEF Evaluate, EvaluateCheckAlert, EvaluatePromQLAlert, EvaluateLogPatternAlert,
                EvaluateKubernetesEventsAlert, OpenOrWait
  <2> QED BY <2>2 DEF Tables
<1>9. streak' \in [Fingerprints -> Ages \cup {None}] /\ cleared' \subseteq Fingerprints
  <2>1. 0 \in Ages
    BY AgeFacts
  <2>2. \A S : Seen(S) \in [Fingerprints -> Ages \cup {None}]
    BY <2>1 DEF Seen, Tables
  <2> QED BY <2>2 DEF Evaluate, Tables
<1>10. Tables'
  BY <1>0, <1>8, <1>9 DEF Evaluate, Tables, world, counters
<1> QED BY <1>0, <1>5, <1>7, <1>10, RestOfTypes

LEMMA TypesAfterLoops ==
  ASSUME Types, EvaluationEnds \/ ListNonMatching
  PROVE  Types'
<1> USE DEF Types
<1>0. /\ alerts' = alerts /\ req' = req /\ Ids' = Ids /\ chk \in Locals
      /\ initialized' = initialized /\ alerts \in Seq(Row) /\ chk.rule \in Rules
  BY DEF EvaluationEnds, ListNonMatching, Ids, CheckTypes, Tables
<1>1. CASE EvaluationEnds
  <2>1. EndsOutcome
    BY <1>0, <1>1, EndsDoes
  <2>2. \A l \in StaleRead : l.id \in Ids
    BY <1>0, StaleReadFacts
  <2>3. \A a \in chk'.queue : a.op = "resolve" /\ a.id \in Ids /\ a.fp = None
    BY <2>1, <2>2 DEF EndsOutcome, Resolve
  <2>4. CheckTypes'
    BY <1>0, <2>1 DEF CheckTypes, EndsOutcome, SameRule, SameSnapshot, Evaluating
  <2>5. ActTypes'
    BY <1>0, <2>1, <2>3 DEF ActTypes, EndsOutcome, SameRule, SameSnapshot, Evaluating, Inserting
  <2>6. pending' \in [Fingerprints -> Ages \cup {None}]
    BY <1>1 DEF EvaluationEnds, Tables
  <2>7. Tables'
    BY <1>0, <1>1, <2>6 DEF EvaluationEnds, Tables, world, history, counters
  <2> QED BY <1>0, <2>4, <2>5, <2>7, RestOfTypes
<1>2. CASE ListNonMatching
  <2>1. NonMatchingOutcome
    BY <1>0, <1>2, NonMatchingDoes
  <2>2. \A a \in chk'.queue : a.op = "resolve" /\ a.id \in Ids /\ a.fp = None
    BY <2>1 DEF NonMatchingOutcome, Resolve
  <2>3. CheckTypes'
    BY <1>0, <2>1 DEF CheckTypes, NonMatchingOutcome, SameRule, SameSnapshot, Evaluating
  <2>4. ActTypes'
    BY <1>0, <2>1, <2>2 DEF ActTypes, NonMatchingOutcome, SameRule, SameSnapshot, Evaluating, Inserting
  <2>5. Tables'
    BY <1>0, <1>2 DEF ListNonMatching, Tables, world, history, counters
  <2> QED BY <1>0, <2>3, <2>4, <2>5, RestOfTypes
<1> QED BY <1>1, <1>2

LEMMA TypesAfterFailure ==
  ASSUME Types, StatementFails
  PROVE  Types'
<1> USE DEF Types
<1>0. /\ alerts' = alerts /\ req' = req /\ Ids' = Ids /\ chk \in Locals
      /\ initialized' = initialized /\ alerts \in Seq(Row)
  BY DEF StatementFails, Ids, CheckTypes, Tables
<1>1. FailOutcome
  BY <1>0, FailDoes
<1>2. chk.pc = "list" => \A l \in Listing(chk.rule) :
         l.id \in Ids /\ l.row = alerts[l.id] /\ RuleOf[alerts[l.id].fp] = chk.rule
  BY <1>0, ListingFacts DEF CheckTypes
<1>3. CheckTypes'
  BY <1>0, <1>1, <1>2 DEF CheckTypes, FailOutcome, Goes, SameRule, SameSnapshot, Evaluating, Loop
<1>4. ActTypes'
  BY <1>0, <1>1 DEF ActTypes, CheckTypes, FailOutcome, Goes, SameRule, SameSnapshot, Evaluating,
                    Inserting, Loop
<1>5. faults' \in 0..MaxFaults
  BY AlertsAssumption DEF StatementFails, Tables
<1>6. Tables'
  BY <1>0, <1>5 DEF StatementFails, Tables, world, history
<1> QED BY <1>0, <1>3, <1>4, <1>6, RestOfTypes

LEMMA TypesAfterInit ==
  ASSUME Types, NEW fp \in Fingerprints, InitLogPattern(fp)
  PROVE  Types'
<1> USE DEF Types
<1>0. req' = req /\ chk \in Locals /\ initialized' = initialized /\ alerts \in Seq(Row)
  BY DEF InitLogPattern, CheckTypes, Tables
<1>1. InitOutcome(fp)
  BY <1>0, InitDoes
<1>2. Grown(NewRow(fp, TRUE))
  BY <1>0, InitRows
<1>3. OldRows
  BY <1>2, RowsStay
<1>4. RowApps' /\ RequestTypes'
  BY <1>0, <1>2, <1>3, RowAppsGrown, RequestTypesKept
<1>5. CheckTypes'
  BY <1>0, <1>1, <1>3 DEF CheckTypes, InitOutcome, SameRule, Evaluating, OldRows
<1>6. ActTypes'
  BY <1>0, <1>1, <1>3 DEF ActTypes, InitOutcome, SameRule, Evaluating, Inserting, OldRows
<1>7. Tables'
  BY <1>3 DEF InitLogPattern, Tables, OldRows, world, history, counters
<1> QED BY <1>4, <1>5, <1>6, <1>7

LEMMA TypesAfterWrite ==
  ASSUME Types, Write \/ WriteUnheard
  PROVE  Types'
<1> USE DEF Types
<1>0. /\ req' = req /\ chk \in Locals /\ initialized' = initialized /\ alerts \in Seq(Row)
      /\ chk.act.op \in {"create", "update", "resolve", "clear"} /\ chk.pc = "write"
      /\ chk.act \in Acts /\ Stores
  BY DEF Write, WriteUnheard, Stores, CheckTypes, Tables, ActTypes, Acts, Locals
<1>1. WriteOutcome \/ UnheardOutcome
  BY <1>0, WriteDoes, UnheardDoes
<1>2. OldRows /\ (chk.act.op # "create" => Ids' = Ids)
      /\ (chk.act.op = "create" => Ids' = Ids \cup {Len(alerts) + 1})
  BY <1>0, WriteRows, RowsStay DEF ActTypes, Grown
<1>3. RowApps'
  <2>1. CASE chk.act.op = "create"
    <3>1. chk.act.fp \in Fingerprints
      BY <1>0, <2>1 DEF ActTypes, Inserting, Locals
    <3> QED BY <1>0, <2>1, <3>1, WriteRows, RowAppsGrown
  <2>2. CASE chk.act.op # "create"
    BY <1>2, <2>2, RowAppsKept
  <2> QED BY <2>1, <2>2
<1>4. RequestTypes'
  BY <1>0, <1>2, RequestTypesKept
<1>5. CheckTypes'
  <2>1. CASE WriteOutcome
    BY <1>0, <1>2, <2>1 DEF CheckTypes, WriteOutcome, SameRule, SameSnapshot, Evaluating, OldRows, Loop
  <2>2. CASE UnheardOutcome
    BY <1>0, <1>2, <2>2 DEF CheckTypes, UnheardOutcome, SameRule, Evaluating, OldRows, Loop
  <2> QED BY <1>1, <2>1, <2>2
<1>6. ActTypes'
  <2>1. CASE WriteOutcome
    BY <1>0, <1>2, <2>1 DEF ActTypes, CheckTypes, WriteOutcome, SameRule, SameSnapshot, Evaluating,
                            Inserting, OldRows, Loop
  <2>2. CASE UnheardOutcome
    BY <1>0, <1>2, <2>2 DEF ActTypes, CheckTypes, UnheardOutcome, SameRule, Evaluating,
                            Inserting, OldRows, Loop
  <2> QED BY <1>1, <2>1, <2>2
<1>7. quiet' \subseteq Fingerprints
  BY <1>0 DEF Stores, Tables
<1>8. unheard' \subseteq Ids' /\ faults' \in 0..MaxFaults
  BY <1>2, AlertsAssumption DEF Write, WriteUnheard, Tables, OldRows
<1>9. Tables'
  BY <1>0, <1>2, <1>7, <1>8 DEF Stores, Tables, OldRows, world
<1> QED BY <1>3, <1>4, <1>5, <1>6, <1>9

LEMMA TypesHold ==
  Spec => []Types
<1>1. Init => Types
  <2> SUFFICES ASSUME Init PROVE Types
    OBVIOUS
  <2>1. alerts = <<>> /\ chk = Idle /\ req = NoRequest
    BY DEF Init
  <2>2. alerts \in Seq(Row) /\ Len(alerts) = 0 /\ Ids = {}
    BY <2>1 DEF Ids
  <2>3. Tables
    <3>1. \A S \in RuleSets : [r \in Rules |-> IF r \in S THEN "enabled" ELSE "never"]
                                 \in [Rules -> {"never", "enabled", "disabled", "deleted"}]
      OBVIOUS
    <3>2. 0 \in 0..MaxChanges /\ 0 \in 0..MaxFaults
      BY AlertsAssumption
    <3> QED BY <2>2, <3>1, <3>2 DEF Init, Tables
  <2>4. CheckTypes /\ ActTypes
    <3>1. NoAct.op = "none"
      BY DEF NoAct
    <3> QED BY <2>1, <3>1, IdleFacts DEF CheckTypes, ActTypes, Inserting, Evaluating
  <2>5. RequestTypes
    BY <2>1 DEF RequestTypes, NoRequest, Requests
  <2>6. RowApps
    BY <2>2 DEF RowApps
  <2> QED BY <2>3, <2>4, <2>5, <2>6 DEF Types
<1>2. Types /\ [Next]_vars => Types'
  <2> SUFFICES ASSUME Types, [Next]_vars PROVE Types'
    OBVIOUS
  <2> QED BY TypesAfterWorld, TypesAfterTick, TypesAfterRequest, TypesAfterReopen,
             TypesAfterUpdateRows, TypesAfterControl, TypesAfterList, TypesAfterEvaluate,
             TypesAfterLoops, TypesAfterFailure, TypesAfterInit, TypesAfterWrite
          DEF Next, CheckStep, RequestStep, NewRequest
<1> QED BY <1>1, <1>2, PTL DEF Spec

\* Every reachable state has the types of the tables, of the locals of Check
\* and of a request, whatever steps of the three interleave.
THEOREM AlertsTypeCorrect == Spec => []TypeOK
<1>1. Types => TypeOK
  <2> SUFFICES ASSUME Types PROVE TypeOK
    OBVIOUS
  <2> USE DEF Types
  <2>1. Tables
    OBVIOUS
  <2>2. /\ chk.pc \in Pcs /\ chk.phase \in {"eval", "stale", "nonmatching"}
        /\ chk.rule \in Rules \cup {None} /\ chk.work \subseteq Fingerprints
        /\ chk.queue \subseteq Acts /\ chk.act \in Acts
    BY DEF CheckTypes, Locals
  <2>3. \A a \in chk.queue \cup {chk.act} : a.op \in {"update", "resolve"} => a.id \in Ids
    BY DEF ActTypes
  <2>4. req.pc \in {"idle", "update", "enqueue", "delete"}
        /\ (req.op \in {"resolve", "suppress"} => req.id \in Ids)
    BY DEF RequestTypes, Requests
  <2> QED BY <2>1, <2>2, <2>3, <2>4 DEF TypeOK, Tables, Pcs
<1> QED BY <1>1, TypesHold, PTL

-----------------------------------------------------------------------------
(* Every active alert was announced *)

LEMMA AnnouncedKept ==
  ASSUME Announced, OldRows, Ids' = Ids, faults' = 0 => faults = 0,
         opened \subseteq opened', reopened \subseteq reopened',
         \A i \in Ids : Creating(i) => Creating(i)' \/ i \in opened',
         \A i \in Ids : alerts[i].manual \/ alerts[i].suppressed
            => \/ alerts'[i].manual \/ alerts'[i].suppressed \/ i \in reopened'
               \/ RuleType[RuleOf[alerts[i].fp]] # "log"
  PROVE  Announced'
BY DEF Announced, OldRows

\* A row that was added is announced or need not be.
LEMMA AnnouncedGrown ==
  ASSUME Announced, NEW row, Grown(row), faults' = 0 => faults = 0,
         opened \subseteq opened', reopened \subseteq reopened', \A i \in Ids : ~Creating(i),
         NEW n, n = Len(alerts) + 1,
         Creating(n)' \/ (row.manual /\ RuleType[RuleOf[row.fp]] = "log")
  PROVE  Announced'
<1>1. Ids' = Ids \cup {n} /\ alerts'[n] = row /\ \A i \in Ids : alerts'[i] = alerts[i]
  BY DEF Grown
<1> QED BY <1>1 DEF Announced

LEMMA AnnouncedStep ==
  ASSUME Types, Announced, [Next]_vars
  PROVE  Announced'
<1> USE DEF Types
<1>0. alerts \in Seq(Row) /\ chk \in Locals /\ CheckTypes /\ Tables
  BY DEF Tables, CheckTypes
<1>1. ASSUME RowsKept, faults' = 0 => faults = 0, opened \subseteq opened', reopened \subseteq reopened',
             \A i \in Ids : Creating(i) => Creating(i)' \/ i \in opened'
      PROVE  Announced'
  <2>1. OldRows /\ Ids' = Ids
    BY <1>1, RowsStay
  <2>2. \A i \in Ids : alerts[i].manual \/ alerts[i].suppressed
            => alerts'[i].manual \/ alerts'[i].suppressed
    BY <1>1 DEF RowsKept, SameRow
  <2> QED BY <1>1, <2>1, <2>2, AnnouncedKept
<1>2. ASSUME alerts' = alerts, chk' = chk, opened' = opened, reopened' = reopened,
             faults' = 0 => faults = 0
      PROVE  Announced'
  BY <1>0, <1>1, <1>2, SameTable DEF Creating
<1>3. ASSUME alerts' = alerts, opened' = opened, reopened' = reopened, faults' = faults,
             chk.pc # "enqueue"
      PROVE  Announced'
  BY <1>0, <1>1, <1>3, SameTable DEF Creating
<1>4. ASSUME faults' # 0 PROVE Announced'
  BY <1>4 DEF Announced
<1>5. CASE UNCHANGED vars
  BY <1>2, <1>5 DEF vars, history, counters
<1>6. CASE WorldChanges
  BY <1>2, <1>6 DEF WorldChanges, history
<1>7. CASE Tick
  BY <1>0, <1>1, <1>7, TickRows DEF Tick, Creating, counters
<1>8. CASE BeginCheck \/ EndCheck
  BY <1>3, <1>8 DEF BeginCheck, EndCheck, history, counters
<1>9. CASE \E r \in Rules : NextRule(r)
  BY <1>3, <1>9 DEF NextRule, history, counters
<1>10. CASE ListRule
  BY <1>3, <1>10 DEF ListRule, Observe, history, counters
<1>11. CASE \E fp \in Fingerprints : Evaluate(fp)
  BY <1>3, <1>11 DEF Evaluate, history, counters
<1>12. CASE InitLogPatternsEnd \/ EvaluationEnds \/ ListNonMatching \/ ResolveLoopEnds
  BY <1>3, <1>12 DEF InitLogPatternsEnd, EvaluationEnds, ListNonMatching, ResolveLoopEnds,
                     history, counters
<1>13. CASE \E a \in chk.queue : ResolveNext(a)
  BY <1>3, <1>13 DEF ResolveNext, history, counters
<1>14. CASE Enqueue
  <2>1. alerts' = alerts /\ reopened' = reopened /\ faults' = faults
    BY <1>14 DEF Enqueue, history, counters
  <2>2. opened \subseteq opened' /\ \A i \in Ids : Creating(i) => i \in opened'
    BY <1>14 DEF Enqueue, Creating
  <2> QED BY <1>0, <1>1, <2>1, <2>2, SameTable
<1>15. CASE StatementFails \/ WriteUnheard \/ Crash \/ RequestFails
  <2>1. faults' = faults + 1 /\ faults \in Nat
    BY <1>0, <1>15 DEF StatementFails, WriteUnheard, Crash, RequestFails, Tables
  <2> QED BY <1>4, <2>1
<1>16. ASSUME NEW fp \in Fingerprints, InitLogPattern(fp)
       PROVE  Announced'
  <2>1. Grown(NewRow(fp, TRUE))
    BY <1>0, <1>16, InitRows
  <2>2. chk.pc = "init" /\ RuleType[RuleOf[fp]] = "log" /\ opened' = opened /\ reopened' = reopened
        /\ faults' = faults
    BY <1>16 DEF InitLogPattern, CheckTypes, history, counters
  <2>3. NewRow(fp, TRUE).manual /\ NewRow(fp, TRUE).fp = fp
    BY DEF NewRow
  <2>4. \A i \in Ids : ~Creating(i)
    BY <2>2 DEF Creating
  <2> QED BY <2>1, <2>2, <2>3, <2>4, AnnouncedGrown
<1>17. CASE Write
  <2>1. opened' = opened /\ reopened' = reopened /\ faults' = faults /\ chk.pc = "write" /\ Stores
    BY <1>17 DEF Write, Stores
  <2>2. \A i \in Ids : ~Creating(i)
    BY <2>1 DEF Creating
  <2>3. chk.act.op \in {"create", "update", "resolve", "clear"}
    BY <2>1 DEF ActTypes, CheckTypes, Locals, Acts
  <2>4. CASE chk.act.op = "create"
    <3>1. Grown(NewRow(chk.act.fp, FALSE))
      BY <1>0, <2>1, <2>4, WriteRows
    <3>2. PICK n : n = Len(alerts) + 1
      OBVIOUS
    <3>3. Creating(n)'
      BY <3>2, <1>0, <1>17, <2>1, <2>4, WriteDoes DEF WriteOutcome, Creating, ActTypes, Inserting
    <3> QED BY <2>1, <2>2, <3>1, <3>2, <3>3, AnnouncedGrown
  <2>5. CASE chk.act.op \in {"update", "resolve"}
    <3>1. \E res : Rewritten(chk.act.id, res, alerts[chk.act.id].manual, alerts[chk.act.id].suppressed)
      BY <1>0, <2>1, <2>5, WriteRows
    <3>2. chk.act.id \in Ids
      BY <2>5 DEF ActTypes
    <3>3. OldRows /\ Ids' = Ids
      BY <3>1, <3>2, RowsStay
    <3>4. \A i \in Ids : alerts[i].manual \/ alerts[i].suppressed
            => alerts'[i].manual \/ alerts'[i].suppressed
      BY <3>1, <3>2 DEF Rewritten, SameRow
    <3> QED BY <2>1, <2>2, <3>3, <3>4, AnnouncedKept
  <2>6. CASE chk.act.op = "clear"
    <3>1. SuppressionCleared(chk.act.fp)
      BY <1>0, <2>1, <2>6, WriteRows
    <3>2. RuleType[RuleOf[chk.act.fp]] # "log"
      BY <2>1, <2>6 DEF ActTypes
    <3>3. OldRows /\ Ids' = Ids
      BY <3>1, RowsStay
    <3>4. \A i \in Ids : alerts[i].manual \/ alerts[i].suppressed
            => \/ alerts'[i].manual \/ alerts'[i].suppressed
               \/ RuleType[RuleOf[alerts[i].fp]] # "log"
      BY <3>1, <3>2 DEF SuppressionCleared
    <3> QED BY <2>1, <2>2, <3>3, <3>4, AnnouncedKept
  <2> QED BY <2>3, <2>4, <2>5, <2>6
<1>18. CASE \/ \E i \in Ids : ReadAlert("resolve", i) \/ ReadAlert("suppress", i)
            \/ \E r \in Rules : ReadRule(r) \/ UpdateAlertingRule(r)
            \/ EnqueueResolvedAlerts \/ DeleteAlertingRule
  BY <1>2, <1>18 DEF ReadAlert, ReadRule, UpdateAlertingRule, EnqueueResolvedAlerts,
                     DeleteAlertingRule, history, counters
<1>19. ASSUME NEW i \in Ids, ReopenAlerts(i)
       PROVE  Announced'
  <2>1. Rewritten(i, alerts[i].resolved, FALSE, FALSE)
    BY <1>0, <1>19, ReopenRows
  <2>2. OldRows /\ Ids' = Ids
    BY <2>1, RowsStay
  <2>3. opened' = opened /\ reopened' = reopened \cup {i} /\ chk' = chk /\ faults' = faults
    BY <1>19 DEF ReopenAlerts
  <2>4. \A k \in Ids : alerts[k].manual \/ alerts[k].suppressed
            => alerts'[k].manual \/ alerts'[k].suppressed \/ k \in reopened'
    BY <2>1, <2>3 DEF Rewritten, SameRow
  <2>5. \A k \in Ids : Creating(k) => Creating(k)'
    BY <2>3 DEF Creating
  <2> QED BY <2>2, <2>3, <2>4, <2>5, AnnouncedKept
<1>20. CASE UpdateRows
  <2>1. opened' = opened /\ reopened' = reopened /\ chk' = chk /\ faults' = faults
    BY <1>20 DEF UpdateRows, counters
  <2>2. req.op \in {"resolve", "suppress", "delete"} /\ (req.op # "delete" => req.id \in Ids)
    BY <1>20 DEF UpdateRows, RequestTypes, Requests
  <2>3. OldRows /\ Ids' = Ids
    BY <1>0, <1>20, <2>2, RequestRows, RowsStay
  <2>4. \A k \in Ids : alerts[k].manual \/ alerts[k].suppressed
            => alerts'[k].manual \/ alerts'[k].suppressed
    BY <1>0, <1>20, <2>2, RequestRows DEF RowsKept, Rewritten, ResolvedByRule, SameRow
  <2>5. \A k \in Ids : Creating(k) => Creating(k)'
    BY <2>1 DEF Creating
  <2> QED BY <2>1, <2>3, <2>4, <2>5, AnnouncedKept
<1> QED BY <1>5, <1>6, <1>7, <1>8, <1>9, <1>10, <1>11, <1>12, <1>13, <1>14, <1>15, <1>16, <1>17,
           <1>18, <1>19, <1>20 DEF Next, CheckStep, RequestStep, NewRequest

\* Without faults every active alert was announced between checks, whatever
\* users do to rows while CreateAlert and Enqueue run.
THEOREM FiringAnnouncedSafety == Spec => []FiringAnnounced
<1>1. Init => Announced
  <2> SUFFICES ASSUME Init PROVE Announced
    OBVIOUS
  <2>1. Ids = {}
    BY DEF Init, Ids
  <2> QED BY <2>1 DEF Announced
<1>2. Types /\ Announced /\ [Next]_vars => Announced'
  BY AnnouncedStep
<1>3. Announced => FiringAnnounced
  BY DEF Announced, FiringAnnounced, Creating, Firing
<1> QED BY <1>1, <1>2, <1>3, TypesHold, PTL DEF Spec

-----------------------------------------------------------------------------
(* Every end was announced *)

\* Steps of the watcher do not open a row again, nor does one of a request undo
\* the announcement of an end.
LEMMA EndedStays ==
  ASSUME Types, NEW i \in Ids, OldRows, Ended(i),
         \A r \in Rules : Stored(r)' => Stored(r),
         resolved \subseteq resolved',
         chk.pc = "enqueue" /\ chk.act.op = "resolve" /\ chk.act.id = i
            => i \in resolved' \/ (chk'.pc = chk.pc /\ chk'.act = chk.act),
         req' = req \/ req.pc \in {"idle", "update"}
  PROVE  Ended(i)'
<1>1. RuleOf[alerts[i].fp] \in Rules /\ alerts'[i].fp = alerts[i].fp
  BY TableFacts, AlertsAssumption DEF Types, Tables, OldRows
<1>2. req.op = "delete" /\ req.pc \in {"enqueue", "delete"} => req' = req
  OBVIOUS
<1> QED BY <1>1, <1>2 DEF Ended, Types, RequestTypes

\* The step of the request that announces, and the one that deletes a rule.
LEMMA EndedAfterRequest ==
  ASSUME Types, NEW i \in Ids, Ended(i), EnqueueResolvedAlerts \/ DeleteAlertingRule
  PROVE  Ended(i)'
<1>1. RuleOf[alerts[i].fp] \in Rules /\ alerts' = alerts /\ chk' = chk
  BY TableFacts, AlertsAssumption DEF Types, Tables, EnqueueResolvedAlerts, DeleteAlertingRule
<1>2. CASE EnqueueResolvedAlerts
  <2>1. rules' = rules /\ resolved \subseteq resolved' /\ req.pc = "enqueue"
    BY <1>2 DEF EnqueueResolvedAlerts
  <2>2. ASSUME i \in req.notify, req.rule = RuleOf[alerts[i].fp] PROVE Ended(i)'
    BY <1>1, <1>2, <2>1, <2>2 DEF EnqueueResolvedAlerts, Ended, Stored
  <2>3. ASSUME req.op = "delete", req.rule = RuleOf[alerts[i].fp] PROVE Ended(i)'
    <3>1. req'.op = "delete" /\ req'.pc = "delete" /\ req'.rule = req.rule
      BY <1>2, <2>3 DEF EnqueueResolvedAlerts, Types, RequestTypes, Requests
    <3> QED BY <1>1, <2>3, <3>1 DEF Ended
  <2> QED BY <1>1, <2>1, <2>2, <2>3 DEF Ended, Stored
<1>3. CASE DeleteAlertingRule
  <2>1. req.pc = "delete" /\ req.op = "delete" /\ "delete" \in Operations /\ resolved' = resolved
    BY <1>3 DEF DeleteAlertingRule, Types, RequestTypes
  <2>2. ASSUME req.rule = RuleOf[alerts[i].fp] PROVE Ended(i)'
    BY <1>1, <1>3, <2>1, <2>2 DEF DeleteAlertingRule, Ended, Stored, Types, Tables
  <2>3. ASSUME NEW r \in Rules, ~Stored(r) PROVE ~Stored(r)'
    BY <1>3, <2>3 DEF DeleteAlertingRule, Stored, Types, Tables
  <2> QED BY <1>1, <2>1, <2>2, <2>3 DEF Ended
<1> QED BY <1>2, <1>3

LEMMA OpenedStays ==
  ASSUME NEW i \in Ids, Opened(i)',
         opened' = opened \/ (chk.pc = "enqueue" /\ chk.act.op = "create"
                              /\ opened' = opened \cup {chk.act.id}),
         \/ chk' = chk \/ chk'.pc # "enqueue" \/ chk'.act.op # "create"
         \/ chk'.act.id \notin Ids
  PROVE  Opened(i)
BY DEF Opened, Creating

LEMMA EndsKept ==
  ASSUME Types, EndsAnnounced, faults = 0,
         \A i \in Ids : Closed(i) => Closed(i)',
         \A i \in Ids' : \/ Firing(alerts'[i]) \/ Closed(i)'
                         \/ i \in Ids /\ Closed(i),
         \A l \in chk'.listed : l \in chk.listed \/ (l.id \in Ids /\ l.row = alerts[l.id]),
         \A a \in chk'.queue : a \in chk.queue \/ (a.id \in Ids /\ (~a.notify => Closed(a.id))),
         chk'.pc = "write" /\ chk'.act.op = "resolve" /\ ~chk'.act.notify
            => chk'.act.id \in Ids /\ Closed(chk'.act.id),
         req'.pc = "update" /\ req'.op # "delete" /\ req'.id \notin req'.notify
            => req'.id \in Ids /\ Closed(req'.id)
  PROVE  EndsAnnounced'
<1>1. \A i \in Ids' : Firing(alerts'[i]) \/ Closed(i)'
  OBVIOUS
<1>2. \A l \in chk'.listed : l.row.manual => Closed(l.id)'
  <2>1. \A l \in chk.listed : l.id \in Ids
    BY DEF Types, CheckTypes
  <2>2. \A i \in Ids : alerts[i].manual => Closed(i)
    BY DEF EndsAnnounced, Firing
  <2>3. \A l \in chk.listed : l.row.manual => Closed(l.id)
    BY DEF EndsAnnounced
  <2>4. ASSUME NEW l \in chk'.listed, l.row.manual PROVE Closed(l.id)'
    <3>1. l.id \in Ids /\ Closed(l.id)
      BY <2>1, <2>2, <2>3, <2>4
    <3>2. PICK i : i = l.id
      OBVIOUS
    <3>3. Closed(i)'
      BY <3>1, <3>2
    <3> QED BY <3>2, <3>3 DEF Closed
  <2> QED BY <2>4
<1>3. \A a \in chk'.queue : ~a.notify => Closed(a.id)'
  <2>1. \A a \in chk.queue : a.id \in Ids
    BY DEF Types, ActTypes
  <2>2. \A a \in chk.queue : ~a.notify => Closed(a.id)
    BY DEF EndsAnnounced
  <2>3. ASSUME NEW a \in chk'.queue, ~a.notify PROVE Closed(a.id)'
    <3>1. a.id \in Ids /\ Closed(a.id)
      BY <2>1, <2>2, <2>3
    <3>2. PICK i : i = a.id
      OBVIOUS
    <3>3. Closed(i)'
      BY <3>1, <3>2
    <3> QED BY <3>2, <3>3 DEF Closed
  <2> QED BY <2>3
<1>4. ASSUME chk'.pc = "write", chk'.act.op = "resolve", ~chk'.act.notify
      PROVE  Closed(chk.act.id)'
  <2>1. PICK i : i = chk'.act.id
    OBVIOUS
  <2>2. Closed(i)'
    BY <1>4, <2>1
  <2> QED BY <2>1, <2>2 DEF Closed
<1>5. ASSUME req'.pc = "update", req'.op # "delete", req'.id \notin req'.notify
      PROVE  Closed(req.id)'
  <2>1. PICK i : i = req'.id
    OBVIOUS
  <2>2. Closed(i)'
    BY <1>5, <2>1
  <2> QED BY <2>1, <2>2 DEF Closed
<1> QED BY <1>1, <1>2, <1>3, <1>4, <1>5 DEF EndsAnnounced

LEMMA EndsStep ==
  ASSUME Types, EndsAnnounced, [Next]_vars
  PROVE  EndsAnnounced'
<1> USE DEF Types
<1>0. /\ alerts \in Seq(Row) /\ chk \in Locals /\ CheckTypes /\ Tables /\ ActTypes /\ RequestTypes
      /\ faults \in Nat
  BY DEF Tables, CheckTypes
<1>1. ASSUME faults' # 0 PROVE EndsAnnounced'
  BY <1>1 DEF EndsAnnounced
<1>2. ASSUME faults = 0
      PROVE  \A i \in Ids : Firing(alerts[i]) \/ Closed(i)
  BY <1>2 DEF EndsAnnounced
<1>3. ASSUME OldRows, \A r \in Rules : Stored(r)' => Stored(r), resolved \subseteq resolved',
             \A i \in Ids : chk.pc = "enqueue" /\ chk.act.op = "resolve" /\ chk.act.id = i
                => i \in resolved' \/ (chk'.pc = chk.pc /\ chk'.act = chk.act),
             req' = req \/ req.pc \in {"idle", "update"},
             opened' = opened \/ (chk.pc = "enqueue" /\ chk.act.op = "create"
                                  /\ opened' = opened \cup {chk.act.id}),
             \/ chk' = chk \/ chk'.pc # "enqueue" \/ chk'.act.op # "create"
             \/ chk'.act.id \notin Ids
      PROVE  \A i \in Ids : Closed(i) => Closed(i)'
  <2>1. ASSUME NEW i \in Ids, Closed(i), Opened(i)' PROVE Ended(i)'
    <3>1. Opened(i)
      BY <1>3, <2>1, OpenedStays
    <3> QED BY <1>3, <2>1, <3>1, EndedStays DEF Closed
  <2> QED BY <2>1 DEF Closed
<1>4. ASSUME RowsKept, faults = 0
      PROVE  \A i \in Ids' : Firing(alerts'[i]) \/ (i \in Ids /\ Closed(i))
  BY <1>2, <1>4 DEF RowsKept, SameIds, SameRow, Firing
<1>5. ASSUME alerts' = alerts, rules' = rules, resolved' = resolved, opened' = opened, req' = req,
             faults' = faults, faults = 0, chk.pc # "enqueue", chk'.pc # "enqueue",
             \A l \in chk'.listed : l \in chk.listed \/ (l.id \in Ids /\ l.row = alerts[l.id]),
             \A a \in chk'.queue : a \in chk.queue \/ (a.id \in Ids /\ (~a.notify => Closed(a.id))),
             chk'.pc = "write" /\ chk'.act.op = "resolve" /\ ~chk'.act.notify
                => chk'.act.id \in Ids /\ Closed(chk'.act.id)
      PROVE  EndsAnnounced'
  <2>1. RowsKept /\ OldRows
    BY <1>0, <1>5, SameTable, RowsStay
  <2>2. \A i \in Ids : Closed(i) => Closed(i)'
    BY <1>3, <1>5, <2>1 DEF Stored
  <2>3. \A i \in Ids' : Firing(alerts'[i]) \/ (i \in Ids /\ Closed(i))
    BY <1>4, <1>5, <2>1
  <2>4. req'.pc = "update" /\ req'.op # "delete" /\ req'.id \notin req'.notify
            => req'.id \in Ids /\ Closed(req'.id)
    BY <1>0, <1>5 DEF EndsAnnounced, RequestTypes, Requests
  <2> QED BY <1>0, <1>5, <2>2, <2>3, <2>4, EndsKept
<1>6. CASE StatementFails \/ WriteUnheard \/ Crash \/ RequestFails
  BY <1>0, <1>1, <1>6 DEF StatementFails, WriteUnheard, Crash, RequestFails
<1>7. CASE UNCHANGED vars \/ WorldChanges
  BY <1>7 DEF vars, WorldChanges, history, counters, EndsAnnounced, Closed, Opened, Ended, Creating,
              Stored, Ids
<1>8. CASE Tick
  <2> SUFFICES ASSUME faults = 0 PROVE EndsAnnounced'
    BY <1>8 DEF Tick, counters, EndsAnnounced
  <2>1. RowsKept /\ OldRows
    BY <1>0, <1>8, TickRows, RowsStay
  <2>2. /\ rules' = rules /\ resolved' = resolved /\ opened' = opened /\ req' = req /\ chk' = chk
        /\ faults' = faults
    BY <1>8 DEF Tick, counters
  <2>3. \A i \in Ids : Closed(i) => Closed(i)'
    BY <1>3, <2>1, <2>2 DEF Stored
  <2>4. \A i \in Ids' : Firing(alerts'[i]) \/ (i \in Ids /\ Closed(i))
    BY <1>4, <2>1
  <2>5. req'.pc = "update" /\ req'.op # "delete" /\ req'.id \notin req'.notify
            => req'.id \in Ids /\ Closed(req'.id)
    BY <1>0, <2>2 DEF EndsAnnounced, RequestTypes, Requests
  <2>6. chk'.pc = "write" /\ chk'.act.op = "resolve" /\ ~chk'.act.notify
            => chk'.act.id \in Ids /\ Closed(chk'.act.id)
    BY <1>0, <2>2 DEF EndsAnnounced, ActTypes
  <2> QED BY <1>0, <2>2, <2>3, <2>4, <2>5, <2>6, EndsKept
<1>9. CASE BeginCheck \/ EndCheck
  <2> SUFFICES ASSUME faults = 0 PROVE EndsAnnounced'
    BY <1>9 DEF BeginCheck, EndCheck, counters, EndsAnnounced
  <2>1. chk'.listed = {} /\ chk'.queue = {} /\ chk'.pc \in {"idle", "rules"}
    BY <1>0, <1>9, BeginDoes, IdleFacts DEF EndCheck
  <2>2. /\ alerts' = alerts /\ rules' = rules /\ resolved' = resolved /\ opened' = opened
        /\ req' = req /\ faults' = faults /\ chk.pc # "enqueue"
    BY <1>9 DEF BeginCheck, EndCheck, counters
  <2> QED BY <1>5, <2>1, <2>2
<1>10. ASSUME NEW r \in Rules, NextRule(r) PROVE EndsAnnounced'
  <2> SUFFICES ASSUME faults = 0 PROVE EndsAnnounced'
    BY <1>10 DEF NextRule, counters, EndsAnnounced
  <2>1. NextRuleOutcome(r)
    BY <1>0, <1>10, NextRuleDoes
  <2>2. /\ alerts' = alerts /\ rules' = rules /\ resolved' = resolved /\ opened' = opened
        /\ req' = req /\ faults' = faults
    BY <1>10 DEF NextRule, counters
  <2> QED BY <1>5, <2>1, <2>2 DEF NextRuleOutcome, SameSnapshot
<1>11. CASE ListRule
  <2> SUFFICES ASSUME faults = 0 PROVE EndsAnnounced'
    BY <1>11 DEF ListRule, counters, EndsAnnounced
  <2>1. ListOutcome /\ chk.rule \in Rules
    BY <1>0, <1>11, ListDoes DEF CheckTypes, ListRule
  <2>2. /\ alerts' = alerts /\ rules' = rules /\ resolved' = resolved /\ opened' = opened
        /\ req' = req /\ faults' = faults
    BY <1>11 DEF ListRule, counters
  <2>3. \A l \in chk'.listed : l.id \in Ids /\ l.row = alerts[l.id]
    BY <1>0, <2>1, ListingFacts DEF ListOutcome
  <2> QED BY <1>5, <2>1, <2>2, <2>3 DEF ListOutcome
<1>12. ASSUME NEW fp \in Fingerprints, Evaluate(fp) PROVE EndsAnnounced'
  <2> SUFFICES ASSUME faults = 0 PROVE EndsAnnounced'
    BY <1>12 DEF Evaluate, counters, EndsAnnounced
  <2>1. EvaluateOutcome(fp)
    BY <1>0, <1>12, EvaluateDoes
  <2>2. /\ alerts' = alerts /\ rules' = rules /\ resolved' = resolved /\ opened' = opened
        /\ req' = req /\ faults' = faults
    BY <1>12 DEF Evaluate, counters
  <2>3. PICK a : a = chk'.act
    OBVIOUS
  <2>4. a.op = "resolve" => a.notify
    BY <1>0, <2>1, <2>3, DecidesFacts DEF EvaluateOutcome
  <2> QED BY <1>5, <2>1, <2>2, <2>3, <2>4 DEF EvaluateOutcome
<1>13. CASE InitLogPatternsEnd \/ ResolveLoopEnds
  <2> SUFFICES ASSUME faults = 0 PROVE EndsAnnounced'
    BY <1>13 DEF InitLogPatternsEnd, ResolveLoopEnds, counters, EndsAnnounced
  <2>1. PICK p \in {"nonmatching", "rules"} : Goes(p)
    BY <1>0, <1>13, InitEndDoes, LoopEndDoes
  <2>2. /\ alerts' = alerts /\ rules' = rules /\ resolved' = resolved /\ opened' = opened
        /\ req' = req /\ faults' = faults /\ chk.pc # "enqueue"
    BY <1>13 DEF InitLogPatternsEnd, ResolveLoopEnds, counters
  <2> QED BY <1>5, <2>1, <2>2 DEF Goes, SameSnapshot
<1>14. CASE EvaluationEnds
  <2> SUFFICES ASSUME faults = 0 PROVE EndsAnnounced'
    BY <1>14 DEF EvaluationEnds, counters, EndsAnnounced
  <2>1. EndsOutcome /\ chk.rule \in Rules
    BY <1>0, <1>14, EndsDoes DEF EvaluationEnds, CheckTypes
  <2>2. /\ alerts' = alerts /\ rules' = rules /\ resolved' = resolved /\ opened' = opened
        /\ req' = req /\ faults' = faults
    BY <1>14 DEF EvaluationEnds, counters
  <2>3. \A l \in StaleRead : l.id \in Ids /\ (l.row.manual => Closed(l.id))
    <3>1. \A l \in StaleRead : l.id \in Ids /\ (l.row = alerts[l.id] \/ l \in chk.listed)
      BY <1>0, <2>1, StaleReadFacts
    <3>2. \A l \in chk.listed : l.row.manual => Closed(l.id)
      BY DEF EndsAnnounced
    <3>3. \A i \in Ids : alerts[i].manual => Closed(i)
      BY <1>2 DEF Firing
    <3> QED BY <3>1, <3>2, <3>3
  <2>4. \A a \in chk'.queue : a.id \in Ids /\ (~a.notify => Closed(a.id))
    <3>1. ASSUME NEW a \in chk'.queue PROVE a.id \in Ids /\ (~a.notify => Closed(a.id))
      <4>1. PICK l \in StaleRead : a = Resolve(l.id, ~l.row.manual)
        BY <2>1 DEF EndsOutcome
      <4>2. a.id = l.id /\ a.notify = ~l.row.manual
        BY <4>1 DEF Resolve
      <4> QED BY <2>3, <4>2
    <3> QED BY <3>1
  <2> QED BY <1>5, <2>1, <2>2, <2>4 DEF EndsOutcome, SameSnapshot
<1>15. CASE ListNonMatching
  <2> SUFFICES ASSUME faults = 0 PROVE EndsAnnounced'
    BY <1>15 DEF ListNonMatching, counters, EndsAnnounced
  <2>1. NonMatchingOutcome
    BY <1>0, <1>15, NonMatchingDoes
  <2>2. /\ alerts' = alerts /\ rules' = rules /\ resolved' = resolved /\ opened' = opened
        /\ req' = req /\ faults' = faults
    BY <1>15 DEF ListNonMatching, counters
  <2>3. \A i \in Ids : alerts[i].manual => Closed(i)
    BY <1>2 DEF Firing
  <2>4. \A a \in chk'.queue : a.id \in Ids /\ (~a.notify => Closed(a.id))
    <3>1. ASSUME NEW a \in chk'.queue PROVE a.id \in Ids /\ (~a.notify => Closed(a.id))
      <4>1. PICK i \in Ids : a = Resolve(i, ~alerts[i].manual)
        BY <2>1 DEF NonMatchingOutcome
      <4>2. a.id = i /\ a.notify = ~alerts[i].manual
        BY <4>1 DEF Resolve
      <4> QED BY <2>3, <4>2
    <3> QED BY <3>1
  <2> QED BY <1>5, <2>1, <2>2, <2>4 DEF NonMatchingOutcome, SameSnapshot
<1>16. ASSUME NEW a \in chk.queue, ResolveNext(a) PROVE EndsAnnounced'
  <2> SUFFICES ASSUME faults = 0 PROVE EndsAnnounced'
    BY <1>16 DEF ResolveNext, counters, EndsAnnounced
  <2>1. NextOutcome(a)
    BY <1>0, <1>16, ResolveNextDoes
  <2>2. /\ alerts' = alerts /\ rules' = rules /\ resolved' = resolved /\ opened' = opened
        /\ req' = req /\ faults' = faults
    BY <1>16 DEF ResolveNext, counters
  <2>3. a.id \in Ids /\ (~a.notify => Closed(a.id))
    BY <1>0 DEF EndsAnnounced, ActTypes
  <2> QED BY <1>5, <2>1, <2>2, <2>3 DEF NextOutcome, SameSnapshot
<1>17. CASE Enqueue
  <2> SUFFICES ASSUME faults = 0 PROVE EndsAnnounced'
    BY <1>17 DEF Enqueue, counters, EndsAnnounced
  <2>1. Goes(Loop) /\ Loop \in {"eval", "queue"}
    BY <1>0, <1>17, EnqueueDoes DEF Loop
  <2>2. /\ alerts' = alerts /\ rules' = rules /\ req' = req /\ faults' = faults
        /\ chk.pc = "enqueue" /\ chk.act.op \in {"create", "resolve"}
    BY <1>0, <1>17 DEF Enqueue, counters, ActTypes
  <2>3. /\ resolved \subseteq resolved'
        /\ chk.act.op = "resolve" => chk.act.id \in resolved' /\ opened' = opened
        /\ chk.act.op = "create" => opened' = opened \cup {chk.act.id}
    BY <1>17, <2>2 DEF Enqueue
  <2>4. RowsKept /\ OldRows
    BY <1>0, <2>2, SameTable, RowsStay
  <2>5. \A i \in Ids : Closed(i) => Closed(i)'
    BY <1>3, <2>1, <2>2, <2>3, <2>4 DEF Goes, Stored
  <2>6. \A i \in Ids' : Firing(alerts'[i]) \/ (i \in Ids /\ Closed(i))
    BY <1>4, <2>4
  <2>7. req'.pc = "update" /\ req'.op # "delete" /\ req'.id \notin req'.notify
            => req'.id \in Ids /\ Closed(req'.id)
    BY <1>0, <2>2 DEF EndsAnnounced, RequestTypes, Requests
  <2> QED BY <1>0, <2>1, <2>5, <2>6, <2>7, EndsKept DEF Goes, SameSnapshot
<1>18. ASSUME NEW fp \in Fingerprints, InitLogPattern(fp) PROVE EndsAnnounced'
  <2> SUFFICES ASSUME faults = 0 PROVE EndsAnnounced'
    BY <1>18 DEF InitLogPattern, counters, EndsAnnounced
  <2>1. InitOutcome(fp) /\ Grown(NewRow(fp, TRUE))
    BY <1>0, <1>18, InitDoes, InitRows
  <2>2. OldRows
    BY <2>1, RowsStay
  <2>3. /\ rules' = rules /\ resolved' = resolved /\ opened' = opened
        /\ req' = req /\ faults' = faults
    BY <1>18 DEF InitLogPattern, counters
  <2>4. \A i \in Ids : Closed(i) => Closed(i)'
    BY <1>3, <2>1, <2>2, <2>3 DEF InitOutcome, Stored
  <2>5. \A i \in Ids' \ Ids : Closed(i)'
    BY <1>0, <2>1, <2>3 DEF InitOutcome, Closed, Opened, Creating, Tables
  <2>6. \A i \in Ids' : Firing(alerts'[i]) \/ Closed(i)' \/ (i \in Ids /\ Closed(i))
    BY <1>2, <2>1, <2>5 DEF Grown
  <2>7. req'.pc = "update" /\ req'.op # "delete" /\ req'.id \notin req'.notify
            => req'.id \in Ids /\ Closed(req'.id)
    BY <1>0, <2>3 DEF EndsAnnounced, RequestTypes, Requests
  <2> QED BY <1>0, <2>1, <2>4, <2>6, <2>7, EndsKept DEF InitOutcome
<1>19. CASE Write
  <2> SUFFICES ASSUME faults = 0 PROVE EndsAnnounced'
    BY <1>19 DEF Write, EndsAnnounced
  <2>1. WriteOutcome
    BY <1>0, <1>19, WriteDoes
  <2>2. /\ rules' = rules /\ resolved' = resolved /\ opened' = opened
        /\ req' = req /\ faults' = faults /\ chk.pc = "write" /\ Stores
    BY <1>19 DEF Write, Stores
  <2>3. /\ chk.act.op \in {"create", "update", "resolve", "clear"}
        /\ chk.act.op \in {"update", "resolve"} => chk.act.id \in Ids
        /\ chk.act.op = "create" => chk.act.notify
    BY <1>0, <2>2 DEF ActTypes, Locals, Acts, Inserting
  <2>4. OldRows
    BY <1>0, <2>2, <2>3, WriteRows, RowsStay
  <2>5. chk.act.op = "create" => Len(alerts) + 1 \notin Ids
    BY <1>0, TableFacts
  <2>6. \A i \in Ids : Closed(i) => Closed(i)'
    BY <1>3, <2>1, <2>2, <2>4, <2>5 DEF WriteOutcome, Stored
  <2>7. \A i \in Ids' : Firing(alerts'[i]) \/ Closed(i)' \/ (i \in Ids /\ Closed(i))
    <3>1. CASE chk.act.op = "create"
      <4>1. Grown(NewRow(chk.act.fp, FALSE))
        BY <1>0, <2>2, <3>1, WriteRows
      <4>2. Firing(NewRow(chk.act.fp, FALSE))
        BY DEF NewRow, Firing
      <4> QED BY <1>2, <4>1, <4>2 DEF Grown
    <3>2. CASE chk.act.op = "update"
      <4>1. Rewritten(chk.act.id, FALSE, alerts[chk.act.id].manual, alerts[chk.act.id].suppressed)
        BY <1>0, <2>2, <3>2, WriteRows
      <4> QED BY <1>2, <2>3, <4>1 DEF Rewritten, SameIds, SameRow, Firing
    <3>3. CASE chk.act.op = "resolve"
      <4>1. Rewritten(chk.act.id, TRUE, alerts[chk.act.id].manual, alerts[chk.act.id].suppressed)
        BY <1>0, <2>2, <3>3, WriteRows
      <4>2. PICK n : n = chk.act.id
        OBVIOUS
      <4>3. Closed(n) \/ Closed(n)'
        <5>1. CASE chk.act.notify
          BY <2>1, <3>3, <4>2, <5>1 DEF WriteOutcome, Closed, Ended
        <5>2. CASE ~chk.act.notify
          BY <2>2, <3>3, <4>2, <5>2 DEF EndsAnnounced
        <5> QED BY <5>1, <5>2
      <4> QED BY <1>2, <2>3, <4>1, <4>2, <4>3 DEF Rewritten, SameIds, SameRow, Firing
    <3>4. CASE chk.act.op = "clear"
      <4>1. SuppressionCleared(chk.act.fp)
        BY <1>0, <2>2, <3>4, WriteRows
      <4> QED BY <1>2, <4>1 DEF SuppressionCleared, SameIds, Firing
    <3> QED BY <2>3, <3>1, <3>2, <3>3, <3>4
  <2>8. req'.pc = "update" /\ req'.op # "delete" /\ req'.id \notin req'.notify
            => req'.id \in Ids /\ Closed(req'.id)
    BY <1>0, <2>2 DEF EndsAnnounced, RequestTypes, Requests
  <2>9. chk'.pc # "write"
    BY <2>1 DEF WriteOutcome, Loop
  <2> QED BY <1>0, <2>1, <2>6, <2>7, <2>8, <2>9, EndsKept DEF WriteOutcome, SameSnapshot
<1>20. ASSUME NEW i \in Ids, NEW op \in {"resolve", "suppress"}, ReadAlert(op, i) PROVE EndsAnnounced'
  <2> SUFFICES ASSUME faults = 0 PROVE EndsAnnounced'
    BY <1>20 DEF ReadAlert, EndsAnnounced
  <2>1. /\ alerts' = alerts /\ rules' = rules /\ resolved' = resolved /\ opened' = opened
        /\ chk' = chk /\ req.pc = "idle"
    BY <1>20 DEF ReadAlert, Request
  <2>2. RowsKept /\ OldRows
    BY <1>0, <2>1, SameTable, RowsStay
  <2>3. \A k \in Ids : Closed(k) => Closed(k)'
    BY <1>3, <2>1, <2>2 DEF Stored
  <2>4. \A k \in Ids' : Firing(alerts'[k]) \/ (k \in Ids /\ Closed(k))
    BY <1>4, <2>2
  <2>5. req'.id = i /\ (req'.id \notin req'.notify => ~Firing(alerts[i]))
    BY <1>20 DEF ReadAlert, Firing
  <2>6. req'.pc = "update" /\ req'.op # "delete" /\ req'.id \notin req'.notify
            => req'.id \in Ids /\ Closed(req'.id)
    BY <1>2, <2>5
  <2>7. chk'.pc = "write" /\ chk'.act.op = "resolve" /\ ~chk'.act.notify
            => chk'.act.id \in Ids /\ Closed(chk'.act.id)
    BY <1>0, <2>1 DEF EndsAnnounced, ActTypes
  <2> QED BY <1>0, <2>1, <2>3, <2>4, <2>6, <2>7, EndsKept
<1>21. ASSUME NEW r \in Rules, ReadRule(r) \/ UpdateAlertingRule(r) PROVE EndsAnnounced'
  <2> SUFFICES ASSUME faults = 0 PROVE EndsAnnounced'
    BY <1>21 DEF ReadRule, UpdateAlertingRule, EndsAnnounced
  <2>1. /\ alerts' = alerts /\ resolved' = resolved /\ opened' = opened
        /\ chk' = chk /\ req.pc = "idle"
    BY <1>21 DEF ReadRule, UpdateAlertingRule, Request
  <2>2. RowsKept /\ OldRows
    BY <1>0, <2>1, SameTable, RowsStay
  <2>3. \A s \in Rules : Stored(s)' => Stored(s)
    BY <1>0, <1>21 DEF ReadRule, UpdateAlertingRule, Stored, Tables
  <2>4. \A k \in Ids : Closed(k) => Closed(k)'
    BY <1>3, <2>1, <2>2, <2>3
  <2>5. \A k \in Ids' : Firing(alerts'[k]) \/ (k \in Ids /\ Closed(k))
    BY <1>4, <2>2
  <2>6. ~(req'.pc = "update" /\ req'.op # "delete")
    BY <1>21, <2>1 DEF ReadRule, UpdateAlertingRule
  <2>7. chk'.pc = "write" /\ chk'.act.op = "resolve" /\ ~chk'.act.notify
            => chk'.act.id \in Ids /\ Closed(chk'.act.id)
    BY <1>0, <2>1 DEF EndsAnnounced, ActTypes
  <2> QED BY <1>0, <2>1, <2>4, <2>5, <2>6, <2>7, EndsKept
<1>22. ASSUME NEW i \in Ids, ReopenAlerts(i) PROVE EndsAnnounced'
  <2> SUFFICES ASSUME faults = 0 PROVE EndsAnnounced'
    BY <1>22 DEF ReopenAlerts, EndsAnnounced
  <2>1. /\ rules' = rules /\ resolved' = resolved /\ opened' = opened /\ chk' = chk /\ req' = req
        /\ alerts[i].manual \/ alerts[i].suppressed
    BY <1>22 DEF ReopenAlerts
  <2>2. Rewritten(i, alerts[i].resolved, FALSE, FALSE)
    BY <1>0, <1>22, ReopenRows
  <2>3. OldRows
    BY <2>2, RowsStay
  <2>4. \A k \in Ids : Closed(k) => Closed(k)'
    BY <1>3, <2>1, <2>3 DEF Stored
  <2>5. \A k \in Ids' : Firing(alerts'[k]) \/ (k \in Ids /\ Closed(k))
    BY <1>2, <2>1, <2>2 DEF Rewritten, SameIds, SameRow, Firing
  <2>6. req'.pc = "update" /\ req'.op # "delete" /\ req'.id \notin req'.notify
            => req'.id \in Ids /\ Closed(req'.id)
    BY <1>0, <2>1 DEF EndsAnnounced, RequestTypes, Requests
  <2>7. chk'.pc = "write" /\ chk'.act.op = "resolve" /\ ~chk'.act.notify
            => chk'.act.id \in Ids /\ Closed(chk'.act.id)
    BY <1>0, <2>1 DEF EndsAnnounced, ActTypes
  <2> QED BY <1>0, <2>1, <2>4, <2>5, <2>6, <2>7, EndsKept
<1>23. CASE UpdateRows
  <2> SUFFICES ASSUME faults = 0 PROVE EndsAnnounced'
    BY <1>23 DEF UpdateRows, counters, EndsAnnounced
  <2>1. /\ rules' = rules /\ resolved' = resolved /\ opened' = opened /\ chk' = chk
        /\ req.pc = "update" /\ req' = [req EXCEPT !.pc = "enqueue"]
    BY <1>23 DEF UpdateRows
  <2>2. /\ req.op \in {"resolve", "suppress", "delete"} /\ req.rule \in Rules
        /\ req.op # "delete" => req.id \in Ids /\ req.rule = RuleOf[alerts[req.id].fp]
    BY <1>0, <2>1 DEF RequestTypes, Requests
  <2>3. OldRows /\ Ids' = Ids
    BY <1>0, <1>23, <2>2, RequestRows, RowsStay
  <2>4. \A k \in Ids : Closed(k) => Closed(k)'
    BY <1>3, <2>1, <2>3 DEF Stored
  <2>5. req'.pc = "enqueue" /\ req'.op = req.op /\ req'.rule = req.rule /\ req'.notify = req.notify
    BY <1>0, <2>1 DEF RequestTypes, Requests
  <2>6. \A k \in Ids' : Firing(alerts'[k]) \/ Closed(k)' \/ (k \in Ids /\ Closed(k))
    <3>1. CASE req.op = "delete"
      <4>1. ResolvedByRule(req.rule)
        BY <1>0, <1>23, <3>1, RequestRows
      <4>2. ASSUME NEW k \in Ids, RuleOf[alerts[k].fp] = req.rule PROVE Closed(k)'
        BY <2>3, <2>5, <3>1, <4>2 DEF Closed, Ended, OldRows
      <4> QED BY <1>2, <2>3, <4>1, <4>2 DEF ResolvedByRule, Firing
    <3>2. CASE req.op # "delete"
      <4>1. PICK n : n = req.id
        OBVIOUS
      <4>2. Closed(n) \/ Closed(n)'
        <5>1. CASE req.id \in req.notify
          BY <2>2, <2>3, <2>5, <3>2, <4>1, <5>1 DEF Closed, Ended, OldRows
        <5>2. CASE req.id \notin req.notify
          BY <2>1, <3>2, <4>1, <5>2 DEF EndsAnnounced
        <5> QED BY <5>1, <5>2
      <4>3. \A k \in Ids : k # n => SameRow(k)
        BY <1>0, <1>23, <2>2, <3>2, <4>1, RequestRows DEF RowsKept, Rewritten
      <4> QED BY <1>2, <2>2, <2>3, <3>2, <4>1, <4>2, <4>3 DEF SameRow, Firing
    <3> QED BY <3>1, <3>2
  <2>7. chk'.pc = "write" /\ chk'.act.op = "resolve" /\ ~chk'.act.notify
            => chk'.act.id \in Ids /\ Closed(chk'.act.id)
    BY <1>0, <2>1 DEF EndsAnnounced, ActTypes
  <2> QED BY <1>0, <2>1, <2>4, <2>5, <2>6, <2>7, EndsKept
<1>24. CASE EnqueueResolvedAlerts \/ DeleteAlertingRule
  <2> SUFFICES ASSUME faults = 0 PROVE EndsAnnounced'
    BY <1>24 DEF EnqueueResolvedAlerts, DeleteAlertingRule, counters, EndsAnnounced
  <2>1. alerts' = alerts /\ opened' = opened /\ chk' = chk
    BY <1>24 DEF EnqueueResolvedAlerts, DeleteAlertingRule
  <2>2. RowsKept /\ OldRows
    BY <1>0, <2>1, SameTable, RowsStay
  <2>3. \A k \in Ids : Closed(k) => Closed(k)'
    <3>1. ASSUME NEW k \in Ids, Closed(k), Opened(k)' PROVE Ended(k)'
      <4>1. Opened(k)
        BY <2>1, <3>1 DEF Opened, Creating
      <4> QED BY <1>24, <3>1, <4>1, EndedAfterRequest DEF Closed
    <3> QED BY <3>1 DEF Closed
  <2>4. \A k \in Ids' : Firing(alerts'[k]) \/ (k \in Ids /\ Closed(k))
    BY <1>4, <2>2
  <2>5. req'.pc # "update"
    BY <1>0, <1>24 DEF EnqueueResolvedAlerts, DeleteAlertingRule, NoRequest, RequestTypes, Requests
  <2>6. chk'.pc = "write" /\ chk'.act.op = "resolve" /\ ~chk'.act.notify
            => chk'.act.id \in Ids /\ Closed(chk'.act.id)
    BY <1>0, <2>1 DEF EndsAnnounced, ActTypes
  <2> QED BY <1>0, <2>1, <2>3, <2>4, <2>5, <2>6, EndsKept
<1>25. CASE \E i \in Ids : ReadAlert("resolve", i) \/ ReadAlert("suppress", i)
  <2>1. PICK o1, o2 : o1 = "resolve" /\ o2 = "suppress"
    OBVIOUS
  <2>2. o1 \in {"resolve", "suppress"} /\ o2 \in {"resolve", "suppress"}
    BY <2>1
  <2> QED BY <1>20, <1>25, <2>1, <2>2
<1> QED BY <1>6, <1>7, <1>8, <1>9, <1>10, <1>11, <1>12, <1>13, <1>14, <1>15, <1>16, <1>17, <1>18,
           <1>19, <1>21, <1>22, <1>23, <1>24, <1>25 DEF Next, CheckStep, RequestStep, NewRequest

\* Without faults the end of an alert whose opening was announced is announced
\* too, whether a check or a user ends it, and whichever of the two comes first.
THEOREM EndAnnouncedSafety == Spec => []EndAnnounced
<1>1. Init => EndsAnnounced
  <2> SUFFICES ASSUME Init PROVE EndsAnnounced
    OBVIOUS
  <2>1. Ids = {}
    BY DEF Init, Ids
  <2>2. chk.listed = {} /\ chk.queue = {} /\ chk.pc = "idle" /\ req.pc = "idle"
    BY IdleFacts DEF Init, NoRequest
  <2> QED BY <2>1, <2>2 DEF EndsAnnounced
<1>2. Types /\ EndsAnnounced /\ [Next]_vars => EndsAnnounced'
  BY EndsStep
<1>3. Types /\ EndsAnnounced => EndAnnounced
  BY DEF Types, Tables, EndsAnnounced, EndAnnounced, Closed, Opened, Ended
<1> QED BY <1>1, <1>2, <1>3, TypesHold, PTL DEF Spec

-----------------------------------------------------------------------------
(* The steps of a check that neither evaluate nor write, and the steps of others *)

\* The world, time and the users.
OthersStep ==
    UNCHANGED vars \/ WorldChanges \/ Tick \/ NewRequest \/ RequestStep \/ RequestFails

\* A check before, between and after its evaluations and its writes.
ControlStep ==
    \/ BeginCheck \/ EndCheck \/ Crash \/ (\E r \in Rules : NextRule(r))
    \/ InitLogPatternsEnd \/ EvaluationEnds \/ ListNonMatching
    \/ (\E a \in chk.queue : ResolveNext(a)) \/ ResolveLoopEnds

LEMMA StepCases ==
  ASSUME [Next]_vars
  PROVE  \/ OthersStep \/ ControlStep \/ ListRule \/ Write \/ Enqueue \/ StatementFails
         \/ WriteUnheard
         \/ \E fp \in Fingerprints : InitLogPattern(fp) \/ Evaluate(fp)
BY DEF Next, CheckStep, OthersStep, ControlStep

\* Others end alerts and reopen them; only what is reopened becomes active.
OthersDo ==
    /\ chk' = chk /\ initialized' = initialized
    /\ OldRows /\ Ids' = Ids
    /\ reopened \subseteq reopened' /\ unheard' = unheard
    /\ \A i \in Ids : Fires(i)' => Fires(i)
    /\ \A i \in Ids : alerts[i].manual \/ alerts[i].suppressed
          => alerts'[i].manual \/ alerts'[i].suppressed \/ i \in reopened'

LEMMA OthersFacts ==
  ASSUME Types, OthersStep
  PROVE  OthersDo
<1> USE DEF Types
<1>0. alerts \in Seq(Row) /\ RequestTypes
  BY DEF Tables
<1>1. ASSUME RowsKept, chk' = chk, initialized' = initialized, reopened' = reopened,
             unheard' = unheard
      PROVE  OthersDo
  <2>1. OldRows /\ Ids' = Ids
    BY <1>1, RowsStay
  <2>2. \A i \in Ids : SameRow(i)
    BY <1>1 DEF RowsKept
  <2> QED BY <1>1, <2>1, <2>2 DEF OthersDo, SameRow, Fires, Firing
<1>2. ASSUME alerts' = alerts, chk' = chk, initialized' = initialized, reopened' = reopened,
             unheard' = unheard
      PROVE  OthersDo
  BY <1>0, <1>1, <1>2, SameTable
<1>3. CASE UNCHANGED vars \/ WorldChanges \/ RequestFails \/ EnqueueResolvedAlerts \/ DeleteAlertingRule
  BY <1>2, <1>3 DEF vars, WorldChanges, RequestFails, EnqueueResolvedAlerts, DeleteAlertingRule, history
<1>4. CASE \/ \E i \in Ids : ReadAlert("resolve", i) \/ ReadAlert("suppress", i)
           \/ \E r \in Rules : ReadRule(r) \/ UpdateAlertingRule(r)
  BY <1>2, <1>4 DEF ReadAlert, ReadRule, UpdateAlertingRule, history
<1>5. CASE Tick
  BY <1>0, <1>1, <1>5, TickRows DEF Tick
<1>6. ASSUME NEW i \in Ids, ReopenAlerts(i) PROVE OthersDo
  <2>1. Rewritten(i, alerts[i].resolved, FALSE, FALSE)
    BY <1>0, <1>6, ReopenRows
  <2>2. OldRows /\ Ids' = Ids
    BY <2>1, RowsStay
  <2>3. /\ chk' = chk /\ initialized' = initialized /\ reopened' = reopened \cup {i}
        /\ unheard' = unheard
    BY <1>6 DEF ReopenAlerts
  <2>4. \A k \in Ids : k # i => SameRow(k)
    BY <2>1 DEF Rewritten
  <2> QED BY <2>2, <2>3, <2>4 DEF OthersDo, SameRow, Fires, Firing
<1>7. CASE UpdateRows
  <2>1. req.op \in {"resolve", "suppress", "delete"} /\ (req.op # "delete" => req.id \in Ids)
    BY <1>0, <1>7 DEF UpdateRows, RequestTypes, Requests
  <2>2. /\ chk' = chk /\ initialized' = initialized /\ reopened' = reopened
        /\ unheard' = unheard
    BY <1>7 DEF UpdateRows
  <2>3. CASE req.op = "delete"
    <3>1. ResolvedByRule(req.rule)
      BY <1>0, <1>7, <2>3, RequestRows
    <3>2. OldRows /\ Ids' = Ids
      BY <3>1, RowsStay
    <3> QED BY <2>2, <3>1, <3>2 DEF OthersDo, ResolvedByRule, Fires, Firing
  <2>4. ASSUME NEW res, NEW man, NEW sup, Rewritten(req.id, res, man, sup), man \/ sup, req.op # "delete"
        PROVE  OthersDo
    <3>1. OldRows /\ Ids' = Ids
      BY <2>1, <2>4, RowsStay
    <3>2. \A k \in Ids : k # req.id => SameRow(k)
      BY <2>4 DEF Rewritten
    <3>3. alerts'[req.id].manual \/ alerts'[req.id].suppressed
      BY <2>4 DEF Rewritten
    <3> QED BY <2>2, <3>1, <3>2, <3>3 DEF OthersDo, SameRow, Fires, Firing
  <2>5. CASE req.op = "resolve"
    BY <1>0, <1>1, <1>7, <2>2, <2>4, <2>5, RequestRows
  <2>6. CASE req.op = "suppress"
    BY <1>0, <1>7, <2>4, <2>6, RequestRows
  <2> QED BY <2>1, <2>3, <2>5, <2>6
<1> QED BY <1>3, <1>4, <1>5, <1>6, <1>7 DEF OthersStep, NewRequest, RequestStep

\* What a check does between evaluations and writes.
ControlDoes ==
    /\ alerts' = alerts /\ OldRows /\ Ids' = Ids
    /\ reopened' = reopened /\ unheard' = unheard
    /\ quiet' = quiet /\ streak' = streak /\ cleared' = cleared
    /\ ~Evaluating' /\ ~Inserting'
    /\ chk'.listed \in {{}, chk.listed} /\ chk'.made \in {{}, chk.made}
    /\ chk'.pc # "init"

LEMMA ControlFacts ==
  ASSUME Types, ControlStep
  PROVE  ControlDoes
<1> USE DEF Types
<1>0. alerts \in Seq(Row) /\ chk \in Locals /\ CheckTypes /\ ActTypes /\ Tables
  BY DEF Tables, CheckTypes
<1>1. ASSUME alerts' = alerts, reopened' = reopened, unheard' = unheard,
             quiet' = quiet, streak' = streak, cleared' = cleared,
             chk'.listed \in {{}, chk.listed}, chk'.made \in {{}, chk.made},
             \/ chk'.pc \in {"idle", "rules", "list", "queue", "nonmatching"}
             \/ chk'.pc = "write" /\ chk'.phase # "eval" /\ chk'.act.op = "resolve"
      PROVE  ControlDoes
  <2>1. OldRows /\ Ids' = Ids
    BY <1>0, <1>1, SameTable, RowsStay
  <2> QED BY <1>1, <2>1 DEF ControlDoes, Evaluating, Inserting
<1>2. CASE BeginCheck
  BY <1>0, <1>1, <1>2, BeginDoes DEF BeginCheck, history
<1>3. CASE EndCheck
  BY <1>1, <1>3, IdleFacts DEF EndCheck, history
<1>4. CASE Crash
  BY <1>1, <1>4, IdleFacts DEF Crash, history
<1>5. ASSUME NEW r \in Rules, NextRule(r) PROVE ControlDoes
  <2>1. NextRuleOutcome(r)
    BY <1>0, <1>5, NextRuleDoes
  <2> QED BY <1>1, <1>5, <2>1 DEF NextRule, NextRuleOutcome, SameSnapshot, history
<1>6. ASSUME NEW p \in {"nonmatching", "rules"}, Goes(p), alerts' = alerts, UNCHANGED history
      PROVE  ControlDoes
  BY <1>1, <1>6 DEF Goes, SameSnapshot, history
<1>7. CASE InitLogPatternsEnd \/ ResolveLoopEnds
  <2>1. PICK p \in {"nonmatching", "rules"} : Goes(p)
    BY <1>0, <1>7, InitEndDoes, LoopEndDoes
  <2> QED BY <1>6, <1>7, <2>1 DEF InitLogPatternsEnd, ResolveLoopEnds
<1>8. CASE EvaluationEnds
  <2>1. EndsOutcome
    BY <1>0, <1>8, EndsDoes
  <2> QED BY <1>1, <1>8, <2>1 DEF EvaluationEnds, EndsOutcome, SameSnapshot, history
<1>9. CASE ListNonMatching
  <2>1. NonMatchingOutcome
    BY <1>0, <1>9, NonMatchingDoes
  <2> QED BY <1>1, <1>9, <2>1 DEF ListNonMatching, NonMatchingOutcome, SameSnapshot, history
<1>10. ASSUME NEW a \in chk.queue, ResolveNext(a) PROVE ControlDoes
  <2>1. NextOutcome(a)
    BY <1>0, <1>10, ResolveNextDoes
  <2>2. a.op = "resolve" /\ chk.phase # "eval"
    BY <1>0, <2>1 DEF ActTypes, CheckTypes, NextOutcome
  <2> QED BY <1>1, <1>10, <2>1, <2>2 DEF ResolveNext, NextOutcome, SameSnapshot, history
<1> QED BY <1>2, <1>3, <1>4, <1>5, <1>7, <1>8, <1>9, <1>10 DEF ControlStep

-----------------------------------------------------------------------------
(* A project without alerts *)

LEMMA UntouchedKept ==
  ASSUME Untouched, OldRows, Ids' = Ids, initialized' = initialized,
         chk' = chk \/ (chk.pc # "idle" /\ chk'.pc \notin {"list", "init"} /\ chk'.todo = chk.todo)
  PROVE  Untouched'
<1>1. CASE chk' = chk
  BY <1>1 DEF Untouched, OldRows
<1>2. CASE chk.pc # "idle" /\ chk'.pc \notin {"list", "init"} /\ chk'.todo = chk.todo
  BY <1>2 DEF Untouched, OldRows
<1> QED BY <1>1, <1>2

LEMMA UntouchedStep ==
  ASSUME Types, Untouched, [Next]_vars
  PROVE  Untouched'
<1> USE DEF Types
<1>0. alerts \in Seq(Row) /\ chk \in Locals /\ CheckTypes /\ ActTypes /\ Tables
  BY DEF Tables, CheckTypes
<1>1. CASE OthersStep
  BY <1>1, OthersFacts, UntouchedKept DEF OthersDo
<1>2. ASSUME alerts' = alerts, initialized' = initialized, SameRule, chk.pc # "idle",
             chk'.pc \notin {"list", "init"}
      PROVE  Untouched'
  <2>1. OldRows /\ Ids' = Ids
    BY <1>0, <1>2, SameTable, RowsStay
  <2> QED BY <1>2, <2>1, UntouchedKept DEF SameRule
<1>3. CASE BeginCheck
  <2>1. chk'.pc = "rules" /\ alerts' = alerts /\ (~initialized' => alerts = <<>>)
    BY <1>0, <1>3, BeginDoes DEF BeginCheck
  <2>2. ~initialized' => Ids' = {}
    BY <2>1 DEF Ids
  <2> QED BY <2>1, <2>2 DEF Untouched
<1>4. CASE EndCheck \/ Crash
  <2>1. chk'.pc = "idle"
    BY <1>4, IdleFacts DEF EndCheck, Crash
  <2> QED BY <2>1 DEF Untouched
<1>5. ASSUME NEW r \in Rules, NextRule(r) PROVE Untouched'
  <2>1. NextRuleOutcome(r) /\ alerts' = alerts /\ initialized' = initialized
    BY <1>0, <1>5, NextRuleDoes DEF NextRule
  <2>2. Ids' = Ids
    BY <2>1 DEF Ids
  <2> QED BY <2>1, <2>2 DEF NextRuleOutcome, Untouched
<1>6. CASE InitLogPatternsEnd \/ ResolveLoopEnds
  <2>1. PICK p \in {"nonmatching", "rules"} : Goes(p)
    BY <1>0, <1>6, InitEndDoes, LoopEndDoes
  <2> QED BY <1>2, <1>6, <2>1 DEF InitLogPatternsEnd, ResolveLoopEnds, Goes
<1>7. CASE EvaluationEnds
  BY <1>0, <1>2, <1>7, EndsDoes DEF EvaluationEnds, EndsOutcome
<1>8. CASE ListNonMatching
  BY <1>0, <1>2, <1>8, NonMatchingDoes DEF ListNonMatching, NonMatchingOutcome
<1>9. ASSUME NEW a \in chk.queue, ResolveNext(a) PROVE Untouched'
  BY <1>0, <1>2, <1>9, ResolveNextDoes DEF ResolveNext, NextOutcome
<1>10. CASE ListRule
  <2>1. ListOutcome /\ alerts' = alerts /\ initialized' = initialized /\ chk.rule \in Rules
    BY <1>0, <1>10, ListDoes DEF ListRule, CheckTypes
  <2>2. Ids' = Ids
    BY <2>1 DEF Ids
  <2>3. \A fp \in chk'.work : RuleOf[fp] = chk.rule
    BY <1>0, <2>1, EvaluatedFacts DEF ListOutcome
  <2> QED BY <2>1, <2>2, <2>3 DEF ListOutcome, SameRule, Untouched
<1>11. CASE Write \/ WriteUnheard
  <2>1. /\ StoreOutcome /\ Stores
        /\ initialized' = initialized /\ chk'.pc \notin {"list", "init"}
    BY <1>0, <1>11, StoreDoes DEF StoreOutcome, Stores, Loop
  <2>2. CASE chk.act.op = "create"
    <3>1. Grown(NewRow(chk.act.fp, FALSE)) /\ NewRow(chk.act.fp, FALSE).fp = chk.act.fp
      BY <1>0, <2>1, <2>2, WriteRows DEF NewRow
    <3>2. RuleOf[chk.act.fp] \notin chk.todo
      BY <1>0, <2>1, <2>2 DEF ActTypes, Inserting, CheckTypes, StoreOutcome
    <3> QED BY <2>1, <3>1, <3>2 DEF Grown, StoreOutcome, SameRule, Untouched
  <2>3. CASE chk.act.op # "create"
    <3>1. OldRows /\ Ids' = Ids
      BY <1>0, <2>1, <2>3, WriteRows, RowsStay DEF ActTypes, StoreOutcome, Locals, Acts
    <3> QED BY <2>1, <3>1, UntouchedKept DEF StoreOutcome, SameRule
  <2> QED BY <2>2, <2>3
<1>12. CASE Enqueue
  BY <1>0, <1>2, <1>12, EnqueueDoes DEF Enqueue, Goes, Loop
<1>13. CASE StatementFails
  <2>1. FailOutcome /\ alerts' = alerts /\ initialized' = initialized
    BY <1>0, <1>13, FailDoes DEF StatementFails
  <2>2. CASE chk.pc = "init" /\ chk'.pc = "init" /\ chk'.work \subseteq chk.work
    <3>1. Ids' = Ids
      BY <2>1 DEF Ids
    <3> QED BY <2>1, <2>2, <3>1 DEF FailOutcome, SameRule, Untouched
  <2>3. CASE chk'.pc # "init"
    BY <1>2, <2>1, <2>3 DEF FailOutcome, Goes, Loop
  <2> QED BY <2>1, <2>2, <2>3 DEF FailOutcome, Goes, Loop
<1>14. ASSUME NEW fp \in Fingerprints, InitLogPattern(fp) PROVE Untouched'
  <2>1. InitOutcome(fp) /\ initialized' = initialized /\ Grown(NewRow(fp, TRUE))
        /\ NewRow(fp, TRUE).fp = fp
    BY <1>0, <1>14, InitDoes, InitRows DEF InitLogPattern, NewRow
  <2>2. RuleOf[fp] \notin chk.todo
    BY <1>0, <2>1 DEF CheckTypes, InitOutcome
  <2> QED BY <2>1, <2>2 DEF Grown, InitOutcome, SameRule, Untouched
<1>15. ASSUME NEW fp \in Fingerprints, Evaluate(fp) PROVE Untouched'
  BY <1>0, <1>2, <1>15, EvaluateDoes DEF Evaluate, EvaluateOutcome
<1> QED BY <1>1, <1>3, <1>4, <1>5, <1>6, <1>7, <1>8, <1>9, <1>10, <1>11, <1>12, <1>13, <1>14, <1>15,
           StepCases DEF ControlStep

-----------------------------------------------------------------------------
(* The cap of alerts per application *)

LEMMA FiresFact ==
  ASSUME alerts' = alerts, reopened' = reopened
  PROVE  Ids' = Ids /\ \A i : Fires(i)' = Fires(i)
BY DEF Ids, Fires

LEMMA GrownFacts ==
  ASSUME alerts \in Seq(Row), NEW row, Grown(row), NEW n, n = Len(alerts) + 1
  PROVE  /\ n \in Nat /\ n \notin Ids /\ n \in Ids' /\ Ids' = Ids \cup {n}
         /\ alerts'[n] = row
         /\ \A i \in Ids : i < n /\ alerts'[i] = alerts[i]
<1>1. Len(alerts) \in Nat /\ Ids = 1..Len(alerts)
  BY DEF Ids
<1>2. n \in Nat /\ \A i \in Ids : i < n
  BY <1>1
<1>3. /\ n \notin Ids /\ Ids' = Ids \cup {n} /\ alerts'[n] = row
      /\ \A i \in Ids : alerts'[i] = alerts[i]
  BY DEF Grown
<1> QED BY <1>2, <1>3

LEMMA OvertakingStep ==
  ASSUME Types, Untouched, Overtaking, Snapshot, [Next]_vars
  PROVE  Overtaking'
<1> USE DEF Types
<1>0. alerts \in Seq(Row) /\ chk \in Locals /\ CheckTypes /\ ActTypes /\ Tables
  BY DEF Tables, CheckTypes
<1>1. CASE OthersStep
  BY <1>1, OthersFacts DEF OthersDo, OldRows, Overtaking, Newer, Inserting
<1>2. ASSUME alerts' = alerts, reopened' = reopened, ~Inserting'
      PROVE  Overtaking'
  BY <1>2, FiresFact DEF Overtaking, Newer
<1>3. CASE ControlStep
  BY <1>2, <1>3, ControlFacts DEF ControlDoes
<1>4. CASE ListRule
  BY <1>0, <1>2, <1>4, ListDoes DEF ListRule, Observe, ListOutcome, Inserting
<1>5. CASE Enqueue
  BY <1>0, <1>2, <1>5, EnqueueDoes DEF Enqueue, Goes, Loop, Inserting, history
<1>6. CASE StatementFails
  BY <1>0, <1>2, <1>6, FailDoes DEF StatementFails, FailOutcome, Goes, Loop, Inserting, history
<1>7. ASSUME NEW fp \in Fingerprints, Evaluate(fp) PROVE Overtaking'
  <2>1. EvaluateOutcome(fp) /\ alerts' = alerts /\ reopened' = reopened
    BY <1>0, <1>7, EvaluateDoes DEF Evaluate
  <2>2. CASE ~Inserting'
    BY <1>2, <2>1, <2>2
  <2>3. CASE Inserting'
    <3>1. PICK a : a = chk'.act
      OBVIOUS
    <3>2. a.op = "create" /\ a.fp = fp /\ MayOpen(fp)
      BY <1>0, <2>1, <2>3, <3>1, DecidesFacts DEF EvaluateOutcome, Inserting
    <3>3. ASSUME NEW i \in Ids, alerts[i].fp = fp PROVE ~Fires(i)
      <4>1. CASE Capped(chk.rule)
        <5>1. Evaluating /\ RuleOf[fp] = chk.rule /\ fp \in chk.work /\ fp \notin chk.made
          BY <1>0, <2>1 DEF EvaluateOutcome, Evaluating, CheckTypes, ActTypes
        <5>2. \A l \in chk.listed : l.row.fp # fp
          BY <3>2, <4>1 DEF MayOpen
        <5>3. \A l \in chk.listed : l.row.fp = alerts[l.id].fp
          BY <1>0 DEF CheckTypes
        <5> QED BY <3>3, <4>1, <5>1, <5>2, <5>3 DEF Snapshot, TrueToTable
      <4>2. CASE ~Capped(chk.rule)
        BY <3>2, <3>3, <4>2 DEF MayOpen, ActiveOrSuppressed, Fires, Firing
      <4> QED BY <4>1, <4>2
    <3> QED BY <2>1, <3>1, <3>2, <3>3, FiresFact DEF Overtaking, Newer
  <2> QED BY <2>2, <2>3
<1>8. ASSUME NEW fp \in Fingerprints, InitLogPattern(fp) PROVE Overtaking'
  <2>1. InitOutcome(fp) /\ Grown(NewRow(fp, TRUE)) /\ reopened' = reopened
    BY <1>0, <1>8, InitDoes, InitRows DEF InitLogPattern, history
  <2>2. NewRow(fp, TRUE).fp = fp
    BY DEF NewRow
  <2>3. \A i \in Ids : alerts[i].fp # fp
    BY <2>1 DEF InitOutcome, Untouched
  <2>4. \A i \in Ids : Fires(i)' = Fires(i) /\ i < Len(alerts) + 1
    BY <1>0, <2>1, TableFacts DEF Grown, Fires
  <2>5. PICK n : n = Len(alerts) + 1
    OBVIOUS
  <2>6. Ids' = Ids \cup {n} /\ alerts'[n].fp = fp /\ n \in Nat
    BY <1>0, <2>1, <2>2, <2>5, GrownFacts
  <2>7. \A i, k \in Ids' : Capped(RuleOf[alerts[i].fp])' /\ Newer(k, i)' => ~Fires(i)'
    <3>1. \A i, k \in Ids : Newer(k, i)' => Newer(k, i)
      BY <2>1 DEF Grown, Newer
    <3>2. \A k \in Ids' : ~Newer(k, n)'
      BY <1>0, <2>4, <2>5, <2>6, TableFacts DEF Newer
    <3>3. \A i \in Ids : ~Newer(n, i)'
      BY <2>1, <2>3, <2>6 DEF Newer, Grown
    <3> QED BY <2>1, <2>4, <2>6, <3>1, <3>2, <3>3 DEF Overtaking, Grown
  <2>8. ~Inserting'
    BY <2>1 DEF InitOutcome, Inserting
  <2> QED BY <2>7, <2>8 DEF Overtaking
<1>9. CASE Write \/ WriteUnheard
  <2>1. Stores /\ StoreOutcome /\ reopened' = reopened /\ chk.pc = "write"
    BY <1>0, <1>9, StoreDoes DEF StoreOutcome, Stores
  <2>2. ~Inserting'
    BY <2>1 DEF StoreOutcome, Inserting, Loop
  <2>3. chk.act.op \in {"create", "update", "resolve", "clear"}
        /\ (chk.act.op \in {"update", "resolve"} => chk.act.id \in Ids)
    BY <1>0, <2>1 DEF ActTypes, Locals, Acts
  <2>4. CASE chk.act.op = "create"
    <3>1. Grown(NewRow(chk.act.fp, FALSE)) /\ NewRow(chk.act.fp, FALSE).fp = chk.act.fp
      BY <1>0, <2>1, <2>4, WriteRows DEF NewRow
    <3>2. PICK n : n = Len(alerts) + 1
      OBVIOUS
    <3>3. Ids' = Ids \cup {n} /\ alerts'[n].fp = chk.act.fp /\ n \in Nat
      BY <1>0, <3>1, <3>2, GrownFacts
    <3>4. \A i \in Ids : Fires(i)' = Fires(i) /\ i < n /\ alerts'[i].fp = alerts[i].fp
      BY <1>0, <2>1, <3>1, <3>2, TableFacts DEF Grown, Fires
    <3>5. \A i, k \in Ids : Newer(k, i)' => Newer(k, i)
      BY <3>4 DEF Newer
    <3>6. \A k \in Ids' : ~Newer(k, n)'
      BY <1>0, <3>3, <3>4, TableFacts DEF Newer
    <3>7. \A i \in Ids : Newer(n, i)' => ~Fires(i)
      BY <2>1, <2>4, <3>3, <3>4 DEF Newer, Overtaking, Inserting
    <3> QED BY <2>2, <3>3, <3>4, <3>5, <3>6, <3>7 DEF Overtaking
  <2>5. ASSUME OldRows, Ids' = Ids,
               \A i \in Ids : Fires(i)' => \/ Fires(i) \/ ~Capped(RuleOf[alerts[i].fp])
                                           \/ \A k \in Ids : ~Newer(k, i)
        PROVE  Overtaking'
    BY <2>2, <2>5 DEF Overtaking, OldRows, Newer
  <2>6. CASE chk.act.op = "clear"
    <3>1. SuppressionCleared(chk.act.fp)
      BY <1>0, <2>1, <2>6, WriteRows
    <3>2. ~Capped(RuleOf[chk.act.fp])
      BY <1>0, <2>1, <2>6 DEF ActTypes, Capped
    <3>3. OldRows /\ Ids' = Ids
      BY <3>1, RowsStay
    <3>4. \A i \in Ids : Fires(i)' => Fires(i) \/ alerts[i].fp = chk.act.fp
      BY <2>1, <3>1 DEF SuppressionCleared, Fires, Firing
    <3> QED BY <2>5, <3>2, <3>3, <3>4
  <2>7. CASE chk.act.op = "resolve"
    <3>1. Rewritten(chk.act.id, TRUE, alerts[chk.act.id].manual, alerts[chk.act.id].suppressed)
      BY <1>0, <2>1, <2>7, WriteRows
    <3>2. OldRows /\ Ids' = Ids
      BY <2>3, <2>7, <3>1, RowsStay
    <3>3. \A i \in Ids : Fires(i)' => Fires(i)
      BY <2>1, <3>1 DEF Rewritten, SameRow, Fires, Firing
    <3> QED BY <2>5, <3>2, <3>3
  <2>8. CASE chk.act.op = "update"
    <3>1. Rewritten(chk.act.id, FALSE, alerts[chk.act.id].manual, alerts[chk.act.id].suppressed)
      BY <1>0, <2>1, <2>8, WriteRows
    <3>2. OldRows /\ Ids' = Ids
      BY <2>3, <2>8, <3>1, RowsStay
    <3>3. \A i \in Ids : i # chk.act.id => (Fires(i)' => Fires(i))
      BY <2>1, <3>1 DEF Rewritten, SameRow, Fires, Firing
    <3>4. PICK n : n = chk.act.id
      OBVIOUS
    <3>5. ASSUME Fires(n)', Capped(RuleOf[alerts[n].fp]), NEW k \in Ids, Newer(k, n)
          PROVE  FALSE
      <4>1. Evaluating /\ Capped(chk.rule)
        BY <1>0, <2>1, <2>8, <3>4, <3>5 DEF Evaluating, ActTypes
      <4>2. PICK l \in chk.listed : l.id = n
        BY <1>0, <2>1, <2>8, <3>4, <4>1 DEF ActTypes
      <4>3. n \in reopened \/ alerts[n].manual \/ alerts[n].suppressed
        BY <3>5, <4>1, <4>2 DEF Snapshot, TrueToTable
      <4> QED BY <2>1, <3>1, <3>4, <3>5, <4>3 DEF Fires, Firing, Rewritten
    <3> QED BY <2>3, <2>5, <2>8, <3>2, <3>3, <3>4, <3>5
  <2> QED BY <2>3, <2>4, <2>6, <2>7, <2>8
<1> QED BY <1>1, <1>3, <1>4, <1>5, <1>6, <1>7, <1>8, <1>9, StepCases

LEMMA SnapshotIs ==
  /\ Snapshot <=> (Evaluating /\ Capped(chk.rule) => TrueToTable(chk.rule))
  /\ Snapshot' <=> (Evaluating' /\ Capped(chk'.rule) => TrueToTable(chk.rule)')
BY DEF Snapshot, Capped

\* The listing of a rule, at the moment it is made.
LEMMA SnapshotListed ==
  ASSUME Types, Overtaking, chk.rule \in Rules, Capped(chk.rule),
         alerts' = alerts, reopened' = reopened, chk'.rule = chk.rule,
         chk'.made = {}, chk'.listed = Listing(chk.rule)
  PROVE  TrueToTable(chk.rule)'
<1>0. alerts \in Seq(Row)
  BY DEF Types, Tables
<1>1. Ids' = Ids /\ \A i : Fires(i)' = Fires(i)
  BY FiresFact
<1>2. ASSUME NEW i \in Ids, RuleOf[alerts[i].fp] = chk.rule, Fires(i)
      PROVE  \E l \in Listing(chk.rule) : l.id = i /\ Counts(l)
  <2>1. ~alerts[i].resolved
    BY <1>2 DEF Fires, Firing
  <2>2. PICK l \in Listing(chk.rule) : alerts[l.id].fp = alerts[i].fp /\ l.id >= i
    BY <1>0, <1>2, <2>1, ListingFacts
  <2>3. l.id \in Ids /\ l.row = alerts[l.id] /\ l.id \in Nat /\ i \in Nat
    BY <1>0, <2>2, ListingFacts, TableFacts
  <2>4. l.id = i
    <3> SUFFICES ASSUME l.id # i PROVE FALSE
      OBVIOUS
    <3>1. Newer(l.id, i)
      BY <2>2, <2>3 DEF Newer
    <3> QED BY <1>2, <2>3, <3>1 DEF Overtaking
  <2> QED BY <1>2, <2>2, <2>3, <2>4 DEF Counts, Fires, Firing
<1>3. ASSUME NEW l \in Listing(chk.rule)
      PROVE  /\ ~Counts(l) => alerts[l.id].manual \/ alerts[l.id].suppressed
             /\ \A k \in Ids : Newer(k, l.id) => l.id \in reopened \/ ~Counts(l)
  <2>1. /\ l.id \in Ids /\ l.row = alerts[l.id] /\ ~alerts[l.id].resolved
        /\ RuleOf[alerts[l.id].fp] = chk.rule
    BY <1>0, <1>3, ListingFacts
  <2>2. ASSUME NEW k \in Ids, Newer(k, l.id) PROVE l.id \in reopened \/ ~Counts(l)
    <3>1. ~Fires(l.id)
      BY <2>1, <2>2 DEF Overtaking
    <3> QED BY <2>1, <3>1 DEF Fires, Firing, Counts
  <2> QED BY <2>1, <2>2 DEF Counts
<1>4. \A k, i : Newer(k, i)' = Newer(k, i)
  BY DEF Newer
<1> QED BY <1>1, <1>2, <1>3, <1>4 DEF TrueToTable

LEMMA SnapshotStep ==
  ASSUME Types, Overtaking, Snapshot, [Next]_vars
  PROVE  Snapshot'
<1> USE DEF Types
<1>0. alerts \in Seq(Row) /\ chk \in Locals /\ CheckTypes /\ ActTypes /\ Tables
  BY DEF Tables, CheckTypes
<1>1. CASE OthersStep
  <2>1. OthersDo
    BY <1>1, OthersFacts
  <2>2. Evaluating' = Evaluating
    BY <2>1 DEF OthersDo, Evaluating
  <2>3. \A l \in chk.listed : l.id \in Ids
    BY <1>0 DEF CheckTypes
  <2>4. \A l \in chk.listed, k \in Ids : Newer(k, l.id)' => Newer(k, l.id)
    BY <2>1, <2>3 DEF OthersDo, OldRows, Newer
  <2>5. ASSUME TrueToTable(chk.rule) PROVE TrueToTable(chk.rule)'
    BY <2>1, <2>3, <2>4, <2>5 DEF OthersDo, OldRows, TrueToTable, Counts
  <2> QED BY <2>1, <2>2, <2>5, SnapshotIs DEF OthersDo
<1>2. CASE ControlStep
  BY <1>2, ControlFacts, SnapshotIs DEF ControlDoes
<1>3. ASSUME alerts' = alerts, reopened' = reopened, unheard' = unheard, chk'.rule = chk.rule,
             Evaluating' => Evaluating, chk'.listed = chk.listed, chk'.made = chk.made,
             chk'.work \subseteq chk.work
      PROVE  Snapshot'
  <2>1. TrueToTable(chk.rule) => TrueToTable(chk.rule)'
    BY <1>3, FiresFact DEF TrueToTable, Newer, Counts
  <2> QED BY <1>3, <2>1, SnapshotIs
<1>4. CASE ListRule
  <2>1. ListOutcome /\ alerts' = alerts /\ reopened' = reopened /\ chk.rule \in Rules
    BY <1>0, <1>4, ListDoes DEF ListRule, Observe, CheckTypes
  <2> QED BY <2>1, SnapshotListed, SnapshotIs DEF ListOutcome, SameRule
<1>5. CASE Enqueue
  BY <1>0, <1>3, <1>5, EnqueueDoes
     DEF Enqueue, Goes, SameRule, SameSnapshot, Loop, Evaluating, history
<1>6. CASE StatementFails
  <2>1. /\ FailOutcome /\ alerts' = alerts /\ chk'.rule = chk.rule
        /\ reopened' = reopened /\ unheard' = unheard
    BY <1>0, <1>6, FailDoes DEF StatementFails, FailOutcome, SameRule, history
  <2>2. CASE /\ chk.pc = "list" /\ RuleType[chk.rule] = "k8s"
             /\ chk'.made = {} /\ chk'.listed = Listing(chk.rule)
    BY <1>0, <2>1, <2>2, SnapshotListed, SnapshotIs DEF CheckTypes, Capped
  <2>3. CASE chk'.pc \in {"nonmatching", "rules", "init"}
    BY <2>3, SnapshotIs DEF Evaluating
  <2>4. CASE /\ chk.pc = "eval" /\ chk'.made = chk.made /\ chk'.listed = chk.listed
             /\ chk'.work \subseteq chk.work
    BY <1>3, <2>1, <2>4 DEF Evaluating
  <2>5. CASE /\ chk.pc = "write" /\ chk'.pc = Loop /\ chk'.made = chk.made \ {chk.act.fp}
             /\ chk'.listed = chk.listed /\ chk'.phase = chk.phase /\ chk'.work = chk.work
    <3> SUFFICES ASSUME Evaluating', Capped(chk.rule) PROVE TrueToTable(chk.rule)'
      BY <2>1, SnapshotIs
    <3>1. chk.phase = "eval" /\ Evaluating
      BY <2>5 DEF Evaluating, Loop
    <3>2. TrueToTable(chk.rule)
      BY <3>1, SnapshotIs
    <3>3. \A i \in Ids : alerts[i].fp \in Fingerprints
      BY <1>0, TableFacts
    <3>4. ASSUME NEW i \in Ids, alerts[i].fp = chk.act.fp PROVE ~Fires(i)
      <4>1. chk.act.fp # None
        BY <3>3, <3>4, AlertsAssumption
      <4>2. chk.act.op = "create"
        BY <1>0, <2>5, <3>1, <4>1 DEF ActTypes, Capped, Locals, Acts
      <4> QED BY <2>5, <3>4, <4>2 DEF Overtaking, Inserting
    <3> QED BY <2>1, <2>5, <3>2, <3>4, FiresFact DEF TrueToTable, Newer, Counts
  <2> QED BY <2>1, <2>2, <2>3, <2>4, <2>5 DEF FailOutcome, Goes, SameSnapshot
<1>7. ASSUME NEW fp \in Fingerprints, InitLogPattern(fp) PROVE Snapshot'
  BY <1>0, <1>7, InitDoes, SnapshotIs DEF InitOutcome, Evaluating
<1>8. ASSUME NEW fp \in Fingerprints, Evaluate(fp) PROVE Snapshot'
  <2>1. EvaluateOutcome(fp) /\ alerts' = alerts /\ reopened' = reopened /\ unheard' = unheard
    BY <1>0, <1>8, EvaluateDoes DEF Evaluate
  <2>2. /\ chk'.rule = chk.rule /\ chk'.listed = chk.listed /\ Evaluating
        /\ chk'.work \subseteq chk.work
    BY <2>1 DEF EvaluateOutcome, SameRule, Evaluating
  <2>3. CASE chk'.made = chk.made
    BY <1>3, <2>1, <2>2, <2>3
  <2>4. CASE chk'.made = chk.made \cup {fp} /\ chk'.act.op = "create"
    <3> SUFFICES ASSUME Capped(chk.rule) PROVE TrueToTable(chk.rule)'
      BY <2>2, SnapshotIs
    <3>1. TrueToTable(chk.rule)
      BY <2>2, SnapshotIs
    <3>2. PICK a : a = chk'.act
      OBVIOUS
    <3>3. \A l \in chk.listed : l.row.fp # fp
      BY <1>0, <2>1, <2>4, <3>2, DecidesFacts DEF EvaluateOutcome, MayOpen
    <3> QED BY <2>1, <2>2, <2>4, <3>1, <3>3, FiresFact DEF TrueToTable, Newer, Counts
  <2> QED BY <2>1, <2>3, <2>4 DEF EvaluateOutcome
<1>9. CASE Write \/ WriteUnheard
  <2>1. Stores /\ StoreOutcome /\ reopened' = reopened /\ chk.pc = "write"
    BY <1>0, <1>9, StoreDoes DEF StoreOutcome, Stores
  <2> SUFFICES ASSUME Evaluating', Capped(chk.rule) PROVE TrueToTable(chk.rule)'
    BY <2>1, SnapshotIs DEF StoreOutcome, SameRule
  <2>2. chk.phase = "eval" /\ Evaluating
    BY <2>1 DEF StoreOutcome, Evaluating, Loop
  <2>3. TrueToTable(chk.rule)
    BY <2>2, SnapshotIs
  <2>4. /\ chk'.made \subseteq chk.made /\ chk'.listed = chk.listed /\ chk'.rule = chk.rule
        /\ chk'.work = chk.work
    BY <2>1 DEF StoreOutcome, SameRule
  <2>5. chk.act.op \in {"create", "update"}
    BY <1>0, <2>1, <2>2 DEF ActTypes, Capped, Locals, Acts
  <2>6. \A l \in chk.listed : l.id \in Ids /\ l.row.fp = alerts[l.id].fp
    BY <1>0 DEF CheckTypes
  <2>9. chk'.made = chk.made \/ chk'.made = chk.made \ {chk.act.fp}
    BY <1>0, <1>9, WriteDoes, UnheardDoes DEF WriteOutcome, SameSnapshot, UnheardOutcome
  <2>10. unheard \subseteq unheard'
    BY <1>9 DEF Write, WriteUnheard
  <2>7. CASE chk.act.op = "create"
    <3>1. Grown(NewRow(chk.act.fp, FALSE)) /\ NewRow(chk.act.fp, FALSE).fp = chk.act.fp
      BY <1>0, <2>1, <2>7, WriteRows DEF NewRow
    <3>2. PICK n : n = Len(alerts) + 1
      OBVIOUS
    <3>3. /\ n \in Nat /\ Ids' = Ids \cup {n} /\ alerts'[n].fp = chk.act.fp
          /\ \A i \in Ids : alerts'[i] = alerts[i]
      BY <1>0, <3>1, <3>2, GrownFacts
    <3>4. chk.act.fp \in chk.made /\ chk.act.fp \notin chk.work
      BY <1>0, <2>1, <2>7 DEF ActTypes, Inserting
    <3>5. \A i \in Ids : Fires(i)' = Fires(i)
      BY <2>1, <3>3 DEF Fires
    <3>6. ASSUME NEW l \in chk.listed, NEW k \in Ids', Newer(k, l.id)'
          PROVE  k \in Ids /\ Newer(k, l.id)
      <4>1. alerts'[l.id].fp = l.row.fp /\ l.row.fp \notin chk.made
        BY <2>3, <2>6, <3>3 DEF TrueToTable
      <4>2. k \in Ids
        BY <2>6, <3>3, <3>4, <3>6, <4>1 DEF Newer
      <4> QED BY <2>6, <3>3, <3>6, <4>2 DEF Newer
    <3>7. chk.act.fp \in chk'.made \/ n \in unheard'
      BY <1>0, <1>9, <2>7, <3>2, <3>4, WriteDoes DEF WriteOutcome, SameSnapshot, WriteUnheard
    <3>8. \A i \in Ids : Fires(i) => alerts[i].fp # chk.act.fp
      BY <2>1, <2>7 DEF Overtaking, Inserting
    <3>9. ASSUME NEW i \in Ids', RuleOf[alerts'[i].fp] = chk.rule, Fires(i)'
          PROVE  \/ alerts'[i].fp \in chk'.made
                 \/ \E l \in chk.listed : l.id = i /\ Counts(l)
                 \/ i \in unheard' /\ alerts'[i].fp \notin chk.work
      <4>1. CASE i = n
        BY <3>3, <3>4, <3>7, <4>1
      <4>2. CASE i \in Ids
        BY <2>3, <2>9, <2>10, <3>3, <3>5, <3>8, <3>9, <4>2 DEF TrueToTable
      <4> QED BY <3>3, <4>1, <4>2
    <3> QED BY <2>1, <2>3, <2>4, <2>6, <3>3, <3>5, <3>6, <3>9 DEF TrueToTable, Counts
  <2>8. CASE chk.act.op = "update"
    <3>0. PICK n : n = chk.act.id
      OBVIOUS
    <3>1. n \in Ids /\ Rewritten(n, FALSE, alerts[n].manual, alerts[n].suppressed)
      BY <1>0, <2>1, <2>8, <3>0, WriteRows DEF ActTypes
    <3>2. PICK m \in chk.listed : m.id = n
      BY <1>0, <2>1, <2>8, <3>0 DEF ActTypes
    <3>3. OldRows /\ Ids' = Ids
      BY <3>1, RowsStay
    <3>4. \A i \in Ids : i # n => (Fires(i)' => Fires(i))
      BY <2>1, <3>1 DEF Rewritten, SameRow, Fires, Firing
    <3>5. \A i \in Ids : alerts'[i].manual = alerts[i].manual
                         /\ alerts'[i].suppressed = alerts[i].suppressed
      BY <3>1 DEF Rewritten, SameRow
    <3>6. Fires(n)' => Counts(m)
      BY <2>1, <2>3, <3>1, <3>2, <3>5 DEF TrueToTable, Fires, Firing
    <3>7. \A l \in chk.listed, k \in Ids : Newer(k, l.id)' => Newer(k, l.id)
      BY <2>6, <3>3 DEF OldRows, Newer
    <3>8. ASSUME NEW i \in Ids, RuleOf[alerts[i].fp] = chk.rule, Fires(i)'
          PROVE  \/ alerts[i].fp \in chk.made
                 \/ \E l \in chk.listed : l.id = i /\ Counts(l)
                 \/ i \in unheard /\ alerts[i].fp \notin chk.work
      <4>1. CASE i = n
        BY <3>2, <3>6, <3>8, <4>1
      <4>2. CASE i # n
        BY <2>3, <3>4, <3>8, <4>2 DEF TrueToTable
      <4> QED BY <4>1, <4>2
    <3>9. \A i \in Ids : alerts'[i].fp = alerts[i].fp
      BY <3>3 DEF OldRows
    <3>10. chk'.made = chk.made
      <4>1. chk.act.fp = None /\ chk.made \subseteq Fingerprints
        BY <1>0, <2>1, <2>8 DEF ActTypes, Locals
      <4>2. None \notin Fingerprints
        BY AlertsAssumption
      <4>3. chk.act.fp \notin chk.made
        BY <4>1, <4>2
      <4>4. chk.made \ {chk.act.fp} = chk.made
        BY <4>3
      <4> QED BY <2>9, <4>4
    <3> QED BY <2>1, <2>3, <2>4, <2>6, <2>10, <3>3, <3>5, <3>7, <3>8, <3>9, <3>10
            DEF TrueToTable, Counts
  <2> QED BY <2>5, <2>7, <2>8
<1> QED BY <1>1, <1>2, <1>4, <1>5, <1>6, <1>7, <1>8, <1>9, StepCases

\* The alerts that the cap of rule r and application a is about.
Open(r, a) == {i \in Ids \ Uncounted : /\ RuleOf[alerts[i].fp] = r /\ alerts[i].app = a
                                       /\ Firing(alerts[i])}

LEMMA CapIs ==
  /\ CapRespected <=> \A r \in Rules, a \in Apps : Capped(r) => Cardinality(Open(r, a)) <= MaxAlertsPerApp
  /\ CapRespected' <=> \A r \in Rules, a \in Apps : Capped(r) => Cardinality(Open(r, a)') <= MaxAlertsPerApp
BY DEF CapRespected, Capped, Open

LEMMA OneToOne ==
  ASSUME NEW S, NEW T, IsFiniteSet(T), NEW f \in [S -> T], \A x, y \in S : f[x] = f[y] => x = y
  PROVE  IsFiniteSet(S) /\ Cardinality(S) <= Cardinality(T)
<1>1. f \in Injection(S, T)
  BY DEF Injection, IsInjective
<1> QED BY <1>1, FS_Injection

\* The rows that are active are the ones the evaluation counts or opened.
LEMMA CountBounds ==
  Types /\ Overtaking /\ Snapshot /\ Counting /\ Evaluating /\ Capped(chk.rule)
     => \A a \in Apps : Cardinality(Open(chk.rule, a)) <= MaxAlertsPerApp
<1> SUFFICES ASSUME Types, Overtaking, Snapshot, Counting, Evaluating, Capped(chk.rule), NEW a \in Apps
             PROVE  Cardinality(Open(chk.rule, a)) <= MaxAlertsPerApp
  OBVIOUS
<1>0. /\ alerts \in Seq(Row) /\ RowApps /\ CheckTypes /\ chk \in Locals /\ MaxAlertsPerApp \in Nat
      /\ NoApp \notin Apps
  BY AlertsAssumption DEF Types, Tables, CheckTypes
<1>1. TrueToTable(chk.rule)
  BY DEF Snapshot
<1> DEFINE O == Open(chk.rule, a)
           O1 == {i \in O : alerts[i].fp \notin chk.made}
           O2 == {i \in O : alerts[i].fp \in chk.made}
           C == {l \in Counted(a) : l.id \notin Uncounted}
<1>2. O \subseteq Ids /\ \A i \in O : /\ i \in Nat /\ i \notin Uncounted
                                      /\ alerts[i].fp \in Fingerprints
                                      /\ RuleOf[alerts[i].fp] = chk.rule
                                      /\ alerts[i].app = a /\ Fires(i)
  BY <1>0, TableFacts DEF Open, Fires, Uncounted
<1>3. IsFiniteSet(C) /\ IsFiniteSet(Counted(a)) /\ IsFiniteSet(Made(a))
      /\ Cardinality(C) <= Cardinality(Counted(a))
  <2>1. Counted(a) \subseteq chk.listed /\ Made(a) \subseteq chk.made /\ C \subseteq Counted(a)
    BY DEF Counted, Made
  <2> HIDE DEF C
  <2> QED BY <2>1, FS_Subset DEF Counting
<1>4. /\ Cardinality(C) <= MaxAlertsPerApp
      /\ Made(a) # {} => Cardinality(Counted(a)) + Cardinality(Made(a)) <= MaxAlertsPerApp
  BY DEF Counting, Within
<1>5. IsFiniteSet(O1) /\ Cardinality(O1) <= Cardinality(C)
  <2>1. \A i \in O1 : \E l \in C : l.id = i
    <3> SUFFICES ASSUME NEW i \in O1 PROVE \E l \in C : l.id = i
      OBVIOUS
    <3>1. PICK l \in chk.listed : l.id = i /\ Counts(l)
      BY <1>1, <1>2 DEF TrueToTable, Uncounted
    <3>2. l.row.app = a
      BY <1>0, <1>2, <3>1 DEF CheckTypes
    <3> QED BY <1>2, <3>1, <3>2 DEF Counted, Counts
  <2> DEFINE f == [i \in O1 |-> CHOOSE l \in C : l.id = i]
  <2>2. \A i \in O1 : f[i] \in C /\ f[i].id = i
    BY <2>1
  <2> HIDE DEF f, O1, C
  <2>3. f \in [O1 -> C] /\ \A x, y \in O1 : f[x] = f[y] => x = y
    <3>1. f \in [O1 -> C]
      BY <2>2 DEF f
    <3> QED BY <2>2, <3>1
  <2> QED BY <1>3, <2>3, OneToOne
<1>6. IsFiniteSet(O2) /\ Cardinality(O2) <= Cardinality(Made(a))
  <2>1. \A i \in O2 : alerts[i].fp \in Made(a)
    <3> SUFFICES ASSUME NEW i \in O2 PROVE alerts[i].fp \in Made(a)
      OBVIOUS
    <3>1. i \in Ids /\ alerts[i].app = a /\ alerts[i].fp \in chk.made
      BY <1>2
    <3>2. AppOf[alerts[i].fp] = a
      BY <1>0, <3>1 DEF RowApps
    <3> QED BY <3>1, <3>2 DEF Made
  <2>2. ASSUME NEW x \in O2, NEW y \in O2, alerts[x].fp = alerts[y].fp PROVE x = y
    <3>1. x \in Ids /\ y \in Ids /\ x \in Nat /\ y \in Nat /\ Fires(x) /\ Fires(y)
          /\ Capped(RuleOf[alerts[x].fp]) /\ Capped(RuleOf[alerts[y].fp])
      BY <1>2
    <3>2. ~Newer(x, y) /\ ~Newer(y, x)
      BY <3>1 DEF Overtaking
    <3> QED BY <2>2, <3>1, <3>2 DEF Newer
  <2> DEFINE f == [i \in O2 |-> alerts[i].fp]
  <2>3. f \in [O2 -> Made(a)] /\ \A x, y \in O2 : f[x] = f[y] => x = y
    BY <2>1, <2>2
  <2> HIDE DEF f, O2
  <2> QED BY <1>3, <2>3, OneToOne
<1>7. O = O1 \cup O2 /\ O1 \cap O2 = {}
  OBVIOUS
<1> HIDE DEF O, O1, O2, C
<1>8. Cardinality(O) = Cardinality(O1) + Cardinality(O2)
  <2>1. Cardinality(O1 \cap O2) = 0 /\ Cardinality(O1) \in Nat /\ Cardinality(O2) \in Nat
    BY <1>5, <1>6, <1>7, FS_EmptySet, FS_CardinalityType
  <2>2. Cardinality(O1 \cup O2) = Cardinality(O1) + Cardinality(O2) - Cardinality(O1 \cap O2)
    BY <1>5, <1>6, FS_Union
  <2> QED BY <1>7, <2>1, <2>2
<1>9. /\ Cardinality(O1) \in Nat /\ Cardinality(O2) \in Nat /\ Cardinality(C) \in Nat
      /\ Cardinality(Counted(a)) \in Nat /\ Cardinality(Made(a)) \in Nat
      /\ Made(a) = {} => Cardinality(Made(a)) = 0
  BY <1>3, <1>5, <1>6, FS_CardinalityType, FS_EmptySet
<1>10. Cardinality(O) <= MaxAlertsPerApp
  <2>1. CASE Made(a) = {}
    BY <1>0, <1>4, <1>5, <1>6, <1>8, <1>9, <2>1
  <2>2. CASE Made(a) # {}
    BY <1>0, <1>3, <1>4, <1>5, <1>6, <1>8, <1>9, <2>2
  <2> QED BY <2>1, <2>2
<1> QED BY <1>10 DEF O

LEMMA CountBoundsAfter ==
  Types' /\ Overtaking' /\ Snapshot' /\ Counting' /\ Evaluating' /\ Capped(chk.rule)'
     => (\A a \in Apps : Cardinality(Open(chk.rule, a)) <= MaxAlertsPerApp)'
BY CountBounds, PTL

LEMMA CountingIs ==
  /\ Counting <=> /\ IsFiniteSet(chk.listed) /\ IsFiniteSet(chk.made)
                  /\ Evaluating /\ Capped(chk.rule) => \A a \in Apps : Within(a)
  /\ Counting' <=> /\ IsFiniteSet(chk'.listed) /\ IsFiniteSet(chk'.made)
                   /\ Evaluating' /\ Capped(chk'.rule) => \A a \in Apps : Within(a)'
BY DEF Counting, Capped

\* Forgetting what was to be opened, and reopening rows, counts no more.
LEMMA WithinFewer ==
  ASSUME IsFiniteSet(chk.listed), IsFiniteSet(chk.made), chk'.listed = chk.listed,
         chk'.made \subseteq chk.made, Uncounted \subseteq Uncounted', NEW a, Within(a)
  PROVE  Within(a)'
<1> DEFINE C == {l \in Counted(a) : l.id \notin Uncounted}
           D == {l \in Counted(a) : l.id \notin Uncounted'}
<1>1. Counted(a)' = Counted(a) /\ Made(a)' \subseteq Made(a)
  BY DEF Counted, Made
<1>2. /\ IsFiniteSet(Counted(a)) /\ IsFiniteSet(Made(a)) /\ IsFiniteSet(Made(a)') /\ IsFiniteSet(C)
      /\ IsFiniteSet(D) /\ Cardinality(D) <= Cardinality(C)
      /\ Cardinality(Made(a)') <= Cardinality(Made(a))
  <2>1. Counted(a) \subseteq chk.listed /\ Made(a) \subseteq chk.made
    BY DEF Counted, Made
  <2>2. IsFiniteSet(Counted(a)) /\ IsFiniteSet(Made(a))
    BY <2>1, FS_Subset
  <2>3. C \subseteq Counted(a) /\ D \subseteq C
    OBVIOUS
  <2> HIDE DEF C, D
  <2>4. IsFiniteSet(C)
    BY <2>2, <2>3, FS_Subset
  <2> QED BY <1>1, <2>2, <2>3, <2>4, FS_Subset
<1>3. /\ Cardinality(Counted(a)) \in Nat /\ Cardinality(Made(a)) \in Nat
      /\ Cardinality(Made(a)') \in Nat /\ Cardinality(C) \in Nat /\ Cardinality(D) \in Nat
  <2> HIDE DEF C, D
  <2> QED BY <1>2, FS_CardinalityType
<1>4. MaxAlertsPerApp \in Nat
  BY AlertsAssumption
<1>5. /\ Cardinality(C) <= MaxAlertsPerApp
      /\ Made(a) # {} => Cardinality(Counted(a)) + Cardinality(Made(a)) <= MaxAlertsPerApp
  BY DEF Within
<1>6. D = {l \in Counted(a) : l.id \notin Uncounted}'
  BY <1>1
<1> HIDE DEF C, D
<1>7. Cardinality(D) <= MaxAlertsPerApp
  BY <1>2, <1>3, <1>4, <1>5
<1>8. ASSUME Made(a)' # {} PROVE Cardinality(Counted(a)) + Cardinality(Made(a)') <= MaxAlertsPerApp
  BY <1>1, <1>2, <1>3, <1>4, <1>5, <1>8
<1> QED BY <1>1, <1>6, <1>7, <1>8 DEF Within

\* The listing of a rule counts no more than the table has.
LEMMA WithinListed ==
  ASSUME Types, CapRespected, chk.rule \in Rules, Capped(chk.rule), Uncounted' = Uncounted,
         chk'.made = {}, chk'.listed = Listing(chk.rule), NEW a \in Apps
  PROVE  Within(a)'
<1> DEFINE C == {l \in Listing(chk.rule) : /\ l.row.app = a /\ ~l.row.manual /\ ~l.row.suppressed
                                           /\ l.id \notin Uncounted}
           O == Open(chk.rule, a)
           f == [l \in C |-> l.id]
<1>0. alerts \in Seq(Row)
  BY DEF Types, Tables
<1>1. \A l \in C : /\ l \in Listed /\ l.id \in O /\ l.row = alerts[l.id]
  BY <1>0, ListingFacts DEF Open, Firing
<1>2. \A x, y \in C : x.id = y.id => x = y
  BY <1>1 DEF Listed
<1>3. IsFiniteSet(O)
  BY <1>0, TableFacts, FS_Subset DEF Open
<1>4. f \in [C -> O] /\ \A x, y \in C : f[x] = f[y] => x = y
  BY <1>1, <1>2
<1>5. Cardinality(O) <= MaxAlertsPerApp
  BY CapIs
<1>6. C = {l \in Counted(a) : l.id \notin Uncounted}' /\ Made(a)' = {}
  BY DEF Counted, Made
<1> HIDE DEF C, O, f
<1>7. IsFiniteSet(C) /\ Cardinality(C) <= Cardinality(O)
  BY <1>3, <1>4, OneToOne
<1>8. Cardinality(C) \in Nat /\ Cardinality(O) \in Nat /\ MaxAlertsPerApp \in Nat
  BY <1>3, <1>7, FS_CardinalityType, AlertsAssumption
<1>9. Cardinality(C) <= MaxAlertsPerApp
  BY <1>5, <1>7, <1>8
<1> QED BY <1>6, <1>9 DEF Within

\* A new alert is below the cap.
LEMMA WithinOpened ==
  ASSUME Types, Counting, NEW fp \in Fingerprints, fp \notin chk.made, MayOpen(fp), Capped(chk.rule),
         chk'.made = chk.made \cup {fp}, chk'.listed = chk.listed, Uncounted' = Uncounted,
         NEW a \in Apps, Within(a)
  PROVE  Within(a)'
<1>1. Counted(a)' = Counted(a) /\ IsFiniteSet(chk.listed) /\ IsFiniteSet(chk.made)
  BY CountingIs DEF Counted
<1>2. Cardinality({l \in Counted(a) : l.id \notin Uncounted}') <= MaxAlertsPerApp
  <2>1. {l \in Counted(a) : l.id \notin Uncounted}' = {l \in Counted(a) : l.id \notin Uncounted}
    BY <1>1
  <2> QED BY <2>1 DEF Within
<1>3. CASE AppOf[fp] # a
  <2>1. Made(a)' = Made(a)
    BY <1>3 DEF Made
  <2> QED BY <1>1, <1>2, <2>1 DEF Within
<1>4. CASE AppOf[fp] = a
  <2>1. Made(a)' = Made(a) \cup {fp} /\ fp \notin Made(a)
    BY <1>4 DEF Made
  <2>2. Counted(a) \subseteq chk.listed /\ Made(a) \subseteq chk.made
    BY DEF Counted, Made
  <2>3. IsFiniteSet(Counted(a)) /\ IsFiniteSet(Made(a))
    BY <1>1, <2>2, FS_Subset
  <2>4. Cardinality(Counted(a)) \in Nat /\ Cardinality(Made(a)) \in Nat /\ MaxAlertsPerApp \in Nat
    BY <2>3, FS_CardinalityType, AlertsAssumption
  <2>5. Cardinality(Made(a)') = Cardinality(Made(a)) + 1
    BY <2>1, <2>3, FS_AddElement
  <2>6. FiringCount(fp) = Cardinality(Counted(a)) + Cardinality(Made(a))
    BY <1>4 DEF FiringCount, Counted, Made
  <2>7. ~(FiringCount(fp) >= MaxAlertsPerApp)
    BY <1>4 DEF MayOpen
  <2>8. Cardinality(Counted(a)) + Cardinality(Made(a)') <= MaxAlertsPerApp
    BY <2>4, <2>5, <2>6, <2>7
  <2> QED BY <1>1, <1>2, <2>8 DEF Within
<1> QED BY <1>3, <1>4

LEMMA CountingStep ==
  ASSUME Types, Counting, CapRespected, [Next]_vars
  PROVE  Counting'
<1> USE DEF Types
<1>0. /\ alerts \in Seq(Row) /\ chk \in Locals /\ CheckTypes /\ ActTypes /\ Tables
      /\ IsFiniteSet(chk.listed) /\ IsFiniteSet(chk.made)
  BY CountingIs DEF Tables, CheckTypes
<1>1. ASSUME chk'.rule = chk.rule, chk'.listed = chk.listed, chk'.made \subseteq chk.made,
             Uncounted \subseteq Uncounted', Evaluating' => Evaluating
      PROVE  Counting'
  <2>1. IsFiniteSet(chk'.listed) /\ IsFiniteSet(chk'.made)
    BY <1>0, <1>1, FS_Subset
  <2>2. ASSUME NEW a \in Apps, Within(a) PROVE Within(a)'
    BY <1>0, <1>1, <2>2, WithinFewer
  <2> QED BY <1>1, <2>1, <2>2, CountingIs
<1>2. CASE OthersStep
  BY <1>1, <1>2, OthersFacts DEF OthersDo, Evaluating, Uncounted
<1>3. CASE ControlStep
  <2>1. ControlDoes
    BY <1>3, ControlFacts
  <2> QED BY <1>0, <2>1, FS_EmptySet, CountingIs DEF ControlDoes
<1>4. ASSUME chk.rule \in Rules, chk'.rule = chk.rule, chk'.made = {}, Uncounted' = Uncounted,
             chk'.listed = IF Capped(chk.rule) THEN Listing(chk.rule) ELSE {}
      PROVE  Counting'
  <2>1. IsFiniteSet(chk'.listed) /\ IsFiniteSet(chk'.made)
    BY <1>0, <1>4, ListingFacts, FS_EmptySet
  <2>2. ASSUME NEW a \in Apps, Capped(chk.rule) PROVE Within(a)'
    BY <1>4, <2>2, WithinListed
  <2> QED BY <1>4, <2>1, <2>2, CountingIs
<1>5. CASE ListRule
  BY <1>0, <1>4, <1>5, ListDoes DEF ListRule, Observe, ListOutcome, SameRule, CheckTypes, Uncounted
<1>6. CASE Enqueue
  BY <1>0, <1>1, <1>6, EnqueueDoes
     DEF Enqueue, Goes, SameRule, SameSnapshot, Loop, Evaluating, history, Uncounted
<1>7. CASE StatementFails
  <2>1. FailOutcome /\ Uncounted' = Uncounted /\ chk'.rule = chk.rule
    BY <1>0, <1>7, FailDoes DEF StatementFails, FailOutcome, SameRule, history, Uncounted
  <2>2. CASE /\ chk.pc = "list" /\ RuleType[chk.rule] = "k8s"
             /\ chk'.made = {} /\ chk'.listed = Listing(chk.rule)
    BY <1>0, <1>4, <2>1, <2>2 DEF CheckTypes, Capped
  <2>3. CASE chk'.listed = chk.listed /\ chk'.made \subseteq chk.made /\ (Evaluating' => Evaluating)
    BY <1>1, <2>1, <2>3
  <2> QED BY <2>1, <2>2, <2>3 DEF FailOutcome, Goes, SameSnapshot, Evaluating, Loop
<1>8. ASSUME NEW fp \in Fingerprints, InitLogPattern(fp) PROVE Counting'
  BY <1>0, <1>1, <1>8, InitDoes
     DEF InitLogPattern, InitOutcome, SameRule, Evaluating, history, Uncounted
<1>9. ASSUME NEW fp \in Fingerprints, Evaluate(fp) PROVE Counting'
  <2>1. EvaluateOutcome(fp) /\ Uncounted' = Uncounted
    BY <1>0, <1>9, EvaluateDoes DEF Evaluate, Uncounted
  <2>2. /\ chk'.rule = chk.rule /\ chk'.listed = chk.listed /\ Evaluating
        /\ fp \notin chk.made
    BY <1>0, <2>1 DEF EvaluateOutcome, SameRule, Evaluating, ActTypes
  <2>3. CASE chk'.made = chk.made
    BY <1>1, <2>1, <2>2, <2>3
  <2>4. CASE chk'.made = chk.made \cup {fp} /\ chk'.act.op = "create"
    <3>1. PICK a : a = chk'.act
      OBVIOUS
    <3>2. MayOpen(fp)
      BY <1>0, <2>1, <2>4, <3>1, DecidesFacts DEF EvaluateOutcome
    <3>3. IsFiniteSet(chk'.made)
      BY <1>0, <2>4, FS_AddElement
    <3>4. ASSUME NEW b \in Apps, Capped(chk.rule), Within(b) PROVE Within(b)'
      BY <2>1, <2>2, <2>4, <3>2, <3>4, WithinOpened
    <3> QED BY <1>0, <2>2, <3>3, <3>4, CountingIs
  <2> QED BY <2>1, <2>3, <2>4 DEF EvaluateOutcome
<1>10. CASE Write \/ WriteUnheard
  <2>1. StoreOutcome
    BY <1>0, <1>10, StoreDoes
  <2>2. Uncounted \subseteq Uncounted'
    BY <1>10 DEF Write, WriteUnheard, Stores, Uncounted
  <2> QED BY <1>1, <2>1, <2>2 DEF StoreOutcome, SameRule, Evaluating, Loop
<1> QED BY <1>2, <1>3, <1>5, <1>6, <1>7, <1>8, <1>9, <1>10, StepCases

LEMMA OpenFires ==
  /\ \A r, a, i : i \in Open(r, a) <=> /\ i \in Ids /\ RuleOf[alerts[i].fp] = r
                                       /\ alerts[i].app = a /\ Fires(i) /\ i \notin unheard
  /\ \A r, a, i : i \in Open(r, a)' <=> /\ i \in Ids' /\ RuleOf[alerts'[i].fp] = r
                                        /\ alerts'[i].app = a /\ Fires(i)' /\ i \notin unheard'
BY DEF Open, Fires, Uncounted

LEMMA CapStep ==
  ASSUME Types, Overtaking, Snapshot, Counting, CapRespected, [Next]_vars,
         Types', Overtaking', Snapshot', Counting'
  PROVE  CapRespected'
<1> USE DEF Types
<1>0. alerts \in Seq(Row) /\ chk \in Locals /\ CheckTypes /\ ActTypes /\ Tables
  BY DEF Tables, CheckTypes
<1>1. ASSUME NEW r \in Rules, NEW a \in Apps, Capped(r), Open(r, a)' \subseteq Open(r, a)
      PROVE  Cardinality(Open(r, a)') <= MaxAlertsPerApp
  <2>1. IsFiniteSet(Open(r, a))
    BY <1>0, TableFacts, FS_Subset DEF Open
  <2>2. IsFiniteSet(Open(r, a)') /\ Cardinality(Open(r, a)') <= Cardinality(Open(r, a))
    BY <1>1, <2>1, FS_Subset
  <2>3. Cardinality(Open(r, a)') \in Nat /\ Cardinality(Open(r, a)) \in Nat /\ MaxAlertsPerApp \in Nat
    BY <2>1, <2>2, FS_CardinalityType, AlertsAssumption
  <2>4. Cardinality(Open(r, a)) <= MaxAlertsPerApp
    BY <1>1, CapIs
  <2> QED BY <2>2, <2>3, <2>4
<1>2. ASSUME OldRows, unheard \subseteq unheard',
             \A i \in Ids' : Fires(i)' => i \in Ids /\ (Fires(i) \/ ~Capped(RuleOf[alerts[i].fp]))
      PROVE  CapRespected'
  <2>1. ASSUME NEW r \in Rules, NEW a \in Apps, Capped(r) PROVE Open(r, a)' \subseteq Open(r, a)
    <3> SUFFICES ASSUME NEW i \in Open(r, a)' PROVE i \in Open(r, a)
      OBVIOUS
    <3>1. /\ i \in Ids' /\ RuleOf[alerts'[i].fp] = r /\ alerts'[i].app = a
          /\ Fires(i)' /\ i \notin unheard
      BY <1>2, OpenFires
    <3>2. i \in Ids /\ alerts'[i].fp = alerts[i].fp /\ alerts'[i].app = alerts[i].app /\ Fires(i)
      BY <1>2, <2>1, <3>1 DEF OldRows
    <3> QED BY <3>1, <3>2, OpenFires
  <2> QED BY <1>1, <2>1, CapIs
<1>3. ASSUME alerts' = alerts, reopened' = reopened, unheard' = unheard PROVE CapRespected'
  BY <1>3 DEF CapRespected, Ids, Firing, Uncounted
<1>4. CASE OthersStep
  BY <1>2, <1>4, OthersFacts DEF OthersDo
<1>5. CASE ControlStep
  BY <1>3, <1>5, ControlFacts DEF ControlDoes
<1>6. CASE ListRule \/ Enqueue \/ StatementFails
  BY <1>3, <1>6 DEF ListRule, Observe, Enqueue, StatementFails, history
<1>7. ASSUME NEW fp \in Fingerprints, Evaluate(fp) PROVE CapRespected'
  BY <1>3, <1>7 DEF Evaluate
<1>8. ASSUME NEW fp \in Fingerprints, InitLogPattern(fp) PROVE CapRespected'
  <2>1. /\ Grown(NewRow(fp, TRUE)) /\ NewRow(fp, TRUE).manual
        /\ reopened' = reopened /\ unheard' = unheard
    BY <1>0, <1>8, InitRows DEF InitLogPattern, history, NewRow
  <2>2. PICK n : n = Len(alerts) + 1
    OBVIOUS
  <2>3. /\ Ids' = Ids \cup {n} /\ alerts'[n].manual /\ \A i \in Ids : alerts'[i] = alerts[i]
    BY <1>0, <2>1, <2>2, GrownFacts
  <2>4. OldRows
    BY <2>1, RowsStay
  <2> QED BY <1>2, <2>1, <2>3, <2>4 DEF Fires, Firing
<1>9. CASE Write \/ WriteUnheard
  <2>1. /\ Stores /\ StoreOutcome /\ chk.pc = "write"
        /\ reopened' = reopened /\ unheard \subseteq unheard'
    BY <1>0, <1>9, StoreDoes DEF StoreOutcome, Stores, Write, WriteUnheard
  <2>2. chk.act.op \in {"create", "update", "resolve", "clear"} /\ chk.rule \in Rules
    BY <1>0, <2>1 DEF ActTypes, Locals, Acts, CheckTypes
  <2>3. ASSUME chk.act.op \in {"create", "update"}, OldRows,
               \A i \in Ids' : Fires(i)' =>
                  (i \in Ids /\ Fires(i)) \/ RuleOf[alerts'[i].fp] = chk.rule
        PROVE  CapRespected'
    <3>1. chk'.rule = chk.rule /\ Evaluating'
      BY <1>0, <2>1, <2>3 DEF StoreOutcome, SameRule, Evaluating, Loop, ActTypes, Inserting
    <3>2. ASSUME NEW r \in Rules, r = chk.rule, NEW a \in Apps, Capped(r)
          PROVE  Cardinality(Open(r, a)') <= MaxAlertsPerApp
      <4>1. (\A b \in Apps : Cardinality(Open(chk.rule, b)) <= MaxAlertsPerApp)'
        BY <3>1, <3>2, CountBoundsAfter DEF Capped
      <4> QED BY <3>1, <3>2, <4>1 DEF Open
    <3>3. ASSUME NEW r \in Rules, r # chk.rule, NEW a \in Apps, Capped(r)
          PROVE  Open(r, a)' \subseteq Open(r, a)
      <4> SUFFICES ASSUME NEW i \in Open(r, a)' PROVE i \in Open(r, a)
        OBVIOUS
      <4>1. /\ i \in Ids' /\ RuleOf[alerts'[i].fp] = r /\ alerts'[i].app = a
            /\ Fires(i)' /\ i \notin unheard
        BY <2>1, OpenFires
      <4>2. i \in Ids /\ alerts'[i].fp = alerts[i].fp /\ alerts'[i].app = alerts[i].app /\ Fires(i)
        BY <2>3, <3>3, <4>1 DEF OldRows
      <4> QED BY <4>1, <4>2, OpenFires
    <3>4. ASSUME NEW r \in Rules, NEW a \in Apps, Capped(r)
          PROVE  Cardinality(Open(r, a)') <= MaxAlertsPerApp
      <4>1. CASE r = chk.rule
        BY <3>2, <3>4, <4>1
      <4>2. CASE r # chk.rule
        <5>1. Open(r, a)' \subseteq Open(r, a)
          BY <3>3, <3>4, <4>2
        <5> QED BY <1>1, <3>4, <5>1
      <4> QED BY <4>1, <4>2
    <3> QED BY <3>4, CapIs
  <2>4. CASE chk.act.op = "create"
    <3>1. Grown(NewRow(chk.act.fp, FALSE)) /\ NewRow(chk.act.fp, FALSE).fp = chk.act.fp
      BY <1>0, <2>1, <2>4, WriteRows DEF NewRow
    <3>2. PICK n : n = Len(alerts) + 1
      OBVIOUS
    <3>3. /\ Ids' = Ids \cup {n} /\ alerts'[n].fp = chk.act.fp /\ \A i \in Ids : alerts'[i] = alerts[i]
      BY <1>0, <3>1, <3>2, GrownFacts
    <3>4. RuleOf[chk.act.fp] = chk.rule
      BY <1>0, <2>1, <2>4 DEF ActTypes, Inserting
    <3>5. OldRows
      BY <3>1, RowsStay
    <3> QED BY <2>1, <2>3, <2>4, <3>3, <3>4, <3>5 DEF Fires
  <2>5. ASSUME chk.act.op # "create"
        PROVE  OldRows /\ Ids' = Ids
    BY <1>0, <2>1, <2>2, <2>5, WriteRows, RowsStay DEF ActTypes
  <2>6. CASE chk.act.op = "update"
    <3>0. PICK n : n = chk.act.id
      OBVIOUS
    <3>1. n \in Ids /\ Rewritten(n, FALSE, alerts[n].manual, alerts[n].suppressed)
          /\ RuleOf[alerts[n].fp] = chk.rule
      BY <1>0, <2>1, <2>6, <3>0, WriteRows DEF ActTypes
    <3>2. \A i \in Ids : i # n => (Fires(i)' => Fires(i))
      BY <2>1, <3>1 DEF Rewritten, SameRow, Fires, Firing
    <3>3. alerts'[n].fp = alerts[n].fp
      BY <3>1 DEF Rewritten
    <3> QED BY <2>3, <2>5, <2>6, <3>1, <3>2, <3>3
  <2>7. CASE chk.act.op = "resolve"
    <3>1. Rewritten(chk.act.id, TRUE, alerts[chk.act.id].manual, alerts[chk.act.id].suppressed)
      BY <1>0, <2>1, <2>7, WriteRows
    <3>2. \A i \in Ids : Fires(i)' => Fires(i)
      BY <2>1, <3>1 DEF Rewritten, SameRow, Fires, Firing
    <3> QED BY <1>2, <2>1, <2>5, <2>7, <3>2
  <2>8. CASE chk.act.op = "clear"
    <3>1. SuppressionCleared(chk.act.fp)
      BY <1>0, <2>1, <2>8, WriteRows
    <3>2. ~Capped(RuleOf[chk.act.fp])
      BY <1>0, <2>1, <2>8 DEF ActTypes, Capped
    <3>3. \A i \in Ids : Fires(i)' => Fires(i) \/ alerts[i].fp = chk.act.fp
      BY <2>1, <3>1 DEF SuppressionCleared, Fires, Firing
    <3> QED BY <1>2, <2>1, <2>5, <2>8, <3>2, <3>3
  <2> QED BY <2>2, <2>4, <2>6, <2>7, <2>8
<1> QED BY <1>4, <1>5, <1>6, <1>7, <1>8, <1>9, StepCases

CapInv == Types /\ Untouched /\ Overtaking /\ Snapshot /\ Counting /\ CapRespected

LEMMA CapHolds == Spec => []CapInv
<1>1. Init /\ Types => CapInv
  <2> SUFFICES ASSUME Init, Types PROVE CapInv
    OBVIOUS
  <2>1. chk = Idle /\ Ids = {}
    BY DEF Init, Ids
  <2>2. ~Evaluating /\ ~Inserting /\ chk.listed = {} /\ chk.made = {} /\ chk.pc = "idle"
    BY <2>1, IdleFacts DEF Evaluating, Inserting
  <2>3. Untouched /\ Overtaking /\ Snapshot
    BY <2>1, <2>2 DEF Untouched, Overtaking, Snapshot
  <2>4. Counting
    BY <2>2, FS_EmptySet, CountingIs
  <2>5. \A r, a : Open(r, a) = {}
    BY <2>1 DEF Open
  <2>6. CapRespected
    <3>1. MaxAlertsPerApp \in Nat /\ Cardinality({}) = 0
      BY FS_EmptySet, AlertsAssumption
    <3>2. \A r, a : Cardinality(Open(r, a)) = 0
      BY <2>5, <3>1
    <3>3. \A r, a : Cardinality(Open(r, a)) <= MaxAlertsPerApp
      BY <3>1, <3>2
    <3> QED BY <3>3, CapIs
  <2> QED BY <2>3, <2>4, <2>6 DEF CapInv
<1>2. CapInv /\ [Next]_vars /\ Types' => CapInv'
  <2> SUFFICES ASSUME CapInv, [Next]_vars, Types' PROVE CapInv'
    OBVIOUS
  <2>1. Untouched' /\ Overtaking' /\ Snapshot' /\ Counting'
    BY UntouchedStep, OvertakingStep, SnapshotStep, CountingStep DEF CapInv
  <2>2. CapRespected'
    BY <2>1, CapStep DEF CapInv
  <2> QED BY <2>1, <2>2 DEF CapInv
<1> QED BY <1>1, <1>2, TypesHold, PTL DEF Spec

\* A log or Kubernetes events rule never has more than MaxAlertsPerApp active
\* alerts of an application that users did not reopen and whose INSERT was not
\* reported as failed (firingCountByApp), although it counts rows it read before
\* others ended and reopened them.
THEOREM CapRespectedSafety == Spec => []CapRespected
<1>1. CapInv => CapRespected
  BY DEF CapInv
<1> QED BY <1>1, CapHolds, PTL

-----------------------------------------------------------------------------
(* An occurrence that a user ended stays quiet *)

\* A row is inserted by the write of a check or by the initialization of log patterns.
LEMMA InsertedBy ==
  ASSUME Types, [Next]_vars, NEW row \in Inserted
  PROVE  \/ Inserting /\ row.fp = chk.act.fp
         \/ \E fp \in Fingerprints : InitLogPattern(fp) /\ row.fp = fp
<1> USE DEF Types
<1>0. alerts \in Seq(Row) /\ chk \in Locals /\ CheckTypes /\ ActTypes /\ Tables
  BY DEF Tables, CheckTypes
<1>1. Len(alerts') > Len(alerts) /\ row = alerts'[Len(alerts')]
  BY DEF Inserted
<1>2. ASSUME alerts' \in Seq(Row), Ids' = Ids PROVE FALSE
  <2>1. Len(alerts') \in Nat /\ Len(alerts) \in Nat
    BY <1>0, <1>2
  <2>2. Len(alerts') \in Ids' /\ Len(alerts') \notin Ids
    BY <1>1, <2>1 DEF Ids
  <2> QED BY <1>2, <2>2
<1>3. ASSUME NEW new, Grown(new) PROVE row = new
  BY <1>1, <1>3 DEF Grown
<1>4. ASSUME alerts' = alerts PROVE FALSE
  <2>1. Len(alerts) \in Nat
    BY <1>0
  <2> QED BY <1>1, <1>4, <2>1
<1>5. CASE OthersStep
  BY <1>2, <1>5, OthersFacts DEF OthersDo, OldRows
<1>6. CASE ControlStep
  BY <1>4, <1>6, ControlFacts DEF ControlDoes
<1>7. CASE ListRule \/ Enqueue \/ StatementFails
  BY <1>4, <1>7 DEF ListRule, Enqueue, StatementFails
<1>8. ASSUME NEW fp \in Fingerprints, Evaluate(fp) PROVE FALSE
  BY <1>4, <1>8 DEF Evaluate
<1>9. ASSUME NEW fp \in Fingerprints, InitLogPattern(fp) PROVE row.fp = fp
  <2>1. Grown(NewRow(fp, TRUE)) /\ NewRow(fp, TRUE).fp = fp
    BY <1>0, <1>9, InitRows DEF NewRow
  <2> QED BY <1>3, <2>1
<1>10. CASE Write \/ WriteUnheard
  <2>0. Stores
    BY <1>10 DEF Write, WriteUnheard
  <2>1. chk.pc = "write" /\ chk.act.op \in {"create", "update", "resolve", "clear"}
        /\ (chk.act.op \in {"update", "resolve"} => chk.act.id \in Ids)
    BY <1>0, <2>0 DEF Stores, ActTypes, Locals, Acts
  <2>2. CASE chk.act.op = "create"
    <3>1. Grown(NewRow(chk.act.fp, FALSE)) /\ NewRow(chk.act.fp, FALSE).fp = chk.act.fp
      BY <1>0, <2>0, <2>2, WriteRows DEF NewRow
    <3> QED BY <1>3, <2>1, <2>2, <3>1 DEF Inserting
  <2>3. CASE chk.act.op # "create"
    <3>1. OldRows /\ Ids' = Ids
      BY <1>0, <2>0, <2>1, <2>3, WriteRows, RowsStay
    <3> QED BY <1>2, <3>1 DEF OldRows
  <2> QED BY <2>2, <2>3
<1> QED BY <1>5, <1>6, <1>7, <1>8, <1>9, <1>10, StepCases

\* What a request of a user leaves quiet.
LEMMA QuietAfterRequest ==
  ASSUME Types, Overtaking, Snapshot, Quieting, UpdateRows
  PROVE  Quieting'
<1> USE DEF Types
<1>0. alerts \in Seq(Row) /\ chk \in Locals /\ CheckTypes /\ ActTypes /\ RequestTypes
  BY DEF Tables, CheckTypes
<1>1. chk' = chk /\ Inserting' = Inserting /\ Evaluating' = Evaluating
  BY DEF UpdateRows, Inserting, Evaluating
<1>2. req.op \in {"resolve", "suppress", "delete"} /\ (req.op # "delete" => req.id \in Ids)
  BY <1>0 DEF UpdateRows, RequestTypes, Requests
<1>3. CASE req.op = "delete"
  <2>1. ResolvedByRule(req.rule)
    BY <1>0, <1>3, RequestRows
  <2>2. quiet' = {fp \in quiet : RuleOf[fp] # req.rule}
    BY <1>3 DEF UpdateRows
  <2>3. Ids' = Ids /\ \A i \in Ids : alerts'[i].fp = alerts[i].fp
                        /\ (RuleOf[alerts[i].fp] # req.rule => alerts'[i].resolved = alerts[i].resolved)
    BY <1>0, <2>1, TableFacts DEF ResolvedByRule, SameIds
  <2> QED BY <1>1, <2>2, <2>3 DEF Quieting
<1>4. CASE req.op # "delete"
  <2>0. PICK n \in Ids : n = req.id
    BY <1>2, <1>4
  <2>1. \/ RowsKept
        \/ \E res, man, sup : Rewritten(n, res, man, sup) /\ (res => alerts[n].resolved)
    BY <1>0, <1>2, <1>4, <2>0, RequestRows
  <2>2. Ids' = Ids /\ \A i \in Ids : /\ alerts'[i].fp = alerts[i].fp
                                     /\ alerts'[i].resolved => alerts[i].resolved
    BY <2>1 DEF RowsKept, Rewritten, SameRow, SameIds
  <2>3. \/ quiet' = quiet
        \/ /\ quiet' = quiet \cup {alerts[n].fp} /\ Firing(alerts[n])
           /\ n \in reopened => chk.pc = "idle"
    BY <1>4, <2>0 DEF UpdateRows
  <2>4. CASE quiet' = quiet
    BY <1>1, <2>2, <2>4 DEF Quieting
  <2>5. CASE /\ quiet' = quiet \cup {alerts[n].fp} /\ Firing(alerts[n])
             /\ n \in reopened => chk.pc = "idle"
    <3>1. ~alerts[n].resolved /\ (chk.pc # "idle" => Fires(n))
      BY <2>5 DEF Firing, Fires
    <3>2. \A fp \in quiet' : \E i \in Ids' : alerts'[i].fp = fp /\ ~alerts'[i].resolved
      BY <2>2, <2>5, <3>1 DEF Quieting
    <3>3. Inserting => chk.act.fp \notin quiet'
      BY <2>5, <3>1 DEF Quieting, Inserting, Overtaking
    <3>4. ASSUME Evaluating, Capped(chk.rule), NEW fp \in quiet' \cap chk.work
          PROVE  \E l \in chk.listed : l.row.fp = fp
      <4>1. CASE fp \in quiet
        BY <3>4, <4>1 DEF Quieting
      <4>2. CASE fp = alerts[n].fp
        <5>1. chk.pc # "idle" /\ RuleOf[fp] = chk.rule /\ fp \in chk.work \ chk.made
          BY <1>0, <3>4 DEF Evaluating, CheckTypes, ActTypes
        <5>2. PICK l \in chk.listed : l.id = n
          BY <3>1, <3>4, <4>2, <5>1 DEF Snapshot, TrueToTable
        <5> QED BY <1>0, <4>2, <5>2 DEF CheckTypes
      <4> QED BY <2>5, <3>4, <4>1, <4>2
    <3> QED BY <1>1, <3>2, <3>3, <3>4 DEF Quieting, Capped
  <2> QED BY <2>3, <2>4, <2>5
<1> QED BY <1>3, <1>4

LEMMA QuietingStep ==
  ASSUME Types, Overtaking, Snapshot, Quieting, [Next]_vars
  PROVE  Quieting'
<1> USE DEF Types
<1>0. alerts \in Seq(Row) /\ chk \in Locals /\ CheckTypes /\ ActTypes /\ Tables
  BY DEF Tables, CheckTypes
<1>1. ASSUME quiet' \subseteq quiet, Ids' = Ids,
             \A i \in Ids : alerts'[i].fp = alerts[i].fp /\ alerts'[i].resolved = alerts[i].resolved,
             Inserting' => Inserting /\ chk'.act = chk.act,
             Evaluating' => /\ Evaluating /\ chk'.rule = chk.rule
                            /\ chk'.work \subseteq chk.work /\ chk'.listed = chk.listed
      PROVE  Quieting'
  <2>1. \A fp \in quiet' : \E i \in Ids' : alerts'[i].fp = fp /\ ~alerts'[i].resolved
    BY <1>1 DEF Quieting
  <2>2. Inserting' => chk'.act.fp \notin quiet'
    BY <1>1 DEF Quieting
  <2>3. Evaluating' /\ Capped(chk.rule)' => \A fp \in quiet' \cap chk'.work : \E l \in chk'.listed : l.row.fp = fp
    BY <1>1 DEF Quieting, Capped
  <2> QED BY <2>1, <2>2, <2>3 DEF Quieting
<1>2. ASSUME alerts' = alerts, quiet' = quiet, chk' = chk PROVE Quieting'
  BY <1>2 DEF Quieting, Ids, Inserting, Evaluating, Capped
<1>3. CASE OthersStep
  <2>1. CASE UNCHANGED vars \/ WorldChanges \/ RequestFails \/ EnqueueResolvedAlerts \/ DeleteAlertingRule
    BY <1>2, <2>1 DEF vars, WorldChanges, RequestFails, EnqueueResolvedAlerts, DeleteAlertingRule, history
  <2>2. CASE \/ \E i \in Ids : ReadAlert("resolve", i) \/ ReadAlert("suppress", i)
             \/ \E r \in Rules : ReadRule(r) \/ UpdateAlertingRule(r)
    BY <1>2, <2>2 DEF ReadAlert, ReadRule, UpdateAlertingRule, history
  <2>3. CASE Tick
    <3>1. RowsKept
      BY <1>0, <2>3, TickRows
    <3>2. quiet' = quiet /\ chk' = chk /\ Inserting' = Inserting /\ Evaluating' = Evaluating
      BY <2>3 DEF Tick, Inserting, Evaluating
    <3> QED BY <1>1, <3>1, <3>2 DEF RowsKept, SameRow, SameIds
  <2>4. ASSUME NEW i \in Ids, ReopenAlerts(i) PROVE Quieting'
    <3>1. Rewritten(i, alerts[i].resolved, FALSE, FALSE)
      BY <1>0, <2>4, ReopenRows
    <3>2. quiet' \subseteq quiet /\ chk' = chk /\ Inserting' = Inserting /\ Evaluating' = Evaluating
      BY <2>4 DEF ReopenAlerts, Inserting, Evaluating
    <3>3. Ids' = Ids /\ \A k \in Ids : alerts'[k].fp = alerts[k].fp /\ alerts'[k].resolved = alerts[k].resolved
      BY <3>1 DEF Rewritten, SameRow, SameIds
    <3> QED BY <1>1, <3>2, <3>3
  <2> QED BY <1>3, <2>1, <2>2, <2>3, <2>4, QuietAfterRequest DEF OthersStep, NewRequest, RequestStep
<1>4. ASSUME alerts' = alerts, quiet' \subseteq quiet, ~Inserting',
             Evaluating' => /\ Evaluating /\ chk'.rule = chk.rule
                            /\ chk'.work \subseteq chk.work /\ chk'.listed = chk.listed
      PROVE  Quieting'
  BY <1>1, <1>4 DEF Ids
<1>5. CASE ControlStep
  BY <1>4, <1>5, ControlFacts DEF ControlDoes
<1>6. CASE ListRule
  <2>1. ListOutcome /\ alerts' = alerts /\ quiet' \subseteq quiet /\ chk.rule \in Rules
    BY <1>0, <1>6, ListDoes DEF ListRule, Observe, CheckTypes
  <2>2. ~Inserting' /\ Ids' = Ids
    BY <2>1 DEF ListOutcome, Inserting, Ids
  <2>3. ASSUME NEW fp \in quiet' \cap chk'.work, Capped(chk.rule) PROVE \E l \in chk'.listed : l.row.fp = fp
    <3>1. PICK i \in Ids : alerts[i].fp = fp /\ ~alerts[i].resolved
      BY <2>1, <2>3 DEF Quieting
    <3>2. RuleOf[fp] = chk.rule
      BY <1>0, <2>1, <2>3, EvaluatedFacts DEF ListOutcome
    <3>3. PICK l \in Listing(chk.rule) : alerts[l.id].fp = fp
      BY <1>0, <2>1, <3>1, <3>2, ListingFacts
    <3> QED BY <1>0, <2>1, <2>3, <3>3, ListingFacts DEF ListOutcome
  <2> QED BY <2>1, <2>2, <2>3 DEF Quieting, ListOutcome, SameRule, Capped
<1>7. CASE Enqueue
  BY <1>0, <1>4, <1>7, EnqueueDoes
     DEF Enqueue, Goes, SameRule, SameSnapshot, Loop, Evaluating, Inserting, history
<1>8. CASE StatementFails
  <2>1. FailOutcome /\ alerts' = alerts /\ quiet' = quiet /\ chk'.rule = chk.rule
    BY <1>0, <1>8, FailDoes DEF StatementFails, FailOutcome, SameRule, history
  <2>2. ~Inserting'
    BY <2>1 DEF FailOutcome, Inserting, Goes, Loop
  <2>3. CASE chk'.work = {}
    <3>1. Ids' = Ids
      BY <2>1 DEF Ids
    <3> QED BY <2>1, <2>2, <2>3, <3>1 DEF Quieting
  <2>4. CASE Evaluating' => /\ Evaluating /\ chk'.rule = chk.rule
                            /\ chk'.work \subseteq chk.work /\ chk'.listed = chk.listed
    BY <1>4, <2>1, <2>2, <2>4
  <2> QED BY <2>1, <2>3, <2>4 DEF FailOutcome, Goes, SameSnapshot, Evaluating, Loop
<1>9. ASSUME NEW fp \in Fingerprints, Evaluate(fp) PROVE Quieting'
  <2>1. EvaluateOutcome(fp) /\ alerts' = alerts /\ quiet' = quiet
    BY <1>0, <1>9, EvaluateDoes DEF Evaluate
  <2>2. /\ chk'.rule = chk.rule /\ chk'.work \subseteq chk.work /\ chk'.listed = chk.listed
        /\ Evaluating /\ Ids' = Ids
    BY <2>1 DEF EvaluateOutcome, SameRule, Evaluating, Ids
  <2>3. ASSUME Inserting' PROVE chk'.act.fp \notin quiet
    <3>1. PICK a : a = chk'.act
      OBVIOUS
    <3>2. a.fp = fp /\ MayOpen(fp)
      BY <1>0, <2>1, <2>3, <3>1, DecidesFacts DEF EvaluateOutcome, Inserting
    <3>3. CASE Capped(chk.rule)
      BY <2>1, <2>2, <3>1, <3>2, <3>3 DEF MayOpen, Quieting, EvaluateOutcome
    <3>4. CASE ~Capped(chk.rule)
      BY <3>1, <3>2, <3>4 DEF MayOpen, Quieting, ActiveOrSuppressed
    <3> QED BY <3>3, <3>4
  <2>4. \A g \in quiet' : \E i \in Ids' : alerts'[i].fp = g /\ ~alerts'[i].resolved
    BY <2>1, <2>2 DEF Quieting
  <2>5. Evaluating' /\ Capped(chk.rule)' => \A g \in quiet' \cap chk'.work : \E l \in chk'.listed : l.row.fp = g
    BY <2>1, <2>2 DEF Quieting, Capped
  <2> QED BY <2>1, <2>3, <2>4, <2>5 DEF Quieting
<1>10. ASSUME NEW new, Grown(new), quiet' = quiet, ~Inserting', Evaluating' => Evaluating,
              chk'.rule = chk.rule, chk'.listed = chk.listed, chk'.work \subseteq chk.work
       PROVE  Quieting'
  <2>1. Ids \subseteq Ids' /\ \A i \in Ids : alerts'[i] = alerts[i]
    BY <1>10 DEF Grown
  <2>2. \A g \in quiet' : \E i \in Ids' : alerts'[i].fp = g /\ ~alerts'[i].resolved
    BY <1>10, <2>1 DEF Quieting
  <2>3. Evaluating' /\ Capped(chk.rule)' => \A g \in quiet' \cap chk'.work : \E l \in chk'.listed : l.row.fp = g
    BY <1>10 DEF Quieting, Capped
  <2> QED BY <1>10, <2>2, <2>3 DEF Quieting
<1>11. ASSUME NEW fp \in Fingerprints, InitLogPattern(fp) PROVE Quieting'
  <2>1. Grown(NewRow(fp, TRUE)) /\ quiet' = quiet /\ InitOutcome(fp)
    BY <1>0, <1>11, InitRows, InitDoes DEF InitLogPattern, history
  <2> QED BY <1>10, <2>1 DEF InitOutcome, SameRule, Evaluating, Inserting
<1>12. CASE Write \/ WriteUnheard
  <2>1. Stores /\ StoreOutcome /\ chk.act.op \in {"create", "update", "resolve", "clear"}
        /\ (chk.act.op \in {"update", "resolve"} => chk.act.id \in Ids)
    BY <1>0, <1>12, StoreDoes DEF StoreOutcome, ActTypes, Locals, Acts
  <2>2. /\ ~Inserting' /\ (Evaluating' => Evaluating)
        /\ chk'.rule = chk.rule /\ chk'.listed = chk.listed /\ chk'.work = chk.work
    BY <2>1 DEF StoreOutcome, SameRule, Inserting, Evaluating, Loop
  <2>3. CASE chk.act.op = "create"
    <3>1. Grown(NewRow(chk.act.fp, FALSE)) /\ quiet' = quiet
      BY <1>0, <2>1, <2>3, WriteRows DEF Stores
    <3> QED BY <1>10, <2>2, <3>1
  <2>4. ASSUME Ids' = Ids, quiet' \subseteq quiet,
               \A i \in Ids : /\ alerts'[i].fp = alerts[i].fp
                              /\ alerts[i].fp \in quiet' /\ alerts'[i].resolved => alerts[i].resolved
        PROVE  Quieting'
    <3>1. \A g \in quiet' : \E i \in Ids' : alerts'[i].fp = g /\ ~alerts'[i].resolved
      BY <2>4 DEF Quieting
    <3>2. Evaluating' /\ Capped(chk.rule)' => \A g \in quiet' \cap chk'.work : \E l \in chk'.listed : l.row.fp = g
      BY <2>2, <2>4 DEF Quieting, Capped
    <3> QED BY <2>2, <3>1, <3>2 DEF Quieting
  <2>5. CASE chk.act.op = "update"
    <3>1. PICK n \in Ids : n = chk.act.id
      BY <2>1, <2>5
    <3>2. Rewritten(n, FALSE, alerts[n].manual, alerts[n].suppressed) /\ quiet' = quiet
      BY <1>0, <2>1, <2>5, <3>1, WriteRows DEF Stores
    <3> QED BY <2>4, <3>2 DEF Rewritten, SameRow, SameIds
  <2>6. CASE chk.act.op = "resolve"
    <3>1. PICK n \in Ids : n = chk.act.id
      BY <2>1, <2>6
    <3>2. Rewritten(n, TRUE, alerts[n].manual, alerts[n].suppressed) /\ quiet' = quiet \ {alerts[n].fp}
      BY <1>0, <2>1, <2>6, <3>1, WriteRows DEF Stores
    <3> QED BY <2>4, <3>2 DEF Rewritten, SameRow, SameIds
  <2>7. CASE chk.act.op = "clear"
    <3>1. SuppressionCleared(chk.act.fp) /\ quiet' = quiet
      BY <1>0, <2>1, <2>7, WriteRows DEF Stores
    <3> QED BY <2>4, <3>1 DEF SuppressionCleared, SameIds
  <2> QED BY <2>1, <2>3, <2>5, <2>6, <2>7
<1> QED BY <1>3, <1>5, <1>6, <1>7, <1>8, <1>9, <1>11, <1>12, StepCases

\* After a user resolved or suppressed an active alert, no check opens another one
\* for the same condition while it lasts, although the check may have listed the
\* rows, or decided what to write, before the user's UPDATE.
THEOREM QuietWhileItLastsSafety == Spec => QuietWhileItLasts
<1>1. Init => Quieting
  <2> SUFFICES ASSUME Init PROVE Quieting
    OBVIOUS
  <2>1. chk = Idle /\ quiet = {}
    BY DEF Init
  <2>2. ~Inserting
    BY <2>1, IdleFacts DEF Inserting
  <2> QED BY <2>1, <2>2 DEF Quieting
<1>2. CapInv /\ Quieting /\ [Next]_vars => Quieting'
  BY QuietingStep DEF CapInv
<1>3. ASSUME CapInv, Quieting, [Next]_vars, NEW row \in Inserted PROVE row.fp \notin quiet
  <2>1. Types /\ Untouched
    BY <1>3 DEF CapInv
  <2>2. CASE Inserting /\ row.fp = chk.act.fp
    BY <1>3, <2>2 DEF Quieting
  <2>3. ASSUME NEW fp \in Fingerprints, InitLogPattern(fp), row.fp = fp PROVE row.fp \notin quiet
    <3>1. \A i \in Ids : alerts[i].fp # fp
      BY <2>1, <2>3 DEF Untouched, InitLogPattern
    <3> QED BY <1>3, <2>3, <3>1 DEF Quieting
  <2> QED BY <1>3, <2>1, <2>2, <2>3, InsertedBy
<1>4. CapInv /\ Quieting /\ [Next]_vars => [\A row \in Inserted : row.fp \notin quiet]_vars
  BY <1>3
<1> QED BY <1>1, <1>2, <1>4, CapHolds, PTL DEF Spec, QuietWhileItLasts

-----------------------------------------------------------------------------
(* For: how long a condition was seen before its alert *)

LEMMA SeenFacts ==
  ASSUME Types, NEW S
  PROVE  /\ \A fp \in Fingerprints \ S : Seen(S)[fp] = streak[fp]
         /\ \A fp \in Fingerprints : fp \in S \cap chk.seen =>
               Seen(S)[fp] \in Nat /\ (streak[fp] # None => Seen(S)[fp] = streak[fp])
<1>1. streak \in [Fingerprints -> Ages \cup {None}] /\ chk.seen \subseteq Fingerprints
  BY DEF Types, Tables, CheckTypes, Locals
<1>2. \A fp \in Fingerprints : streak[fp] # None => streak[fp] \in Nat
  BY <1>1, AgeFacts
<1> QED BY <1>1, <1>2 DEF Seen

\* What Evaluate(fp) does to pendingAlerts.
WaitOutcome(fp) ==
    /\ \A g \in Fingerprints \ {fp} : pending'[g] = pending[g]
    /\ RuleType[chk.rule] = "check" =>
         /\ fp \in chk.seen => pending'[fp] \in {pending[fp], 0, None}
         /\ fp \notin chk.seen => \/ pending'[fp] = None
                                  \/ chk'.act.op = "clear" /\ pending'[fp] = pending[fp]
         /\ chk'.act.op = "create" =>
              /\ fp \in chk.seen
              /\ For[RuleOf[fp]] = 0 \/ (pending[fp] # None /\ pending[fp] >= For[RuleOf[fp]])

LEMMA EvaluateWaits ==
  ASSUME Types, NEW fp \in Fingerprints, Evaluate(fp)
  PROVE  WaitOutcome(fp)
<1>0. /\ pending \in [Fingerprints -> Ages \cup {None}] /\ chk \in Locals
      /\ chk.rule \in Rules /\ RuleOf[fp] \in Rules /\ For[RuleOf[fp]] \in Nat
  BY AlertsAssumption DEF Types, Tables, CheckTypes, Evaluate
<1>1. pending[fp] # None => pending[fp] \in Nat
  BY <1>0, AgeFacts
<1>2. ASSUME NEW x, pending' = [pending EXCEPT ![fp] = x]
      PROVE  pending'[fp] = x /\ \A g \in Fingerprints \ {fp} : pending'[g] = pending[g]
  BY <1>0, <1>2
<1>3. ASSUME NEW a, Decided(fp, a) PROVE chk'.act = a
  BY <1>0, <1>3 DEF Decided, Locals
<1>4. NoAct.op = "none" /\ Clear(fp).op = "clear" /\ \A i : Update(i).op = "update" /\ Resolve(i, TRUE).op = "resolve"
  BY DEF NoAct, Clear, Update, Resolve
<1>5. ASSUME OpenOrWait(fp)
      PROVE  /\ \A g \in Fingerprints \ {fp} : pending'[g] = pending[g]
             /\ pending'[fp] \in {pending[fp], 0, None}
             /\ chk'.act.op = "create" =>
                   For[RuleOf[fp]] = 0 \/ (pending[fp] # None /\ pending[fp] >= For[RuleOf[fp]])
  <2>1. CASE For[RuleOf[fp]] > 0 /\ pending[fp] = None
    <3>1. Decided(fp, NoAct) /\ pending' = [pending EXCEPT ![fp] = 0]
      BY <1>5, <2>1 DEF OpenOrWait
    <3>2. chk'.act = NoAct
      BY <1>3, <3>1
    <3> QED BY <1>2, <1>4, <3>1, <3>2
  <2>2. CASE For[RuleOf[fp]] > 0 /\ pending[fp] # None /\ pending[fp] < For[RuleOf[fp]]
    <3>1. Decided(fp, NoAct) /\ pending' = pending
      BY <1>5, <2>2 DEF OpenOrWait
    <3>2. chk'.act = NoAct
      BY <1>3, <3>1
    <3> QED BY <1>4, <3>1, <3>2
  <2>3. CASE For[RuleOf[fp]] = 0 \/ (pending[fp] # None /\ pending[fp] >= For[RuleOf[fp]])
    <3>1. ~(For[RuleOf[fp]] > 0 /\ pending[fp] = None)
          /\ ~(For[RuleOf[fp]] > 0 /\ pending[fp] < For[RuleOf[fp]])
      BY <1>0, <1>1, <2>3
    <3>2. pending' = [pending EXCEPT ![fp] = None]
      BY <1>5, <3>1 DEF OpenOrWait
    <3> QED BY <1>2, <2>3, <3>2
  <2> QED BY <1>0, <1>1, <2>1, <2>2, <2>3
<1>6. CASE EvaluateLogPatternAlert(fp) \/ EvaluateKubernetesEventsAlert(fp)
  BY <1>6 DEF EvaluateLogPatternAlert, EvaluateKubernetesEventsAlert, WaitOutcome
<1>7. CASE EvaluatePromQLAlert(fp)
  BY <1>5, <1>7 DEF EvaluatePromQLAlert, WaitOutcome
<1>8. CASE EvaluateCheckAlert(fp)
  <2> DEFINE n == Newest(ActiveOrSuppressed(fp))
  <2>1. \/ fp \in chk.seen /\ OpenOrWait(fp)
        \/ fp \in chk.seen /\ pending' = pending /\ \E a : Decided(fp, a) /\ a.op \in {"none", "update"}
        \/ fp \notin chk.seen /\ pending' = pending /\ Decided(fp, Clear(fp))
        \/ /\ fp \notin chk.seen /\ pending' = [pending EXCEPT ![fp] = None]
           /\ \E a : Decided(fp, a) /\ a.op \in {"none", "resolve"}
    BY <1>4, <1>8 DEF EvaluateCheckAlert
  <2>2. CASE fp \in chk.seen /\ OpenOrWait(fp)
    BY <1>5, <2>2 DEF WaitOutcome
  <2>3. CASE fp \in chk.seen /\ pending' = pending /\ \E a : Decided(fp, a) /\ a.op \in {"none", "update"}
    BY <1>3, <2>3 DEF WaitOutcome
  <2>4. CASE fp \notin chk.seen /\ pending' = pending /\ Decided(fp, Clear(fp))
    BY <1>3, <1>4, <2>4 DEF WaitOutcome
  <2>5. CASE /\ fp \notin chk.seen /\ pending' = [pending EXCEPT ![fp] = None]
             /\ \E a : Decided(fp, a) /\ a.op \in {"none", "resolve"}
    BY <1>2, <1>3, <2>5 DEF WaitOutcome
  <2> QED BY <2>1, <2>2, <2>3, <2>4, <2>5
<1> QED BY <1>6, <1>7, <1>8 DEF Evaluate

LEMMA WaitingStep ==
  ASSUME Types, Waiting, [Next]_vars
  PROVE  Waiting'
<1> USE DEF Types
<1>0. /\ alerts \in Seq(Row) /\ chk \in Locals /\ CheckTypes /\ ActTypes /\ Tables
      /\ pending \in [Fingerprints -> Ages \cup {None}] /\ streak \in [Fingerprints -> Ages \cup {None}]
      /\ RuleOf \in [Fingerprints -> Rules] /\ For \in [Rules -> Nat]
  BY AlertsAssumption DEF Tables, CheckTypes
<1>1. ASSUME NEW fp \in Fingerprints
      PROVE  (pending[fp] # None => pending[fp] \in Nat) /\ (streak[fp] # None => streak[fp] \in Nat)
  BY <1>0, AgeFacts
<1>2. ASSUME \A fp \in Fingerprints : RuleType[RuleOf[fp]] = "check" =>
                /\ pending'[fp] \in {pending[fp], None}
                /\ streak'[fp] = streak[fp],
             cleared' = cleared,
             Inserting' => Inserting /\ chk' = chk
      PROVE  Waiting'
  <2>1. Inserting /\ chk' = chk => RuleOf[chk.act.fp] = chk.rule /\ chk.act.fp \in Fingerprints
    BY <1>0 DEF ActTypes, Inserting, Locals
  <2> QED BY <1>2, <2>1 DEF Waiting, SeenFor
<1>3. ASSUME pending' = pending, streak' = streak, cleared' = cleared, Inserting' => Inserting /\ chk' = chk
      PROVE  Waiting'
  BY <1>2, <1>3
<1>4. CASE OthersStep
  <2>1. chk' = chk /\ Inserting' = Inserting
    BY <1>4, OthersFacts DEF OthersDo, Inserting
  <2>2. CASE UNCHANGED vars \/ WorldChanges \/ RequestFails \/ RequestStep
    BY <1>3, <2>1, <2>2 DEF vars, WorldChanges, RequestFails, RequestStep, UpdateRows,
          EnqueueResolvedAlerts, DeleteAlertingRule, history
  <2>3. CASE NewRequest
    BY <1>3, <2>1, <2>3 DEF NewRequest, ReadAlert, ReadRule, UpdateAlertingRule, ReopenAlerts, history
  <2>4. CASE Tick
    <3>1. ~Inserting /\ cleared' = cleared
      BY <2>4 DEF Tick, Inserting
    <3>2. ASSUME NEW fp \in Fingerprints, RuleType[RuleOf[fp]] = "check", pending'[fp] # None,
                 fp \notin cleared
          PROVE  SeenFor(fp, pending[fp])'
      <4>1. pending[fp] # None /\ pending'[fp] = Older(fp, pending[fp])
        BY <2>4, <3>2 DEF Tick
      <4>2. streak[fp] # None /\ streak[fp] >= pending[fp]
        BY <3>2, <4>1 DEF Waiting, SeenFor
      <4>3. streak'[fp] = Older(fp, streak[fp])
        BY <2>4, <4>2 DEF Tick
      <4>4. pending[fp] \in Nat /\ streak[fp] \in Nat /\ MaxAge[RuleOf[fp]] \in Nat
        BY <1>1, <4>1, <4>2, AlertsAssumption
      <4>5. Older(fp, streak[fp]) \in Nat /\ Older(fp, streak[fp]) >= Older(fp, pending[fp])
        BY <4>2, <4>4 DEF Older
      <4> QED BY <4>1, <4>3, <4>5, AlertsAssumption DEF SeenFor
    <3> QED BY <2>1, <3>1, <3>2 DEF Waiting
  <2> QED BY <1>4, <2>2, <2>3, <2>4 DEF OthersStep
<1>5. CASE ControlStep
  <2>1. streak' = streak /\ cleared' = cleared /\ ~Inserting'
    BY <1>5, ControlFacts DEF ControlDoes
  <2>2. \A fp \in Fingerprints : pending'[fp] \in {pending[fp], None}
    BY <1>0, <1>5 DEF ControlStep, BeginCheck, EndCheck, Crash, NextRule, InitLogPatternsEnd, EvaluationEnds,
          ListNonMatching, ResolveNext, ResolveLoopEnds
  <2> QED BY <1>2, <2>1, <2>2
<1>6. CASE ListRule
  <2>1. ListOutcome /\ pending' = pending /\ cleared' = cleared /\ chk.rule \in Rules
        /\ streak' = IF RuleType[chk.rule] = "check" THEN streak
                     ELSE Seen({fp \in Fingerprints : RuleOf[fp] = chk.rule})
    BY <1>0, <1>6, ListDoes DEF ListRule, Observe, CheckTypes
  <2>2. ~Inserting'
    BY <2>1 DEF ListOutcome, Inserting
  <2> DEFINE S == {fp \in Fingerprints : RuleOf[fp] = chk.rule}
  <2>3. \A fp \in Fingerprints \ S : Seen(S)[fp] = streak[fp]
    BY SeenFacts
  <2>4. \A fp \in Fingerprints : RuleType[RuleOf[fp]] = "check" => streak'[fp] = streak[fp]
    BY <2>1, <2>3
  <2> QED BY <1>2, <2>1, <2>2, <2>4
<1>7. CASE Enqueue
  BY <1>0, <1>3, <1>7, EnqueueDoes DEF Enqueue, Goes, Loop, Inserting, history
<1>8. CASE StatementFails
  BY <1>0, <1>3, <1>8, FailDoes DEF StatementFails, FailOutcome, Goes, Loop, Inserting, history
<1>9. ASSUME NEW fp \in Fingerprints, InitLogPattern(fp) PROVE Waiting'
  BY <1>0, <1>3, <1>9, InitDoes DEF InitLogPattern, InitOutcome, Inserting, history
<1>10. CASE Write \/ WriteUnheard
  BY <1>0, <1>3, <1>10, StoreDoes DEF StoreOutcome, Stores, Loop, Inserting
<1>11. ASSUME NEW fp \in Fingerprints, Evaluate(fp) PROVE Waiting'
  <2>1. EvaluateOutcome(fp) /\ WaitOutcome(fp) /\ RuleOf[fp] = chk.rule /\ chk.rule \in Rules
    BY <1>0, <1>11, EvaluateDoes, EvaluateWaits DEF EvaluateOutcome, CheckTypes
  <2>2. chk'.rule = chk.rule /\ (Inserting' => chk'.act.op = "create" /\ chk'.act.fp = fp)
    <3>1. PICK a : a = chk'.act
      OBVIOUS
    <3> QED BY <1>0, <2>1, <3>1, DecidesFacts DEF EvaluateOutcome, SameRule, Inserting
  <2>3. CASE RuleType[chk.rule] # "check"
    <3>1. streak' = streak /\ cleared' = cleared
      BY <1>11, <2>3 DEF Evaluate
    <3>2. \A g \in Fingerprints : RuleType[RuleOf[g]] = "check" => pending'[g] = pending[g]
      BY <2>1, <2>3 DEF WaitOutcome
    <3> QED BY <2>2, <2>3, <3>1, <3>2 DEF Waiting, SeenFor
  <2>4. CASE RuleType[chk.rule] = "check"
    <3>1. streak' = Seen({fp})
      BY <1>11, <2>4 DEF Evaluate
    <3>2. \A g \in Fingerprints \ {fp} : streak'[g] = streak[g] /\ pending'[g] = pending[g]
      BY <2>1, <3>1, SeenFacts DEF WaitOutcome
    <3>3. \A g \in Fingerprints \ {fp} : g \in cleared => g \in cleared'
      BY <1>11 DEF Evaluate
    <3>4. \A g \in Fingerprints \ {fp} : RuleType[RuleOf[g]] = "check" /\ pending'[g] # None
             => SeenFor(g, pending[g])' \/ g \in cleared'
      BY <3>2, <3>3 DEF Waiting, SeenFor
    <3>5. CASE fp \in chk.seen
      <4>1. cleared' = cleared
        BY <1>11, <3>5 DEF Evaluate
      <4>2. streak'[fp] \in Nat /\ streak'[fp] # None /\ (streak[fp] # None => streak'[fp] = streak[fp])
        BY <3>1, <3>5, SeenFacts, AlertsAssumption
      <4>3. pending'[fp] # None => SeenFor(fp, pending[fp])' \/ fp \in cleared'
        <5>1. pending'[fp] \in {pending[fp], 0, None}
          BY <2>1, <2>4, <3>5 DEF WaitOutcome
        <5>2. CASE pending'[fp] = pending[fp] /\ pending[fp] # None
          BY <2>1, <2>4, <4>1, <4>2, <5>2 DEF Waiting, SeenFor
        <5>3. CASE pending'[fp] = 0
          BY <4>2, <5>3 DEF SeenFor
        <5> QED BY <5>1, <5>2, <5>3
      <4>4. ASSUME Inserting' PROVE SeenFor(fp, For[chk.rule])' \/ fp \in cleared'
        <5>1. PICK w : w = For[chk.rule]
          OBVIOUS
        <5>2. w \in Nat /\ (w = 0 \/ (pending[fp] # None /\ pending[fp] >= w))
          BY <1>0, <2>1, <2>2, <2>4, <4>4, <5>1 DEF WaitOutcome
        <5>3. streak'[fp] >= w \/ fp \in cleared
          <6>1. CASE w = 0
            BY <4>2, <6>1
          <6>2. CASE pending[fp] # None /\ pending[fp] >= w /\ fp \notin cleared
            <7>1. streak[fp] # None /\ streak[fp] >= pending[fp]
              BY <2>1, <2>4, <6>2 DEF Waiting, SeenFor
            <7> QED BY <1>1, <4>2, <5>2, <6>2, <7>1
          <6> QED BY <5>2, <6>1, <6>2
        <5> QED BY <2>2, <4>1, <4>2, <5>1, <5>3 DEF SeenFor
      <4> QED BY <2>2, <3>4, <4>3, <4>4 DEF Waiting
    <3>6. CASE fp \notin chk.seen
      <4>1. ~Inserting'
        BY <2>1, <2>2, <2>4, <3>6 DEF WaitOutcome
      <4>2. pending'[fp] # None => fp \in cleared'
        BY <1>11, <2>1, <2>4, <3>6 DEF WaitOutcome, Evaluate
      <4> QED BY <3>4, <4>1, <4>2 DEF Waiting
    <3> QED BY <3>5, <3>6
  <2> QED BY <2>3, <2>4
<1> QED BY <1>4, <1>5, <1>6, <1>7, <1>8, <1>9, <1>10, <1>11, StepCases

\* evaluateCheckAlert opens an alert only when every check that looked at its
\* condition during the rule's For saw it firing, or the suppression of the last
\* alert was just cleared, across restarts, failing statements and requests.
THEOREM ForRespectedSafety == Spec => ForRespected
<1>1. Init => Waiting
  <2> SUFFICES ASSUME Init PROVE Waiting
    OBVIOUS
  <2>1. ~Inserting
    BY IdleFacts DEF Init, Inserting
  <2> QED BY <2>1 DEF Init, Waiting
<1>2. Types /\ Waiting /\ [Next]_vars => Waiting'
  BY WaitingStep
<1>3. ASSUME Types, Waiting, [Next]_vars, NEW row \in Inserted, RuleType[RuleOf[row.fp]] = "check"
      PROVE  OpensAfterFor(row) \/ row.fp \in cleared
  <2>0. chk \in Locals /\ CheckTypes /\ ActTypes
    BY <1>3 DEF Types, CheckTypes
  <2>1. CASE Inserting /\ row.fp = chk.act.fp
    <3>1. RuleOf[row.fp] = chk.rule
      BY <2>0, <2>1 DEF ActTypes
    <3> QED BY <1>3, <2>1, <3>1 DEF Waiting, SeenFor, OpensAfterFor
  <2>2. ASSUME NEW fp \in Fingerprints, InitLogPattern(fp), row.fp = fp PROVE FALSE
    <3>1. RuleOf[fp] = chk.rule /\ RuleType[chk.rule] = "log"
      BY <2>0, <2>2 DEF CheckTypes, InitLogPattern
    <3> QED BY <1>3, <2>2, <3>1
  <2> QED BY <1>3, <2>1, <2>2, InsertedBy
<1>4. Types /\ Waiting /\ [Next]_vars =>
         [\A row \in Inserted : RuleType[RuleOf[row.fp]] = "check" =>
             OpensAfterFor(row) \/ row.fp \in cleared]_vars
  BY <1>3
<1> QED BY <1>1, <1>2, <1>4, TypesHold, PTL DEF Spec, ForRespected

-----------------------------------------------------------------------------
(* What the resolving loop of a PromQL or log rule leaves alone *)

LEMMA SameEvaluated ==
  ASSUME chk'.seen = chk.seen, chk'.ok = chk.ok, chk'.apps = chk.apps, NEW r
  PROVE  Evaluated(r)' = Evaluated(r)
BY DEF Evaluated, Matching

LEMMA SightedIs ==
  /\ Sighted <=> (chk.pc # "idle" /\ Watched(chk.rule) => Leaves(chk.rule))
  /\ Sighted' <=> (chk'.pc # "idle" /\ Watched(chk'.rule) => Leaves(chk.rule)')
BY DEF Sighted, Watched

LEMMA SightedStep ==
  ASSUME Types, Sighted, [Next]_vars
  PROVE  Sighted'
<1> USE DEF Types
<1>0. alerts \in Seq(Row) /\ chk \in Locals /\ CheckTypes /\ ActTypes /\ Tables
  BY DEF Tables, CheckTypes
<1>1. CASE chk'.pc \in {"idle", "rules", "list", "init", "nonmatching"}
  BY <1>1, SightedIs DEF Leaves, Evaluating
<1>2. ASSUME OldRows, SameRule, chk.pc # "idle", Evaluating' => Evaluating, chk.active \subseteq chk'.active,
             chk'.pc \in {"queue", "write", "enqueue"} /\ chk'.phase = "stale" =>
                /\ chk.pc \in {"queue", "write", "enqueue"} /\ chk.phase = "stale"
                /\ chk'.queue \subseteq chk.queue,
             chk'.pc = "write" /\ chk'.phase = "stale" =>
                \/ chk'.act \in chk.queue
                \/ chk' = chk
      PROVE  Sighted'
  <2> SUFFICES ASSUME Watched(chk.rule) PROVE Leaves(chk.rule)'
    BY <1>2, SightedIs DEF SameRule
  <2>1. PICK r : r = chk.rule
    OBVIOUS
  <2>2. Leaves(r) /\ Evaluated(r)' = Evaluated(r) /\ chk'.rule = r
    BY <1>2, <2>1, SightedIs, SameEvaluated DEF SameRule
  <2>3. \A i \in Ids : alerts'[i].fp = alerts[i].fp
    BY <1>2 DEF OldRows
  <2>4. (\A a \in chk.queue : a.id \in Ids)
        /\ (chk.pc = "write" /\ chk.phase = "stale" => chk.act.id \in Ids)
    BY <1>0 DEF ActTypes
  <2>5. Evaluating' => Evaluated(r)' \subseteq chk'.active
    BY <1>2, <2>2 DEF Leaves
  <2>6. chk'.pc \in {"queue", "write", "enqueue"} /\ chk'.phase = "stale"
          => \A a \in chk'.queue : alerts'[a.id].fp \notin Evaluated(r)'
    BY <1>2, <2>2, <2>3, <2>4 DEF Leaves
  <2>7. chk'.pc = "write" /\ chk'.phase = "stale" => alerts'[chk'.act.id].fp \notin Evaluated(r)'
    BY <1>2, <2>2, <2>3, <2>4 DEF Leaves
  <2> QED BY <2>2, <2>5, <2>6, <2>7 DEF Leaves
<1>3. CASE OthersStep
  <2>1. chk' = chk /\ OldRows
    BY <1>3, OthersFacts DEF OthersDo
  <2>2. CASE chk.pc = "idle"
    BY <1>1, <2>1, <2>2
  <2>3. CASE chk.pc # "idle"
    BY <1>0, <1>2, <2>1, <2>3 DEF SameRule, Evaluating
  <2> QED BY <2>2, <2>3
<1>4. ASSUME alerts' = alerts PROVE OldRows
  BY <1>0, <1>4, SameTable, RowsStay
<1>5. CASE BeginCheck
  BY <1>0, <1>1, <1>5, BeginDoes
<1>6. CASE EndCheck \/ Crash
  BY <1>1, <1>6, IdleFacts DEF EndCheck, Crash
<1>7. ASSUME NEW r \in Rules, NextRule(r) PROVE Sighted'
  BY <1>0, <1>1, <1>7, NextRuleDoes DEF NextRuleOutcome
<1>8. CASE InitLogPatternsEnd \/ ResolveLoopEnds
  <2>1. PICK p \in {"nonmatching", "rules"} : Goes(p)
    BY <1>0, <1>8, InitEndDoes, LoopEndDoes
  <2> QED BY <1>1, <2>1 DEF Goes
<1>9. CASE EvaluationEnds
  <2>1. EndsOutcome /\ alerts' = alerts /\ chk.rule \in Rules
    BY <1>0, <1>9, EndsDoes DEF EvaluationEnds, CheckTypes
  <2> SUFFICES ASSUME Watched(chk.rule) PROVE Leaves(chk.rule)'
    BY <2>1, SightedIs DEF EndsOutcome, SameRule
  <2>2. PICK r : r = chk.rule
    OBVIOUS
  <2>3. Leaves(r) /\ Evaluating
    BY <2>1, <2>2, SightedIs DEF EndsOutcome, Evaluating
  <2>4. Evaluated(r)' = Evaluated(r) /\ chk'.rule = r /\ chk'.pc = "queue"
    BY <2>1, <2>2, SameEvaluated DEF EndsOutcome, SameRule, Watched
  <2>5. ASSUME NEW a \in chk'.queue PROVE alerts'[a.id].fp \notin Evaluated(r)
    <3>1. PICK l \in StaleRead : a = Resolve(l.id, ~l.row.manual) /\ l.row.fp \notin chk.active
      BY <2>1, <2>5 DEF EndsOutcome
    <3>2. a.id = l.id /\ l.row.fp = alerts[l.id].fp
      BY <1>0, <2>1, <3>1, StaleReadFacts DEF Resolve
    <3> QED BY <2>1, <2>3, <3>1, <3>2 DEF Leaves
  <2>6. ~Evaluating'
    BY <2>4 DEF Evaluating
  <2> QED BY <2>4, <2>5, <2>6 DEF Leaves
<1>10. CASE ListNonMatching
  <2>1. NonMatchingOutcome /\ OldRows
    BY <1>0, <1>4, <1>10, NonMatchingDoes DEF ListNonMatching
  <2> QED BY <1>2, <2>1 DEF NonMatchingOutcome, Evaluating
<1>11. ASSUME NEW a \in chk.queue, ResolveNext(a) PROVE Sighted'
  <2>1. NextOutcome(a) /\ OldRows
    BY <1>0, <1>4, <1>11, ResolveNextDoes DEF ResolveNext
  <2>2. chk.phase # "eval"
    BY <1>0, <2>1 DEF NextOutcome, CheckTypes
  <2> QED BY <1>2, <2>1, <2>2 DEF NextOutcome, Evaluating
<1>12. CASE ListRule
  <2>1. ListOutcome
    BY <1>0, <1>12, ListDoes
  <2> SUFFICES ASSUME Watched(chk.rule) PROVE Leaves(chk.rule)'
    BY <2>1, SightedIs DEF ListOutcome, SameRule
  <2>2. PICK r : r = chk.rule
    OBVIOUS
  <2>3. Evaluated(r)' = Evaluated(r) /\ chk'.rule = r /\ chk'.active = Evaluated(r)
    BY <2>1, <2>2, SameEvaluated DEF ListOutcome, SameRule, Watched
  <2> QED BY <2>1, <2>3 DEF Leaves, ListOutcome
<1>13. CASE Enqueue
  <2>1. Goes(Loop) /\ OldRows /\ chk.pc = "enqueue"
    BY <1>0, <1>4, <1>13, EnqueueDoes DEF Enqueue
  <2> QED BY <1>2, <2>1 DEF Goes, Loop, Evaluating
<1>14. CASE StatementFails
  <2>1. FailOutcome /\ OldRows
    BY <1>0, <1>4, <1>14, FailDoes DEF StatementFails
  <2>2. CASE RuleType[chk.rule] = "k8s"
    BY <2>1, <2>2, SightedIs DEF FailOutcome, SameRule, Watched
  <2>3. CASE /\ chk.pc = "eval" /\ chk'.pc = chk.pc /\ chk'.active = chk.active /\ chk'.phase = chk.phase
    BY <1>2, <2>1, <2>3 DEF FailOutcome, Evaluating
  <2>4. CASE chk.pc = "write" /\ chk'.pc = Loop /\ chk'.active = chk.active /\ chk'.phase = chk.phase
    BY <1>2, <2>1, <2>4 DEF FailOutcome, Evaluating, Loop
  <2> QED BY <1>1, <2>1, <2>2, <2>3, <2>4 DEF FailOutcome, Goes
<1>15. ASSUME NEW fp \in Fingerprints, InitLogPattern(fp) PROVE Sighted'
  BY <1>0, <1>1, <1>15, InitDoes DEF InitOutcome
<1>16. ASSUME NEW fp \in Fingerprints, Evaluate(fp) PROVE Sighted'
  <2>1. EvaluateOutcome(fp) /\ OldRows
    BY <1>0, <1>4, <1>16, EvaluateDoes DEF Evaluate
  <2>2. chk.phase = "eval"
    BY <1>0, <2>1 DEF EvaluateOutcome, CheckTypes
  <2> QED BY <1>2, <2>1, <2>2 DEF EvaluateOutcome, Evaluating
<1>17. CASE Write \/ WriteUnheard
  <2>1. Stores /\ StoreOutcome
    BY <1>0, <1>17, StoreDoes DEF StoreOutcome
  <2>2. OldRows
    <3>1. chk.act.op \in {"create", "update", "resolve", "clear"}
          /\ (chk.act.op \in {"update", "resolve"} => chk.act.id \in Ids)
      BY <1>0, <2>1 DEF StoreOutcome, ActTypes, Locals, Acts
    <3> QED BY <1>0, <2>1, <3>1, WriteRows, RowsStay
  <2> QED BY <1>2, <2>1, <2>2 DEF StoreOutcome, Evaluating, Loop
<1> QED BY <1>3, <1>5, <1>6, <1>7, <1>8, <1>9, <1>10, <1>11, <1>12, <1>13, <1>14, <1>15, <1>16, <1>17,
           StepCases DEF ControlStep

\* The evaluation of a PromQL or log rule resolves no alert of a condition that
\* this check saw firing, whoever writes to the rows between its listing and its
\* UPDATE.
THEOREM NotResolvedWhileFiringSafety == Spec => NotResolvedWhileFiring
<1>1. Init => Sighted
  BY IdleFacts DEF Init, Sighted
<1>2. Types /\ Sighted /\ [Next]_vars => Sighted'
  BY SightedStep
<1>3. ASSUME Types, Sighted, NEW type \in {"promql", "log"}, ResolvesFiring(type) PROVE FALSE
  <2>0. CheckTypes /\ ActTypes /\ chk \in Locals
    BY <1>3 DEF Types, CheckTypes
  <2>1. /\ chk.pc = "write" /\ chk.act.op = "resolve" /\ chk.phase # "nonmatching"
        /\ RuleType[chk.rule] \in {"promql", "log"} /\ alerts[chk.act.id].fp \in Evaluated(chk.rule)
    BY <1>3 DEF ResolvesFiring
  <2>2. chk.rule \in Rules
    BY <2>0, <2>1 DEF CheckTypes
  <2>3. chk.phase = "stale"
    BY <2>0, <2>1 DEF ActTypes, Locals
  <2> QED BY <1>3, <2>1, <2>2, <2>3 DEF Sighted, Watched, Leaves
<1>4. Types /\ Sighted /\ [Next]_vars => [~ResolvesFiring("promql") /\ ~ResolvesFiring("log")]_vars
  BY <1>3
<1> QED BY <1>1, <1>2, <1>4, TypesHold, PTL DEF Spec, NotResolvedWhileFiring

=============================================================================
