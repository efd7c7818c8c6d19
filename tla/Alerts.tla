------------------------------- MODULE Alerts -------------------------------
(***************************************************************************)
(* The alerts of one project: the watcher that opens, updates and resolves *)
(* them on every evaluation cycle (watchers/alerts.go), the rows it keeps  *)
(* in Postgres (db/alert.go) and the users who resolve, suppress and reopen *)
(* them or edit and delete the rules meanwhile (api/api.go).               *)
(*                                                                         *)
(* A step of the watcher or of a request is one statement of the database: *)
(* what is read in one step is acted on in a later one, and the others go  *)
(* on in between.  A fingerprint is what calcFingerprint hashes: a rule,   *)
(* an application and, by the rule's source, labels (a log pattern, an     *)
(* event reason, the labels of a PromQL series).                           *)
(*                                                                         *)
(* Time is kept as ages, in evaluation cycles: how long ago the pending    *)
(* alert was first seen, the row updated.  An age that makes no more       *)
(* difference stays as it is (MaxAge), so behaviours are unbounded in      *)
(* time.  Left out: texts, severities, the AI evaluators (nil in main.go), *)
(* and a second replica that still believes it is the primary and checks   *)
(* beside this one (PrimaryLock has what then holds).                      *)
(***************************************************************************)
EXTENDS Naturals, Sequences, FiniteSets

CONSTANTS
    Rules, Fingerprints, Apps,
    NoApp,             \* ApplicationIdZero: an alert of no application
    None,
    RuleType,          \* [Rules -> {"check", "promql", "log", "k8s"}]
    Selected,          \* [Rules -> SUBSET (Apps \cup {NoApp})]: the rule's selector
    Builtin,           \* the rules that cannot be deleted
    RuleSets,          \* the sets of rules a project may have at first
    RuleOf, AppOf,     \* of each fingerprint
    Similar,           \* log patterns that are weakly equal
    For, KeepFiringFor,\* of each rule
    PendingTTL,        \* the 30 minutes of cleanupPendingAlerts
    MaxAlertsPerApp,   \* the cap of log and Kubernetes events rules
    MaxAge,            \* bound: [Rules -> Nat], where the ages of a rule's alerts saturate
    MaxChanges,        \* bound: how often the world changes
    MaxRequests,       \* bound: [Rules -> Nat], how many requests users make of a project with the rule
    MaxFaults,         \* bound: failed queries and crashes of the watcher
    Operations         \* the requests users make

ASSUME AlertsAssumption ==
    /\ NoApp \notin Apps
    /\ None \notin Fingerprints \cup Rules \cup Nat
    /\ RuleType \in [Rules -> {"check", "promql", "log", "k8s"}]
    /\ Selected \in [Rules -> SUBSET (Apps \cup {NoApp})]
    /\ Builtin \subseteq Rules /\ RuleSets \subseteq SUBSET Rules
    /\ RuleOf \in [Fingerprints -> Rules]
    /\ AppOf \in [Fingerprints -> Apps \cup {NoApp}]
    /\ Similar \in [Fingerprints -> SUBSET Fingerprints]
    /\ For \in [Rules -> Nat] /\ KeepFiringFor \in [Rules -> Nat]
    /\ MaxAge \in [Rules -> Nat] /\ MaxRequests \in [Rules -> Nat]
    /\ {PendingTTL, MaxAlertsPerApp, MaxChanges, MaxFaults} \subseteq Nat
    /\ Operations \subseteq {"resolve", "suppress", "reopen", "toggle", "delete"}

ASSUME AgesAssumption ==
    \A r \in Rules :
        /\ For[r] <= MaxAge[r] /\ KeepFiringFor[r] <= MaxAge[r]
        /\ RuleType[r] \in {"check", "promql"} => PendingTTL < MaxAge[r]   \* they alone wait

VARIABLES
    condition,    \* the world: each fingerprint is "firing", "ok" or "absent"
    present,      \* the world: the applications it has
    rules,        \* table alerting_rule: "enabled", "disabled", "deleted" or "never"
    alerts,       \* table alert, in the order of opened_at
    pending,      \* Alerts.pendingAlerts: the age of firstSeen, or None
    initialized,  \* Alerts.initializedProjects of the project
    due,          \* an evaluation cycle ended since the last Check began
    chk,          \* the local variables of the running Check
    req,          \* the local variables of the running request
    opened,       \* alerts whose opening was enqueued for notification
    resolved,     \* alerts whose resolution was enqueued
    streak,       \* history: how long every check saw the fingerprint firing
    quiet,        \* history: see QuietWhileItLasts
    reopened,     \* history: the alerts users reopened
    cleared,      \* history: see ForRespected
    unheard,      \* history: the alerts whose INSERT was reported as failed
    changes, requests, faults

world == <<condition, present>>
history == <<streak, quiet, reopened, cleared, unheard>>
counters == <<changes, requests, faults>>
vars == <<world, rules, alerts, pending, initialized, due, chk, req, opened,
          resolved, history, counters>>

-----------------------------------------------------------------------------
(* Rows of tables alerting_rule and alert *)

Stored(r) == rules[r] \in {"enabled", "disabled"}

Ages == UNION {0..MaxAge[r] : r \in Rules}

Row == [fp : Fingerprints, app : Apps \cup {NoApp}, resolved : BOOLEAN, manual : BOOLEAN,
        suppressed : BOOLEAN, age : Ages]

Ids == 1..Len(alerts)

Older(fp, a) == IF a < MaxAge[RuleOf[fp]] THEN a + 1 ELSE a

\* A row as CreateAlert inserts it.  Kubernetes events of an application that
\* is not in the world make an alert of no application.
NewRow(fp, manual) ==
    [fp |-> fp, app |-> IF AppOf[fp] \in chk.apps THEN AppOf[fp] ELSE NoApp,
     resolved |-> FALSE, manual |-> manual, suppressed |-> FALSE, age |-> 0]

\* The newest row of a set: ORDER BY opened_at DESC LIMIT 1.
Newest(ids) == CHOOSE i \in ids : \A k \in ids : k <= i

\* (mutant of ActiveOrSuppressed: alerts a user resolved are left out)
NotManuallyResolved(fp) ==
    {i \in Ids : /\ alerts[i].fp = fp
                 /\ (~alerts[i].resolved /\ ~alerts[i].manual) \/ alerts[i].suppressed}

\* GetActiveOrSuppressedAlertByFingerprint
ActiveOrSuppressed(fp) ==
    {i \in Ids : alerts[i].fp = fp /\ (~alerts[i].resolved \/ alerts[i].suppressed)}

\* (mutant of LatestByRule: alerts a user resolved are left out)
LatestNotManual(r) == {i \in Ids : /\ RuleOf[alerts[i].fp] = r
                                   /\ ~alerts[i].resolved /\ ~alerts[i].manual}

\* GetLatestAlertsByRule
LatestByRule(r) == {i \in Ids : RuleOf[alerts[i].fp] = r /\ ~alerts[i].resolved}

\* The loops over it keep the newest row of each fingerprint.
NewestByFingerprint(ids) ==
    {i \in ids : \A k \in ids : alerts[k].fp = alerts[i].fp => k <= i}

\* A row as it was read, with its id.
Read(i) == [id |-> i, row |-> alerts[i]]

Firing(row) == ~row.resolved /\ ~row.manual /\ ~row.suppressed

-----------------------------------------------------------------------------
(* What a check is about to write *)

NoAct == [op |-> "none", id |-> 0, fp |-> None, notify |-> FALSE]
Create(fp, notify) == [op |-> "create", id |-> 0, fp |-> fp, notify |-> notify]
Update(i) == [op |-> "update", id |-> i, fp |-> None, notify |-> FALSE]
Resolve(i, notify) == [op |-> "resolve", id |-> i, fp |-> None, notify |-> notify]
Clear(fp) == [op |-> "clear", id |-> 0, fp |-> fp, notify |-> FALSE]

Idle == [pc |-> "idle", seen |-> {}, ok |-> {}, apps |-> {}, loaded |-> {},
         todo |-> {}, rule |-> None, work |-> {}, active |-> {}, listed |-> {},
         made |-> {}, queue |-> {}, phase |-> "eval", act |-> NoAct]

NoRequest == [pc |-> "idle", op |-> "none", id |-> 0, rule |-> None, notify |-> {}]

Init ==
    /\ condition = [fp \in Fingerprints |-> "ok"]
    /\ present = Apps
    /\ \E S \in RuleSets : rules = [r \in Rules |-> IF r \in S THEN "enabled" ELSE "never"]
    /\ alerts = <<>>
    /\ pending = [fp \in Fingerprints |-> None]
    /\ initialized = FALSE
    /\ due = FALSE
    /\ chk = Idle
    /\ req = NoRequest
    /\ opened = {} /\ resolved = {}
    /\ streak = [fp \in Fingerprints |-> None]
    /\ quiet = {} /\ reopened = {} /\ cleared = {} /\ unheard = {}
    /\ changes = 0 /\ requests = 0 /\ faults = 0

-----------------------------------------------------------------------------
(* The world and time *)

WorldChanges ==
    /\ changes < MaxChanges
    /\ changes' = changes + 1
    /\ \/ /\ \E fp \in Fingerprints, c \in {"firing", "ok", "absent"} :
               /\ c # condition[fp] /\ rules[RuleOf[fp]] # "never"
               /\ c = "absent" => RuleType[RuleOf[fp]] = "check"
               /\ condition' = [condition EXCEPT ![fp] = c]
          /\ UNCHANGED present
       \/ /\ \E a \in Apps : present' = IF a \in present THEN present \ {a}
                                                         ELSE present \cup {a}
          /\ UNCHANGED condition
    /\ UNCHANGED <<rules, alerts, pending, initialized, due, chk, req, opened, resolved,
                   history, requests, faults>>

\* An evaluation cycle passes.  A check is short beside the durations of a
\* rule, so time stands still while one runs.
Tick ==
    /\ chk.pc = "idle"
    /\ due' = TRUE
    /\ alerts' = [i \in Ids |-> [alerts[i] EXCEPT !.age = Older(alerts[i].fp, @)]]
    /\ pending' = [fp \in Fingerprints |-> IF pending[fp] = None THEN None ELSE Older(fp, pending[fp])]
    /\ streak' = [fp \in Fingerprints |-> IF streak[fp] = None THEN None ELSE Older(fp, streak[fp])]
    /\ UNCHANGED <<world, rules, initialized, chk, req, opened, resolved, quiet, reopened,
                   cleared, unheard, counters>>

-----------------------------------------------------------------------------
(* The watcher: Alerts.Check *)

\* Check: the world is loaded, the rules are read, HasAlerts is asked.
BeginCheck ==
    /\ chk.pc = "idle"
    /\ due
    /\ due' = FALSE
    /\ initialized' = (initialized \/ alerts # <<>>)
    /\ chk' = [Idle EXCEPT
                 !.pc = "rules",
                 !.seen = {fp \in Fingerprints : condition[fp] = "firing"},
                 !.ok = {fp \in Fingerprints : condition[fp] = "ok"},
                 !.apps = present,
                 !.loaded = {r \in Rules : rules[r] = "enabled"},
                 !.todo = {r \in Rules : Stored(r)}]
    /\ UNCHANGED <<world, rules, alerts, pending, req, opened, resolved, history, counters>>

\* The next rule of the loop.
NextRule(r) ==
    /\ chk.pc = "rules"
    /\ r \in chk.todo
    /\ chk' = [chk EXCEPT !.pc = IF r \in chk.loaded THEN "list" ELSE "nonmatching",
                          !.rule = r,
                          !.todo = @ \ {r}]
    /\ UNCHANGED <<world, rules, alerts, pending, initialized, due, req, opened, resolved,
                   history, counters>>

\* The fingerprints of a rule whose application is in the world and selected.
Matching(r) == {fp \in Fingerprints : /\ RuleOf[fp] = r
                                      /\ AppOf[fp] \in chk.apps \cap Selected[r]}

\* The fingerprints evaluated: a check rule looks at every selected application
\* that has the check; a log rule at the patterns of the selected applications;
\* PromQL and Kubernetes events rules at whatever the query returned.
Evaluated(r) ==
    CASE RuleType[r] = "check" -> Matching(r) \cap (chk.seen \cup chk.ok)
      [] RuleType[r] = "log"   -> Matching(r) \cap chk.seen
      [] OTHER                 -> {fp \in chk.seen : RuleOf[fp] = r}

\* The streaks after fps were looked at.
Seen(fps) == [fp \in Fingerprints |->
                CASE fp \in fps \ chk.seen -> None
                  [] fp \in fps \cap chk.seen /\ streak[fp] = None -> 0
                  [] OTHER -> streak[fp]]

\* History: a query tells about every fingerprint of r at once, a check rule
\* looks at one after the other (Evaluate).
Observe(r) ==
    LET firing == Evaluated(r) \cap chk.seen
    IN  /\ streak' = IF RuleType[r] = "check" THEN streak
                     ELSE Seen({fp \in Fingerprints : RuleOf[fp] = r})
        /\ quiet' = quiet \ {fp \in Fingerprints : RuleOf[fp] = r /\ fp \notin firing}
        /\ UNCHANGED <<reopened, cleared, unheard>>

\* The first statement of the evaluation of an enabled rule.  Log and Kubernetes
\* events rules read the rows of the rule once, before they evaluate.
ListRule ==
    /\ chk.pc = "list"
    /\ LET r == chk.rule
           init == RuleType[r] = "log" /\ ~initialized
       IN  /\ Observe(r)
           /\ chk' = [chk EXCEPT
                !.pc = IF init THEN "init" ELSE "eval",
                !.phase = "eval",
                !.work = Evaluated(r),
                !.active = IF RuleType[r] = "check" THEN {} ELSE Evaluated(r),
                !.made = {},
                !.listed = IF RuleType[r] \in {"log", "k8s"}
                           THEN {Read(i) : i \in NewestByFingerprint(LatestByRule(r))}
                           ELSE {}]
    /\ UNCHANGED <<world, rules, alerts, pending, initialized, due, req, opened, resolved,
                   counters>>

\* The loop a write returns to.
Loop == IF chk.phase = "eval" THEN "eval" ELSE "queue"

\* A statement or a query of the running check fails without effect (WriteUnheard
\* has the other outcome of a write).  What was asked for is skipped, except by
\* evaluateKubernetesEventsAlerts: it goes on without events.
StatementFails ==
    /\ faults < MaxFaults
    /\ faults' = faults + 1
    /\ LET type == IF chk.rule = None THEN "none" ELSE RuleType[chk.rule]
           ends(loop) == chk' = [chk EXCEPT !.pc = loop]
           skips(fp) == chk' = [chk EXCEPT !.work = @ \ {fp}]
       IN  \/ chk.pc = "list" /\ type # "check" /\ (type = "log" => initialized)
              /\ ends("nonmatching")
           \/ chk.pc = "list" /\ type = "k8s"
              /\ chk' = [chk EXCEPT
                   !.pc = "eval", !.phase = "eval", !.work = {}, !.active = {}, !.made = {},
                   !.listed = {Read(i) : i \in NewestByFingerprint(LatestByRule(chk.rule))}]
           \/ chk.pc = "init" /\ \E fp \in chk.work : skips(fp)
           \/ chk.pc = "eval" /\ type \in {"check", "promql"} /\ \E fp \in chk.work : skips(fp)
           \/ chk.pc = "eval" /\ type = "promql" /\ chk.work = {} /\ ends("nonmatching")
           \/ chk.pc = "write"
              /\ chk' = [chk EXCEPT !.pc = Loop, !.made = @ \ {chk.act.fp}]
           \/ chk.pc = "nonmatching" /\ ends("rules")
    /\ UNCHANGED <<world, rules, alerts, pending, initialized, due, req, opened, resolved,
                   history, changes, requests>>

\* initLogPatternAlerts: while the project has no alerts, the patterns become
\* alerts that are already resolved.
InitLogPattern(fp) ==
    /\ chk.pc = "init"
    /\ fp \in chk.work
    /\ alerts' = Append(alerts, NewRow(fp, TRUE))
    /\ chk' = [chk EXCEPT !.work = @ \ {fp}]
    /\ UNCHANGED <<world, rules, pending, initialized, due, req, opened, resolved, history,
                   counters>>

InitLogPatternsEnd ==
    /\ chk.pc = "init"
    /\ chk.work = {}
    /\ chk' = [chk EXCEPT !.pc = "nonmatching"]
    /\ UNCHANGED <<world, rules, alerts, pending, initialized, due, req, opened, resolved,
                   history, counters>>

\* The decision about fp: write a next (nothing to write: go on).
Decided(fp, a) ==
    chk' = [chk EXCEPT !.pc = IF a.op = "none" THEN "eval" ELSE "write",
                       !.act = a,
                       !.work = @ \ {fp},
                       !.made = IF a.op = "create" THEN @ \cup {fp} ELSE @]

\* (mutant of OpenOrWait: the age of firstSeen is not compared with For)
OpenAtSecondSight(fp) ==
    IF For[RuleOf[fp]] > 0 /\ pending[fp] = None
    THEN Decided(fp, NoAct) /\ pending' = [pending EXCEPT ![fp] = 0]
    ELSE Decided(fp, Create(fp, TRUE)) /\ pending' = [pending EXCEPT ![fp] = None]

\* (mutant of OpenOrWait: firstSeen is set anew every time)
RestartWait(fp) ==
    IF For[RuleOf[fp]] > 0 /\ (pending[fp] = None \/ pending[fp] < For[RuleOf[fp]])
    THEN Decided(fp, NoAct) /\ pending' = [pending EXCEPT ![fp] = 0]
    ELSE Decided(fp, Create(fp, TRUE)) /\ pending' = [pending EXCEPT ![fp] = None]

\* For: a new alert waits in pendingAlerts until it was seen for long enough.
OpenOrWait(fp) ==
    LET wait == For[RuleOf[fp]]
    IN  IF wait > 0 /\ pending[fp] = None
        THEN Decided(fp, NoAct) /\ pending' = [pending EXCEPT ![fp] = 0]
        ELSE IF wait > 0 /\ pending[fp] < wait
             THEN Decided(fp, NoAct) /\ UNCHANGED pending
             ELSE Decided(fp, Create(fp, TRUE)) /\ pending' = [pending EXCEPT ![fp] = None]

\* (mutant of KeepsFiring: the comparison is inverted)
KeepsFiringLate(r, row) == KeepFiringFor[r] > 0 /\ row.age >= KeepFiringFor[r]

\* KeepFiringFor: the row was updated too recently to be resolved.
KeepsFiring(r, row) == KeepFiringFor[r] > 0 /\ row.age < KeepFiringFor[r]

\* evaluateCheckAlert, up to what it writes.
EvaluateCheckAlert(fp) ==
    /\ RuleType[chk.rule] = "check"
    /\ LET ids == ActiveOrSuppressed(fp)
           i == Newest(ids)
           none == ids = {}
           isFiring == fp \in chk.seen
       IN  \/ ~none /\ alerts[i].suppressed /\ isFiring
              /\ Decided(fp, NoAct) /\ UNCHANGED pending
           \/ ~none /\ alerts[i].suppressed /\ ~isFiring
              /\ Decided(fp, Clear(fp)) /\ UNCHANGED pending
           \/ none /\ isFiring /\ OpenOrWait(fp)
           \/ ~none /\ ~alerts[i].suppressed /\ isFiring
              /\ Decided(fp, Update(i)) /\ UNCHANGED pending
           \/ none /\ ~isFiring
              /\ Decided(fp, NoAct) /\ pending' = [pending EXCEPT ![fp] = None]
           \/ ~none /\ ~alerts[i].suppressed /\ ~isFiring
              /\ Decided(fp, IF KeepsFiring(chk.rule, alerts[i]) THEN NoAct ELSE Resolve(i, TRUE))
              /\ pending' = [pending EXCEPT ![fp] = None]

\* evaluatePromQLAlerts: a series the query returned.
EvaluatePromQLAlert(fp) ==
    /\ RuleType[chk.rule] = "promql"
    /\ LET ids == ActiveOrSuppressed(fp)
           i == Newest(ids)
       IN  \/ ids # {} /\ alerts[i].suppressed /\ Decided(fp, NoAct) /\ UNCHANGED pending
           \/ ids = {} /\ OpenOrWait(fp)
           \/ ids # {} /\ ~alerts[i].suppressed /\ Decided(fp, Update(i)) /\ UNCHANGED pending

\* (mutant of FiringCount: firingCountByApp does not grow with a new alert)
FiringCountAsListed(fp) ==
    Cardinality({l \in chk.listed : l.row.app = AppOf[fp] /\ ~l.row.manual /\ ~l.row.suppressed})

\* The listed alerts that count against the cap of the application of fp, and
\* the ones this evaluation opened.
FiringCount(fp) ==
    Cardinality({l \in chk.listed : /\ l.row.app = AppOf[fp]
                                    /\ ~l.row.manual /\ ~l.row.suppressed})
    + Cardinality({g \in chk.made : AppOf[g] = AppOf[fp]})

\* findBlockingAlert: the listed alert of the pattern, else of a similar one.
BlockingAlerts(fp) ==
    LET own == {l \in chk.listed : l.row.fp = fp}
    IN  IF own # {} THEN own
        ELSE {l \in chk.listed : l.row.fp \in Similar[fp] /\ l.row.app = AppOf[fp]}

\* evaluateLogPatternAlerts: a pattern with enough messages.
EvaluateLogPatternAlert(fp) ==
    /\ RuleType[chk.rule] = "log"
    /\ \/ \E l \in BlockingAlerts(fp) :
             chk' = [chk EXCEPT
                !.pc = IF l.row.suppressed \/ l.row.manual THEN "eval" ELSE "write",
                !.act = IF l.row.suppressed \/ l.row.manual THEN NoAct ELSE Update(l.id),
                !.work = @ \ {fp},
                !.active = @ \cup {l.row.fp}]
       \/ /\ BlockingAlerts(fp) = {}
          /\ Decided(fp, IF FiringCount(fp) >= MaxAlertsPerApp THEN NoAct ELSE Create(fp, TRUE))
    /\ UNCHANGED pending

\* evaluateKubernetesEventsAlerts: a group of events.  The rule's selector is
\* not asked here.
EvaluateKubernetesEventsAlert(fp) ==
    /\ RuleType[chk.rule] = "k8s"
    /\ LET own == {l \in chk.listed : l.row.fp = fp}
       IN  \/ \E l \in own : Decided(fp, IF l.row.suppressed THEN NoAct ELSE Update(l.id))
           \/ /\ own = {}
              /\ Decided(fp, IF AppOf[fp] # NoApp /\ FiringCount(fp) >= MaxAlertsPerApp
                             THEN NoAct ELSE Create(fp, TRUE))
    /\ UNCHANGED pending

Evaluate(fp) ==
    /\ chk.pc = "eval"
    /\ fp \in chk.work
    /\ \/ EvaluateCheckAlert(fp) \/ EvaluatePromQLAlert(fp)
       \/ EvaluateLogPatternAlert(fp) \/ EvaluateKubernetesEventsAlert(fp)
    /\ streak' = IF RuleType[chk.rule] = "check" THEN Seen({fp}) ELSE streak
    /\ cleared' = IF RuleType[chk.rule] # "check" \/ fp \in chk.seen THEN cleared
                  ELSE IF chk'.act.op = "clear" THEN cleared \cup {fp} ELSE cleared \ {fp}
    /\ UNCHANGED <<world, rules, alerts, initialized, due, req, opened, resolved, quiet,
                   reopened, unheard, counters>>

\* (mutant of Stale: activeFingerprints is not asked)
StaleWithoutActive(listed) == {l \in listed : ~l.row.suppressed}

\* The listed alerts whose condition was not seen.
Stale(listed) == {l \in listed : l.row.fp \notin chk.active /\ ~l.row.suppressed}

\* (mutant of NotYetEnded: the condition is inverted)
AlreadyEnded(row) == row.manual

\* The end is announced now, unless a user resolved the alert before.
NotYetEnded(row) == ~row.manual

\* The end of the evaluation loop: a check rule is done; the others resolve the
\* listed alerts that are not active any more (a PromQL rule lists them now).
EvaluationEnds ==
    /\ chk.pc = "eval"
    /\ chk.work = {}
    /\ LET r == chk.rule
           listed == IF RuleType[r] = "promql" THEN {Read(i) : i \in LatestByRule(r)}
                     ELSE chk.listed
           stale == Stale(listed)
       IN  /\ chk' = [chk EXCEPT
                !.pc = IF RuleType[r] = "check" THEN "nonmatching" ELSE "queue",
                !.phase = "stale",
                !.queue = {Resolve(l.id, NotYetEnded(l.row)) :
                             l \in {m \in stale : ~KeepsFiring(r, m.row)}}]
           /\ pending' = IF RuleType[r] = "promql"
                         THEN [fp \in Fingerprints |-> IF \E l \in stale : l.row.fp = fp
                                                       THEN None ELSE pending[fp]]
                         ELSE pending
    /\ UNCHANGED <<world, rules, alerts, initialized, due, req, opened, resolved, history,
                   counters>>

\* resolveNonMatchingAlerts: the rule is disabled, or does not select the
\* application of the alert, or the application is gone.
ListNonMatching ==
    /\ chk.pc = "nonmatching"
    /\ LET r == chk.rule
           kept(i) == /\ r \in chk.loaded
                      /\ alerts[i].app \in Selected[r]
                      /\ alerts[i].app \in chk.apps \cup {NoApp}
       IN  chk' = [chk EXCEPT
                !.pc = "queue", !.phase = "nonmatching",
                !.queue = {Resolve(i, NotYetEnded(alerts[i])) : i \in {k \in LatestByRule(r) : ~kept(k)}}]
    /\ UNCHANGED <<world, rules, alerts, pending, initialized, due, req, opened, resolved,
                   history, counters>>

\* The next alert of a resolving loop.
ResolveNext(a) ==
    /\ chk.pc = "queue"
    /\ a \in chk.queue
    /\ chk' = [chk EXCEPT !.pc = "write", !.act = a, !.queue = @ \ {a}]
    /\ UNCHANGED <<world, rules, alerts, pending, initialized, due, req, opened, resolved,
                   history, counters>>

ResolveLoopEnds ==
    /\ chk.pc = "queue"
    /\ chk.queue = {}
    /\ chk' = [chk EXCEPT !.pc = IF chk.phase = "stale" THEN "nonmatching" ELSE "rules"]
    /\ UNCHANGED <<world, rules, alerts, pending, initialized, due, req, opened, resolved,
                   history, counters>>

\* (mutant of Written: the alert is announced but was not inserted)
NotInserted(a) ==
    CASE a.op = "create"  -> alerts
      [] a.op = "update"  -> [alerts EXCEPT ![a.id].resolved = FALSE, ![a.id].age = 0]
      [] a.op = "resolve" -> [alerts EXCEPT ![a.id].resolved = TRUE, ![a.id].age = 0]
      [] OTHER -> [i \in Ids |-> IF alerts[i].fp = a.fp
                                 THEN [alerts[i] EXCEPT !.suppressed = FALSE] ELSE alerts[i]]

\* The table after CreateAlert, UpdateAlert (which writes back the resolved_at
\* it read: 0), ResolveAlert or ClearSuppression.
Written(a) ==
    CASE a.op = "create"  -> Append(alerts, NewRow(a.fp, FALSE))
      [] a.op = "update"  -> [alerts EXCEPT ![a.id].resolved = FALSE, ![a.id].age = 0]
      [] a.op = "resolve" -> [alerts EXCEPT ![a.id].resolved = TRUE, ![a.id].age = 0]
      [] OTHER -> [i \in Ids |-> IF alerts[i].fp = a.fp
                                 THEN [alerts[i] EXCEPT !.suppressed = FALSE] ELSE alerts[i]]

\* The statement of a write takes effect.
Stores ==
    /\ chk.pc = "write"
    /\ alerts' = Written(chk.act)
    /\ quiet' = IF chk.act.op = "resolve" THEN quiet \ {alerts[chk.act.id].fp} ELSE quiet
    /\ UNCHANGED <<world, rules, pending, initialized, due, req, opened, resolved, streak,
                   reopened, cleared, changes, requests>>

Write ==
    /\ Stores
    /\ chk' = [chk EXCEPT !.pc = IF chk.act.notify THEN "enqueue" ELSE Loop,
                          !.act.id = IF chk.act.op = "create" THEN Len(alerts) + 1 ELSE @]
    /\ UNCHANGED <<unheard, faults>>

\* The statement took effect but is reported as failed (a timeout, a lost
\* connection): nothing is announced, and firingCountByApp does not grow.
WriteUnheard ==
    /\ faults < MaxFaults
    /\ faults' = faults + 1
    /\ Stores
    /\ chk' = [chk EXCEPT !.pc = Loop, !.made = @ \ {chk.act.fp}]
    /\ unheard' = IF chk.act.op = "create" THEN unheard \cup {Len(alerts) + 1} ELSE unheard

\* (mutant of Enqueue: a new alert is not announced)
EnqueueResolvedOnly ==
    /\ chk.pc = "enqueue"
    /\ resolved' = IF chk.act.op = "create" THEN resolved ELSE resolved \cup {chk.act.id}
    /\ chk' = [chk EXCEPT !.pc = Loop]
    /\ UNCHANGED <<world, rules, alerts, pending, initialized, due, req, opened, history, counters>>

\* AlertNotifier.Enqueue, after the write.
Enqueue ==
    /\ chk.pc = "enqueue"
    /\ IF chk.act.op = "create"
       THEN opened' = opened \cup {chk.act.id} /\ UNCHANGED resolved
       ELSE resolved' = resolved \cup {chk.act.id} /\ UNCHANGED opened
    /\ chk' = [chk EXCEPT !.pc = Loop]
    /\ UNCHANGED <<world, rules, alerts, pending, initialized, due, req, history, counters>>

\* The end of Check: cleanupPendingAlerts.
EndCheck ==
    /\ chk.pc = "rules"
    /\ chk.todo = {}
    /\ pending' = [fp \in Fingerprints |->
                     IF pending[fp] # None /\ pending[fp] > PendingTTL THEN None ELSE pending[fp]]
    /\ chk' = Idle
    /\ UNCHANGED <<world, rules, alerts, initialized, due, req, opened, resolved, history,
                   counters>>

\* The replica stops and another one goes on: what was in memory is lost.
Crash ==
    /\ faults < MaxFaults
    /\ faults' = faults + 1
    /\ chk' = Idle
    /\ pending' = [fp \in Fingerprints |-> None]
    /\ initialized' = FALSE
    /\ UNCHANGED <<world, rules, alerts, due, req, opened, resolved, history, changes, requests>>

-----------------------------------------------------------------------------
(* The users' requests (api/api.go, one at a time) *)

Request(op) ==
    /\ op \in Operations
    /\ req.pc = "idle"
    /\ \A r \in Rules : rules[r] # "never" => requests < MaxRequests[r]
    /\ requests' = requests + 1

\* ResolveAlerts and SuppressAlerts first read the alert, to know whether to
\* notify of it.
ReadAlert(op, i) ==
    /\ op \in {"resolve", "suppress"}
    /\ Request(op)
    /\ req' = [pc |-> "update", op |-> op, id |-> i, rule |-> RuleOf[alerts[i].fp],
               notify |-> IF \/ op = "resolve" /\ ~alerts[i].resolved
                             \/ op = "suppress" /\ Firing(alerts[i])
                          THEN {i} ELSE {}]
    /\ UNCHANGED <<world, rules, alerts, pending, initialized, due, chk, opened, resolved,
                   history, changes, faults>>

\* AlertingRule, DELETE: the rule is there; ResolveAlertsByRule reads its alerts.
ReadRule(r) ==
    /\ Request("delete")
    /\ Stored(r)
    /\ req' = [pc |-> "update", op |-> "delete", id |-> 0, rule |-> r,
               notify |-> LatestByRule(r)]
    /\ UNCHANGED <<world, rules, alerts, pending, initialized, due, chk, opened, resolved,
                   history, changes, faults>>

\* ReopenAlerts, one statement; nothing is sent.
ReopenAlerts(i) ==
    /\ Request("reopen")
    /\ alerts[i].manual \/ alerts[i].suppressed
    /\ alerts' = [alerts EXCEPT ![i].manual = FALSE, ![i].suppressed = FALSE, ![i].age = 0]
    /\ quiet' = quiet \ {alerts[i].fp}
    /\ reopened' = reopened \cup {i}
    /\ UNCHANGED <<world, rules, pending, initialized, due, chk, req, opened, resolved, streak,
                   cleared, unheard, changes, faults>>

\* AlertingRule, PUT: the rule is switched off or on.
UpdateAlertingRule(r) ==
    /\ Request("toggle")
    /\ Stored(r)
    /\ rules' = [rules EXCEPT ![r] = IF @ = "enabled" THEN "disabled" ELSE "enabled"]
    /\ UNCHANGED <<world, alerts, pending, initialized, due, chk, req, opened, resolved,
                   history, changes, faults>>

\* The UPDATE of db.ResolveAlerts, db.SuppressAlerts and db.ResolveAlertsByRule.
UpdateRows ==
    /\ req.pc = "update"
    /\ alerts' =
         CASE req.op = "resolve" ->
                IF alerts[req.id].resolved THEN alerts
                ELSE [alerts EXCEPT ![req.id].manual = TRUE, ![req.id].age = 0]
           [] req.op = "suppress" ->
                [alerts EXCEPT ![req.id] = [@ EXCEPT !.suppressed = TRUE, !.resolved = FALSE,
                                                     !.manual = FALSE, !.age = 0]]
           [] OTHER ->
                [i \in Ids |-> IF i \in LatestByRule(req.rule)
                               THEN [alerts[i] EXCEPT !.resolved = TRUE, !.age = 0]
                               ELSE alerts[i]]
    /\ req' = [req EXCEPT !.pc = "enqueue"]
    /\ quiet' = IF req.op = "delete" THEN {fp \in quiet : RuleOf[fp] # req.rule}
                ELSE IF Firing(alerts[req.id]) /\ (req.id \in reopened => chk.pc = "idle")
                     THEN quiet \cup {alerts[req.id].fp} ELSE quiet
    /\ UNCHANGED <<world, rules, pending, initialized, due, chk, opened, resolved, streak,
                   reopened, cleared, unheard, counters>>

\* EnqueueResolvedAlerts, if the rule is still there.
EnqueueResolvedAlerts ==
    /\ req.pc = "enqueue"
    /\ resolved' = IF Stored(req.rule) THEN resolved \cup req.notify ELSE resolved
    /\ req' = IF req.op = "delete" THEN [req EXCEPT !.pc = "delete"] ELSE NoRequest
    /\ UNCHANGED <<world, rules, alerts, pending, initialized, due, chk, opened, history,
                   counters>>

\* DeleteAlertingRule: built-in rules stay.
DeleteAlertingRule ==
    /\ req.pc = "delete"
    /\ rules' = IF req.rule \in Builtin THEN rules ELSE [rules EXCEPT ![req.rule] = "deleted"]
    /\ req' = NoRequest
    /\ UNCHANGED <<world, alerts, pending, initialized, due, chk, opened, resolved, history,
                   counters>>

\* A statement of the request fails, or is reported as failed, or the replica that
\* serves it stops.  The handler of DELETE goes on when ResolveAlertsByRule failed,
\* without telling of the alerts it may have resolved.
RequestFails ==
    /\ req.pc # "idle"
    /\ faults < MaxFaults
    /\ faults' = faults + 1
    /\ \/ req' = NoRequest
       \/ /\ req.op = "delete" /\ req.pc \in {"update", "enqueue"}
          /\ req' = [req EXCEPT !.pc = "delete"]
    /\ UNCHANGED <<world, rules, alerts, pending, initialized, due, chk, opened, resolved,
                   history, changes, requests>>

-----------------------------------------------------------------------------
\* A step of the running check.
CheckStep ==
    \/ \E r \in Rules : NextRule(r)
    \/ ListRule
    \/ \E fp \in Fingerprints : InitLogPattern(fp) \/ Evaluate(fp)
    \/ InitLogPatternsEnd \/ EvaluationEnds \/ ListNonMatching
    \/ \E a \in chk.queue : ResolveNext(a)
    \/ ResolveLoopEnds \/ Write \/ Enqueue \/ EndCheck

\* A step of the running request.
RequestStep == UpdateRows \/ EnqueueResolvedAlerts \/ DeleteAlertingRule

NewRequest ==
    \/ \E i \in Ids : ReadAlert("resolve", i) \/ ReadAlert("suppress", i) \/ ReopenAlerts(i)
    \/ \E r \in Rules : ReadRule(r) \/ UpdateAlertingRule(r)

Next ==
    \/ WorldChanges \/ Tick
    \/ BeginCheck \/ CheckStep \/ StatementFails \/ WriteUnheard \/ Crash
    \/ NewRequest \/ RequestStep \/ RequestFails

Spec == Init /\ [][Next]_vars

(* The evaluator starts a cycle every 15 seconds and a check follows each; *)
(* the steps of a running check and of a running request follow each other. *)
Fairness == /\ WF_vars(Tick) /\ WF_vars(BeginCheck)
            /\ WF_vars(CheckStep) /\ WF_vars(RequestStep)

FairSpec == Spec /\ Fairness

-----------------------------------------------------------------------------
(* Properties *)

Acts == [op : {"none", "create", "update", "resolve", "clear"}, id : Nat,
         fp : Fingerprints \cup {None}, notify : BOOLEAN]

\* Type correctness of the table, the watcher and the request.
TypeOK ==
    /\ condition \in [Fingerprints -> {"firing", "ok", "absent"}]
    /\ present \subseteq Apps
    /\ rules \in [Rules -> {"never", "enabled", "disabled", "deleted"}]
    /\ alerts \in Seq(Row)
    /\ pending \in [Fingerprints -> Ages \cup {None}]
    /\ initialized \in BOOLEAN /\ due \in BOOLEAN
    /\ chk.pc \in {"idle", "rules", "list", "init", "eval", "write", "enqueue", "queue",
                   "nonmatching"}
    /\ chk.phase \in {"eval", "stale", "nonmatching"}
    /\ chk.rule \in Rules \cup {None}
    /\ chk.work \subseteq Fingerprints
    /\ chk.queue \subseteq Acts /\ chk.act \in Acts
    /\ \A a \in chk.queue \cup {chk.act} : a.op \in {"update", "resolve"} => a.id \in Ids
    /\ req.pc \in {"idle", "update", "enqueue", "delete"}
    /\ req.op \in {"resolve", "suppress"} => req.id \in Ids
    /\ (opened \cup resolved \cup reopened \cup unheard) \subseteq Ids
    /\ streak \in [Fingerprints -> Ages \cup {None}]
    /\ quiet \subseteq Fingerprints /\ cleared \subseteq Fingerprints
    /\ changes \in 0..MaxChanges /\ requests \in Nat /\ faults \in 0..MaxFaults

\* The row a step inserted, if it did.
Inserted == IF Len(alerts') > Len(alerts) THEN {alerts'[Len(alerts')]} ELSE {}

\* An alert is opened only when every check that looked at its condition during
\* the rule's For saw it firing: "How long the condition must be true before the
\* alert fires".
OpensAfterFor(row) == /\ streak[row.fp] # None
                      /\ streak[row.fp] >= For[RuleOf[row.fp]]

\* evaluateCheckAlert respects For, across restarts, failing statements and
\* requests: it deletes the entry of pendingAlerts with the first clear check,
\* unless that check found the alert suppressed (and cleared the suppression).
ForRespected ==
    [][\A row \in Inserted : RuleType[RuleOf[row.fp]] = "check" =>
          OpensAfterFor(row) \/ row.fp \in cleared]_vars

\* The same of both sources that look at For, without the exception: "This
\* prevents transient spikes from causing alerts".
ForAlwaysRespected ==
    [][\A row \in Inserted :
          RuleType[RuleOf[row.fp]] \in {"check", "promql"} => OpensAfterFor(row)]_vars

\* After a user resolved or suppressed an active alert no new alert is opened for
\* the same condition for as long as every check sees it: "marks it as resolved
\* for this occurrence", "will not re-fire even if the condition persists".  Left
\* out is an alert that was reopened before and is ended again while a check
\* runs, which may have listed it, or decided, when it was not active.
QuietWhileItLasts == [][\A row \in Inserted : row.fp \notin quiet]_vars

\* Without faults every active alert was announced, or was reopened by a user
\* (ReopenAlerts sends nothing), between checks.
FiringAnnounced ==
    faults = 0 /\ chk.pc = "idle" =>
        \A i \in Ids : Firing(alerts[i]) => i \in opened \cup reopened

\* Without faults an alert whose opening was announced is not left without the
\* announcement of its end, whoever ended it: the watcher (ResolveAlert, then
\* Enqueue unless a user had resolved it) or a user (EnqueueResolvedAlerts).
\* Alerts of deleted rules are left out, and of built-in ones that users try to
\* delete (see the README).
EndAnnounced ==
    faults = 0 /\ chk.pc = "idle" /\ req.pc = "idle" =>
        \A i \in opened :
            /\ Stored(RuleOf[alerts[i].fp]) /\ ~Firing(alerts[i])
            /\ RuleOf[alerts[i].fp] \in Builtin => "delete" \notin Operations
            => i \in resolved

\* A step of this check resolves an alert of a condition it saw firing (the
\* loop over alerts that do not match their rule apart).
ResolvesFiring(type) ==
    \E i \in Ids : /\ chk.pc = "write" /\ chk.act.op = "resolve" /\ i = chk.act.id
                   /\ chk.phase # "nonmatching" /\ RuleType[chk.rule] = type
                   /\ alerts' # alerts /\ alerts[i].fp \in Evaluated(chk.rule) \cap chk.seen

\* The evaluation of a PromQL or log rule resolves no alert whose condition this
\* very check saw firing: "the alert remains active until the condition clears".
NotResolvedWhileFiring == [][~ResolvesFiring("promql") /\ ~ResolvesFiring("log")]_vars

\* The same of a Kubernetes events rule, whose query may have failed.
EventsNotResolvedWhileFiring == [][~ResolvesFiring("k8s")]_vars

\* The alerts that firingCountByApp cannot know of: users reopened them while it
\* was kept, or their INSERT was reported as failed.
Uncounted == reopened \cup unheard

\* A log or Kubernetes events rule opens at most MaxAlertsPerApp alerts of an
\* application that fire at once (firingCountByApp), whatever users and failures
\* do to the rows it counts.  Left out are the alerts it cannot know of, which
\* exceed the cap in the code too, and, with the module, a second primary that
\* checks beside this one: each of the two counts its own.
CapRespected ==
    \A r \in Rules, a \in Apps :
        RuleType[r] \in {"log", "k8s"} =>
            Cardinality({i \in Ids \ Uncounted :
                           /\ RuleOf[alerts[i].fp] = r /\ alerts[i].app = a
                           /\ Firing(alerts[i])}) <= MaxAlertsPerApp

\* A condition that stays clear does not keep an alert active for ever, whatever
\* the requests that raced with the checks: "the alert remains active until the
\* condition clears".
ClearedIsResolved ==
    \A fp \in Fingerprints :
        <>[](condition[fp] = "ok" /\ present = Apps)
            => <>[](\A i \in Ids : alerts[i].fp = fp /\ ~alerts[i].suppressed => alerts[i].resolved)

\* A condition that lasts opens an alert (or finds one a user resolved or
\* suppressed), however the For timer, restarts and failing statements
\* interleave, if For is at most PendingTTL (assumed by the run's instance):
\* "Coroot waits for the configured For duration before firing the alert".
LastingConditionFires ==
    \A fp \in Fingerprints :
        <>[](/\ condition[fp] = "firing" /\ present = Apps
             /\ rules[RuleOf[fp]] = "enabled")
            => <>[](ActiveOrSuppressed(fp) # {})
=============================================================================
