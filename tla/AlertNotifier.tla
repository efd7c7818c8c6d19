--------------------------- MODULE AlertNotifier ---------------------------
(***************************************************************************)
(* The notifications of alerts: the table alert_notification as an outbox  *)
(* (db/alert_notification.go), the watcher that puts a notification for    *)
(* each destination and sends what is not sent yet, the retry of every     *)
(* minute (notifications/alerts.go), and the requests by which users end   *)
(* alerts, which only put notifications (EnqueueResolvedAlerts).           *)
(*                                                                         *)
(* Two replicas share the table.  The threads of a replica (its watcher,   *)
(* its retry, a request) interleave statement by statement; a pass over    *)
(* the table works on what it read at its start.  The life of an alert is  *)
(* reduced to what its notifications see of it (Alerts has the rest), and  *)
(* GetPrimaryLock to the replica that would get true (PrimaryLock).        *)
(*                                                                         *)
(* Left out: several projects (a project is part of every key), the text   *)
(* of messages, changes of the destinations a category has enabled.        *)
(***************************************************************************)
EXTENDS Naturals, Sequences, FiniteSets

CONSTANTS
    Replicas,
    Destinations,
    Routes,         \* the destinations a category may enable, in the order of Enqueue
    Pagers,         \* the destinations that open and close by key (PagerDuty, Opsgenie)
    Slacks,         \* the destinations that reply in the thread of a key (Slack)
    Alerts,         \* ids of alerts, in the order of ORDER BY alert_id
    Severities,
    NoKey,          \* an empty external_key
    Posted,         \* the external_key Slack gives a message
    None,
    Window,         \* retryWindow
    MaxTime,        \* bound: how far the clock runs
    MaxRequests,    \* bound: how many requests users make
    MaxFaults,      \* bound: failed statements and sends, crashes, lost sessions
    LockLoss,       \* whether a lost session of the primary is among the faults
    Operations      \* the requests users make

ASSUME NotifierAssumption ==
    /\ Routes \subseteq Seq(Destinations) \ {<<>>}
    /\ Pagers \subseteq Destinations /\ Slacks \subseteq Destinations \ Pagers
    /\ Alerts \subseteq Nat
    /\ {Window, MaxTime, MaxRequests, MaxFaults} \subseteq Nat /\ MaxTime > 0
    /\ None \notin Replicas /\ NoKey # Posted
    /\ LockLoss \in BOOLEAN
    /\ Operations \subseteq {"end", "severity", "integration"}
    /\ "OK" \notin Severities

VARIABLES
    primary,      \* the replica GetPrimaryLock answers true, or None
    up,           \* the replicas that run
    now,          \* the clock, shared, in seconds that matter
    checked,      \* when the last check of each replica's watcher began
    route,        \* the destinations enabled for the category of the alerts
    severity,     \* of the alerting rule
    clients,      \* the destinations whose integration is configured and enabled
    alerts,       \* table alert
    outbox,       \* table alert_notification, in the order of insertion
    thread,       \* the local variables of each thread
    pages,        \* external: the <<pager, key>> that are open
    hist,         \* history of each notification, see Fresh
    lost,         \* history: a primary lost its lock and went on
    requests, faults

settings == <<route, severity, clients>>
tables == <<settings, alerts, outbox>>
process == <<primary, up, now, checked, lost>>
vars == <<primary, up, now, checked, settings, alerts, outbox, thread, pages,
          hist, lost, requests, faults>>

-----------------------------------------------------------------------------
(* Threads *)

Threads == Replicas \X {"watcher", "retry", "api"}

Idle == [pc |-> "idle", alert |-> None, sev |-> None,
         resolved |-> FALSE, ts |-> 0, left |-> <<>>, todo |-> {},
         clients |-> {}, cur |-> None]

\* The sendLock of its process is held by the thread.
Sending(p) == thread[p].pc \in {"send", "mark"}

\* The notifications a pass holds.
Held(p) == {n.id : n \in thread[p].todo}
             \cup (IF thread[p].pc = "mark" THEN {thread[p].cur.id} ELSE {})

Step(p, t) == thread' = [thread EXCEPT ![p] = t]

Fault == faults < MaxFaults /\ faults' = faults + 1
NoFault == faults' = faults

-----------------------------------------------------------------------------
(* The table alert_notification *)

Ids == DOMAIN outbox

\* What the history keeps of a notification: who put it, how often it was
\* delivered, whether it was a reply in a thread, and what befell it.
Fresh(by) == [by |-> by, delivered |-> 0, reply |-> FALSE, notes |-> {}]

Note(ids, what) == [i \in Ids |-> IF i \in ids
                                    THEN [hist[i] EXCEPT !.notes = @ \cup {what}]
                                    ELSE hist[i]]

\* UpdateAlertNotification finds its rows by these columns, not by an id.
SameKey(m, n) == m.alert = n.alert /\ m.dest = n.dest /\ m.ts = n.ts

Expired(n) == n.ts + Window < now

\* (mutant of NotSent: without the window, only what was put just now)
NotSentNow == {outbox[i] : i \in {j \in Ids : ~outbox[j].sent /\ outbox[j].ts >= now}}

\* GetNotSentAlertNotifications
NotSent == {outbox[i] : i \in {j \in Ids : ~outbox[j].sent /\ ~Expired(outbox[j])}}

\* its ORDER BY application_id, alert_id, timestamp
Before(m, n) == m.alert < n.alert \/ (m.alert = n.alert /\ m.ts < n.ts)

\* GetPreviousAlertNotifications
Previous(n) == {outbox[i] : i \in {j \in Ids : /\ outbox[j].alert = n.alert
                                               /\ outbox[j].dest = n.dest
                                               /\ outbox[j].ts < n.ts}}

\* getOpenAlert: what openKey may be after the loop, in which a notification
\* that is not OK sets it and an OK one with the same key clears it.  Rows of
\* one timestamp come in any order.
OpenKeys(n) ==
    LET opens == {m \in Previous(n) : m.status # "OK"}
        last == {m \in opens : \A q \in opens : q.ts <= m.ts}
        closing(m) == {q \in Previous(n) : q.status = "OK" /\ q.key = m.key /\ q.ts >= m.ts}
    IN  {m.key : m \in {q \in last : \A c \in closing(q) : c.ts = q.ts}}
          \cup (IF \A m \in last : closing(m) # {} THEN {NoKey} ELSE {})

-----------------------------------------------------------------------------
(* Alerts, as far as their notifications see them *)

NoAlert == [state |-> "none", sev |-> None]

Init ==
    /\ primary = None /\ up = Replicas /\ now = 1
    /\ checked = [r \in Replicas |-> 0]
    /\ route \in Routes /\ severity \in Severities
    /\ clients = Destinations
    /\ alerts = [a \in Alerts |-> NoAlert]
    /\ outbox = <<>> /\ hist = <<>>
    /\ thread = [p \in Threads |-> Idle]
    /\ pages = {} /\ lost = FALSE
    /\ requests = 0 /\ faults = 0

\* Alerts.Check of a replica that found itself primary, for an alert of a check
\* rule: it opens or resolves the alert and enqueues notifications, or updates
\* it (its severity is the rule's then).  Alerts has the statements apart.  A
\* check with nothing to do is no step; checks are 15 seconds apart at least.
Check(r, a) ==
    LET p == <<r, "watcher">>
        enqueue(sev, resolved) ==
            Step(p, [Idle EXCEPT !.pc = "put", !.alert = a, !.sev = sev,
                                 !.resolved = resolved, !.ts = now, !.left = route])
    IN
    /\ r \in up /\ primary = r
    /\ thread[p].pc = "idle" /\ checked[r] < now
    /\ checked' = [checked EXCEPT ![r] = now]
    /\ \/ /\ alerts[a].state = "none"
          /\ alerts' = [alerts EXCEPT ![a] = [state |-> "firing", sev |-> severity]]
          /\ enqueue(severity, FALSE)
       \/ /\ alerts[a].state = "firing"
          /\ alerts' = [alerts EXCEPT ![a].sev = severity]
          /\ UNCHANGED thread
       \/ /\ alerts[a].state = "firing"
          /\ alerts' = [alerts EXCEPT ![a].state = "resolved"]
          /\ enqueue(alerts[a].sev, TRUE)
    /\ UNCHANGED <<primary, up, now, lost, settings, outbox, pages, hist, requests, faults>>

-----------------------------------------------------------------------------
(* Requests of users *)

Request(op) == op \in Operations /\ requests < MaxRequests /\ requests' = requests + 1

\* resolveAlerts, SuppressAlerts or the deletion of a rule ends an alert whose
\* resolved_at is 0 (only the last sets it) and calls EnqueueResolvedAlerts.
EndAlert(r, a) ==
    LET p == <<r, "api">> IN
    /\ Request("end")
    /\ r \in up /\ thread[p].pc = "idle"
    /\ alerts[a].state = "firing"
    /\ \E s \in {"firing", "resolved"} : alerts' = [alerts EXCEPT ![a].state = s]
    /\ Step(p, [Idle EXCEPT !.pc = "put", !.alert = a, !.sev = alerts[a].sev,
                            !.resolved = TRUE, !.ts = now, !.left = route])
    /\ UNCHANGED <<process, settings, outbox, pages, hist, faults>>

\* A user edits the severity of the rule, or an integration in use.
EditSeverity(s) ==
    /\ Request("severity")
    /\ s # severity /\ severity' = s
    /\ UNCHANGED <<process, route, clients, alerts, outbox, thread, pages, hist, faults>>

EditIntegration(d) ==
    /\ Request("integration") /\ \E n \in DOMAIN route : route[n] = d
    /\ clients' = IF d \in clients THEN clients \ {d} ELSE clients \cup {d}
    /\ UNCHANGED <<process, route, severity, alerts, outbox, thread, pages, hist, faults>>

-----------------------------------------------------------------------------
(* enqueue and enqueueResolvedAlert: one INSERT for each destination *)

Status(t) == IF t.resolved THEN "OK" ELSE t.sev

\* (mutant of PutKeys: a resolution by the severity the alert has now)
OwnKey(p, n) == IF n.dest \notin Pagers THEN {NoKey} ELSE {<<n.alert, thread[p].sev>>}

\* The external keys a notification may be put with; none: it is not put.  The
\* watcher resolves the key it finds open, a request the key of the severity
\* the alert has now.
PutKeys(p, n) ==
    LET t == thread[p]
        own == <<n.alert, t.sev>>
    IN  IF n.dest \notin Pagers THEN {NoKey}
        ELSE IF p[2] = "api" \/ ~t.resolved THEN {own}
        ELSE OpenKeys(n)

\* Enqueue goes on with sendAlerts after the last one; EnqueueResolvedAlerts
\* leaves that to the retry.
Put(p) ==
    LET t == thread[p]
        d == Head(t.left)
        next == IF Len(t.left) > 1 THEN [t EXCEPT !.left = Tail(@)]
                ELSE IF p[2] = "api" THEN Idle ELSE [Idle EXCEPT !.pc = "lock"]
        n == [id |-> Len(outbox) + 1, alert |-> t.alert, dest |-> d,
              status |-> Status(t), ts |-> t.ts, key |-> NoKey, sent |-> FALSE]
    IN
    /\ t.pc = "put"
    /\ Step(p, next)
    /\ \/ \E k \in PutKeys(p, n) :
            /\ NoFault
            /\ IF d \in Pagers /\ k = NoKey
                  THEN UNCHANGED <<outbox, hist>>
                  ELSE /\ outbox' = Append(outbox, [n EXCEPT !.key = k])
                       /\ hist' = Append(hist, Fresh(p[2]))
       \/ Fault /\ UNCHANGED <<outbox, hist>>     \* a statement failed: logged
    /\ UNCHANGED <<process, settings, alerts, pages, requests>>

-----------------------------------------------------------------------------
(* sendAlerts *)

\* (mutant of MayRetry: every replica retries)
AlwaysRetry(r) == TRUE

\* GetPrimaryLock
MayRetry(r) == primary = r

\* The tick of the retry, on every replica; only the primary goes on.
Retry(r) ==
    LET p == <<r, "retry">> IN
    /\ r \in up /\ thread[p].pc = "idle" /\ MayRetry(r)
    /\ Step(p, [Idle EXCEPT !.pc = "lock"])
    /\ UNCHANGED <<process, tables, pages, hist, requests, faults>>

\* sendLock of the process
LockFree(p) == \A q \in Threads : q[1] = p[1] => ~Sending(q)

\* The loop goes on with what is left of todo; the lock is released at its end.
Loop(t) == IF t.todo = {} THEN Idle ELSE [t EXCEPT !.pc = "send", !.cur = None]

\* The pass reads the projects with their integrations and what is not sent.
\* The history notes what is in the hands of two replicas at once.
BeginPass(p) ==
    LET others == {q \in Threads : q[1] # p[1] /\ Sending(q)}
        shared == {n.id : n \in NotSent} \cup UNION {Held(q) : q \in others}
    IN
    /\ thread[p].pc = "lock" /\ LockFree(p)
    /\ \/ /\ NoFault
          /\ Step(p, Loop([Idle EXCEPT !.todo = NotSent, !.clients = clients]))
          /\ hist' = IF others = {} THEN hist ELSE Note(shared, "overlap")
       \/ Fault /\ Step(p, Idle) /\ UNCHANGED hist
    /\ UNCHANGED <<process, tables, pages, requests>>

\* The notifications the loop may have reached.
Reached(p) == {n \in thread[p].todo : \A m \in thread[p].todo : ~Before(m, n)}

\* What the destination makes of the message: a pager opens or closes a key.
PagesAfter(n) ==
    IF n.dest \notin Pagers THEN pages
    ELSE IF n.status = "OK" THEN pages \ {<<n.dest, n.key>>}
    ELSE pages \cup {<<n.dest, n.key>>}

Deliver(n, reply, notes) ==
    /\ pages' = PagesAfter(n)
    /\ hist' = [hist EXCEPT ![n.id].delivered = @ + 1, ![n.id].reply = reply,
                            ![n.id].notes = @ \cup notes]

\* (mutant of Skipped: the rest of the destination is tried after a failure)
OnlyTheFailed(p, n) == {n}

\* failedDestinations: what is left for the destination waits for the next pass.
Skipped(p, n) == {m \in thread[p].todo : m.dest = n.dest}

\* Slack replies in the thread of the last key found, if it can be looked up.
HasThread(n) == n.dest \in Slacks /\ \E m \in Previous(n) : m.key # NoKey

\* A notification without a client counts as sent; else it is sent, or the
\* send fails, before or after the destination took the message (a timeout).
Send(p) ==
    LET t == thread[p] IN
    /\ t.pc = "send"
    /\ \E n \in Reached(p) :
         \/ /\ n.dest \notin t.clients /\ NoFault
            /\ Step(p, [t EXCEPT !.pc = "mark", !.cur = n, !.todo = @ \ {n}])
            /\ hist' = Note({n.id}, "no client")
            /\ UNCHANGED pages
         \/ /\ n.dest \in t.clients
            /\ Step(p, [t EXCEPT !.pc = "mark", !.todo = @ \ {n},
                                 !.cur = IF n.dest \in Slacks THEN [n EXCEPT !.key = Posted] ELSE n])
            /\ \/ NoFault /\ Deliver(n, HasThread(n), {})
               \/ n.dest \in Slacks /\ Fault /\ Deliver(n, FALSE, {"no thread"})
         \/ /\ n.dest \in t.clients /\ Fault
            /\ Step(p, Loop([t EXCEPT !.todo = @ \ Skipped(p, n)]))
            /\ \/ UNCHANGED <<pages, hist>>
               \/ Deliver(n, HasThread(n), {"not recorded"})
    /\ UNCHANGED <<process, tables, requests>>

\* (mutant of Recorded: the external key is not kept)
RecordedSent(n) == [i \in Ids |-> IF SameKey(outbox[i], n)
                                     THEN [outbox[i] EXCEPT !.sent = TRUE] ELSE outbox[i]]

\* (mutant of Recorded: sent_at is not set)
RecordedKey(n) == [i \in Ids |-> IF SameKey(outbox[i], n)
                                    THEN [outbox[i] EXCEPT !.key = n.key] ELSE outbox[i]]

\* (mutant of Recorded: the timestamp is not compared)
RecordedAlert(n) == [i \in Ids |-> IF outbox[i].alert = n.alert /\ outbox[i].dest = n.dest
                                      THEN [outbox[i] EXCEPT !.sent = TRUE, !.key = n.key]
                                      ELSE outbox[i]]

\* (mutant of Recorded: what is sent is removed)
Removed(n) == SelectSeq(outbox, LAMBDA m : ~SameKey(m, n))

\* UpdateAlertNotification
Recorded(n) == [i \in Ids |-> IF SameKey(outbox[i], n)
                                 THEN [outbox[i] EXCEPT !.sent = TRUE, !.key = n.key]
                                 ELSE outbox[i]]

Mark(p) ==
    LET t == thread[p] IN
    /\ t.pc = "mark"
    /\ Step(p, Loop(t))
    /\ \/ NoFault /\ outbox' = Recorded(t.cur) /\ UNCHANGED hist
       \/ Fault /\ hist' = Note({t.cur.id}, "not recorded") /\ UNCHANGED outbox
    /\ UNCHANGED <<process, settings, alerts, pages, requests>>

-----------------------------------------------------------------------------
(* Processes, the clock *)

\* PrimaryLock: some replica that runs gets the lock when no one has it.
Elect(r) ==
    /\ primary = None /\ r \in up /\ primary' = r
    /\ UNCHANGED <<up, now, checked, lost, tables, thread, pages, hist, requests, faults>>

\* The primary loses the session of its lock and goes on with what it does.
LoseLock ==
    /\ LockLoss /\ Fault /\ primary # None
    /\ primary' = None /\ lost' = TRUE
    /\ UNCHANGED <<up, now, checked, tables, thread, pages, hist, requests>>

\* A replica dies, and Postgres releases its lock.
Crash(r) ==
    LET mine == {p \in Threads : p[1] = r} IN
    /\ Fault /\ r \in up
    /\ up' = up \ {r}
    /\ primary' = IF primary = r THEN None ELSE primary
    /\ thread' = [p \in Threads |-> IF p \in mine THEN Idle ELSE thread[p]]
    /\ hist' = Note({thread[p].cur.id : p \in {q \in mine : thread[q].pc = "mark"}},
                    "not recorded")
    /\ UNCHANGED <<now, checked, lost, tables, pages, requests>>

Restart(r) ==
    /\ r \notin up /\ up' = up \cup {r}
    /\ UNCHANGED <<primary, now, checked, lost, tables, thread, pages, hist, requests, faults>>

Tick ==
    /\ now < MaxTime /\ now' = now + 1
    /\ UNCHANGED <<primary, up, checked, lost, tables, thread, pages, hist, requests, faults>>

-----------------------------------------------------------------------------

ThreadStep(p) ==
    \/ Put(p) \/ BeginPass(p) \/ Send(p) \/ Mark(p)

Next ==
    \/ \E r \in Replicas : \/ \E a \in Alerts : Check(r, a) \/ EndAlert(r, a)
                           \/ Retry(r)
                           \/ Elect(r) \/ Crash(r) \/ Restart(r)
    \/ \E s \in Severities : EditSeverity(s)
    \/ \E d \in Destinations : EditIntegration(d)
    \/ \E p \in Threads : ThreadStep(p)
    \/ LoseLock \/ Tick

(* The steps of a thread follow each other; a retry starts every minute; a  *)
(* replica that stopped is started again and the lock finds a holder (see   *)
(* JobsKeepRunning of PrimaryLock).  The clock needs no fairness: what is   *)
(* promised is promised before retryWindow is over.                         *)
Fairness ==
    /\ \A p \in Threads : WF_vars(ThreadStep(p))
    /\ \A r \in Replicas : WF_vars(Retry(r)) /\ WF_vars(Elect(r)) /\ WF_vars(Restart(r))

Spec == Init /\ [][Next]_vars

FairSpec == Spec /\ Fairness

-----------------------------------------------------------------------------
(* Properties *)

Keys == {NoKey, Posted} \cup (Alerts \X Severities)

Notification ==
    [id : Nat, alert : Alerts, dest : Destinations, status : Severities \cup {"OK"},
     ts : 0..MaxTime, key : Keys, sent : BOOLEAN]

(* Every variable has its type; a row's id is its place, and a thread holds *)
(* only rows that are in the table.                                         *)
TypeOK ==
    /\ primary \in up \cup {None} /\ up \subseteq Replicas
    /\ now \in 1..MaxTime /\ checked \in [Replicas -> 0..MaxTime]
    /\ route \in Routes /\ severity \in Severities /\ clients \subseteq Destinations
    /\ alerts \in [Alerts -> [state : {"none", "firing", "resolved"},
                              sev : Severities \cup {None}]]
    /\ \A i \in Ids : outbox[i] \in Notification /\ outbox[i].id = i
    /\ DOMAIN hist = Ids
    /\ \A i \in Ids : hist[i] \in [by : {"watcher", "api"}, delivered : Nat, reply : BOOLEAN,
                                   notes : SUBSET {"overlap", "no client", "no thread",
                                                   "not recorded"}]
    /\ DOMAIN thread = Threads
    /\ \A p \in Threads :
         /\ thread[p].pc \in {"idle", "put", "lock", "send", "mark"}
         /\ thread[p].todo \subseteq Notification /\ Held(p) \subseteq Ids
    /\ pages \subseteq Pagers \X Keys
    /\ lost \in BOOLEAN /\ requests \in 0..MaxRequests /\ faults \in 0..MaxFaults

(* A notification reaches its destination once (alerts.go: sendLock "would  *)
(* else be read as not sent by both, and sent twice"; the test of two       *)
(* replicas), unless what a send did could not be recorded, or two replicas *)
(* held it at once.                                                         *)
SentOnce ==
    \A i \in Ids : hist[i].delivered > 1 => hist[i].notes \cap {"overlap", "not recorded"} # {}

(* Two passes run at once only on two replicas, after one of them lost the  *)
(* primary lock while it was at work (the comment of retry: "Only the       *)
(* primary Coroot replica does").                                           *)
PassesApart ==
    \A p, q \in Threads : p # q /\ Sending(p) /\ Sending(q) => p[1] # q[1] /\ lost

(* A destination is told of an alert in the order things happened: when a   *)
(* notification was delivered, the earlier ones for the same alert were     *)
(* delivered too, or need not be (no client, or older than retryWindow).    *)
InOrder ==
    \A i, j \in Ids :
      /\ i < j /\ outbox[i].alert = outbox[j].alert /\ outbox[i].dest = outbox[j].dest
      /\ outbox[i].ts < outbox[j].ts
      /\ hist[j].delivered > 0
      => hist[i].delivered > 0 \/ outbox[i].sent \/ Expired(outbox[i])

(* sent_at is set only for what was delivered or has no client.  Rows with  *)
(* the same alert, destination and timestamp stand for each other, as       *)
(* UpdateAlertNotification cannot tell them apart.                          *)
NoneDropped ==
    \A i \in Ids : outbox[i].sent =>
        \E j \in Ids : /\ SameKey(outbox[i], outbox[j])
                       /\ hist[j].delivered > 0 \/ "no client" \in hist[j].notes

(* In Slack the end of an alert is a reply to its opening, unless the       *)
(* opening went wrong or the two share a timestamp.                         *)
Threaded ==
    \A i, j \in Ids :
      /\ i < j /\ outbox[i].alert = outbox[j].alert /\ outbox[i].dest = outbox[j].dest
      /\ outbox[i].dest \in Slacks /\ outbox[i].ts < outbox[j].ts
      /\ hist[i].delivered > 0 /\ hist[i].notes = {}
      /\ hist[j].delivered > 0 /\ hist[j].notes = {}
      /\ \A k \in Ids : SameKey(outbox[i], outbox[k]) => k = i
      => hist[j].reply

\* The step delivers the resolution of alert a to pager d.
Resolves(a, d, by) ==
    \E i \in Ids : /\ outbox[i].alert = a /\ outbox[i].dest = d /\ outbox[i].status = "OK"
                   /\ hist[i].by \in by
                   /\ hist'[i].delivered > hist[i].delivered

(* UpdateAlertNotification cannot take another notification for the opening *)
(* of a: it has its timestamp for itself.                                   *)
OpeningApart(a, d) ==
    \A i, j \in Ids :
        /\ outbox[i].alert = a /\ outbox[i].dest = d /\ outbox[i].status # "OK"
        /\ SameKey(outbox[i], outbox[j])
        => i = j

(* When the watcher's resolution reaches a pager, no page of the alert is   *)
(* left open there, whatever happened to the rule's severity since; unless  *)
(* the opening shared its timestamp with the end a user gave the alert, and *)
(* got its external key when that was recorded.                             *)
ResolveClosesPage ==
    [][\A a \in Alerts, d \in Pagers :
         Resolves(a, d, {"watcher"}) /\ OpeningApart(a, d)
           => \A s \in Severities : <<d, <<a, s>>>> \notin pages']_vars

(* The same of every resolution, a user's included (docs/docs/alerting/     *)
(* alerts.md: notifications are sent "when an alert fires or resolves").    *)
EndClosesPage ==
    [][\A a \in Alerts, d \in Pagers :
         Resolves(a, d, {"watcher", "api"})
           => \A s \in Severities : <<d, <<a, s>>>> \notin pages']_vars

(* Again and again nothing is left to send: a failed destination, a crash   *)
(* or a lost lock only delays what was put, until it is sent or grows older *)
(* than retryWindow.                                                        *)
EventuallySent == []<>(\A i \in Ids : outbox[i].sent \/ Expired(outbox[i]))
=============================================================================
