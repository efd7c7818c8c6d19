----------------------------- MODULE Incidents -----------------------------
(***************************************************************************)
(* Incidents of applications (watchers/incidents.go, db/incident.go) and   *)
(* the notifications about them (notifications/incidents.go).              *)
(*                                                                         *)
(* A check goes through the applications of the world: it reads the open   *)
(* incident of an application, opens, updates or resolves it, and records  *)
(* a notification for each destination when it was opened or resolved;     *)
(* sendIncidents sends what is recorded and not sent, after a check's      *)
(* notification and by a ticker.  The incident, its notifications and what *)
(* a provider has been told change in different steps, each of which may   *)
(* fail or be the last one before a crash.                                 *)
(*                                                                         *)
(* Severities above OK are one: nothing is notified when one turns into    *)
(* another, so a page is closed under the key it was opened with.  Keys    *)
(* are numbered in the order of opened_at.                                 *)
(***************************************************************************)
EXTENDS Common, Sequences, FiniteSetsExt

CONSTANTS
    Applications,
    Messengers,     \* Slack, Teams and webhooks: they are told of the opening and of the end
    Pagers,         \* PagerDuty and Opsgenie: they keep a page open until it is closed
    MaxIncidents,   \* bound
    MaxIncidentFaults    \* bound: failures, crashes, tooOld notifications, lost locks,
                         \* and settings that are switched off

ASSUME IncidentsAssumption ==
    /\ None \notin Applications
    /\ Messengers \cap Pagers = {}
    /\ MaxIncidents \in Nat /\ MaxIncidentFaults \in Nat

VARIABLES
    incident,   \* table incident: a sequence of [app, open], the newest last
    ring,       \* table incident_notification: the rows [key, what, to] ...
    sent,       \* ... those with sent_at ...
    tooOld,    \* ... and those older than retryWindow
    check,      \* the local variables of Check of each replica
    sending,    \* the local variables of sendIncidents of each replica
    page,       \* external: the incidents with an open page, per pager
    delivered,  \* history: the rows that reached their destination
    beside,     \* history: two replicas worked beside each other
    lapsed,     \* history: <<key, to>> whose page is not closed, for a reason named below
    faults

incidentVars == <<incident, ring, sent, tooOld, check, sending, page, delivered, beside, lapsed,
                  faults>>

-----------------------------------------------------------------------------
Destinations == Messengers \cup Pagers
IncidentKeys == 1..MaxIncidents
Row == [key : IncidentKeys, what : {"open", "end"}, to : Destinations]

NoCheck == [pc |-> "idle", world |-> [a \in Applications |-> "missing"], todo |-> {}, app |-> None,
            found |-> 0, key |-> 0]
NotSending == [pc |-> "idle", left |-> {}, failed |-> {}, off |-> {}]

OpenOf(a) == {k \in DOMAIN incident : incident[k].open /\ incident[k].app = a}

IncidentsInit ==
    /\ incident = <<>>
    /\ ring = {} /\ sent = {} /\ tooOld = {}
    /\ check = [r \in Replicas |-> NoCheck]
    /\ sending = [r \in Replicas |-> NotSending]
    /\ page = [p \in Pagers |-> {}]
    /\ delivered = {} /\ beside = FALSE /\ lapsed = {}
    /\ faults = 0

IncidentFault == faults < MaxIncidentFaults /\ faults' = faults + 1

-----------------------------------------------------------------------------
(* Check *)

\* Both the check and the ticker ask for the primary lock first: what another
\* replica does beside them goes on after it has lost the lock.
Busy(r) == \E o \in Replicas \ {r} : check[o].pc # "idle" \/ sending[o].pc # "idle"

AsPrimary(r) == IF Busy(r) THEN IncidentFault /\ beside' = TRUE
                           ELSE UNCHANGED <<beside, faults>>

\* A world is loaded: an application is not in it, has no data, is fine or burns
\* its budget.
CheckBegins(r) ==
    /\ check[r].pc = "idle"
    /\ \E w \in [Applications -> {"missing", "unknown", "ok", "bad"}] :
        check' = [check EXCEPT ![r] = [NoCheck EXCEPT !.pc = "app", !.world = w,
                                                      !.todo = {a \in Applications : w[a] \in {"ok", "bad"}}]]
    /\ AsPrimary(r)
    /\ UNCHANGED <<incident, ring, sent, tooOld, sending, page, delivered, lapsed>>

\* GetLastOpenIncident.
GetLastOpenIncident(r) ==
    /\ check[r].pc = "app"
    /\ \E a \in check[r].todo :
        LET found == IF OpenOf(a) = {} THEN 0 ELSE Max(OpenOf(a))
        IN  check' = [check EXCEPT ![r].todo = @ \ {a},
                                   ![r].app = a,
                                   ![r].found = found,
                                   ![r].pc = IF found = 0 /\ check[r].world[a] = "ok"
                                             THEN "app" ELSE "write"]
    /\ UNCHANGED <<incident, ring, sent, tooOld, sending, page, delivered, beside, lapsed, faults>>

\* CreateIncident, ResolveIncident or UpdateIncident: the table after it.
Written(me) ==
    IF me.found = 0 THEN Append(incident, [app |-> me.app, open |-> TRUE])
    ELSE [incident EXCEPT ![me.found].open = @ /\ me.world[me.app] = "bad"]

\* An incident that was opened or resolved is announced, an update is not.
WriteIncident(r) ==
    LET me == check[r] IN
    /\ me.pc = "write"
    /\ me.found = 0 => Len(incident) < MaxIncidents
    /\ incident' = Written(me)
    /\ check' = IF me.found # 0 /\ me.world[me.app] = "bad"
                THEN [check EXCEPT ![r].pc = "app"]
                ELSE [check EXCEPT ![r].pc = "announce",
                                   ![r].key = IF me.found = 0 THEN Len(incident') ELSE me.found]
    /\ UNCHANGED <<ring, sent, tooOld, sending, page, delivered, beside, lapsed, faults>>

\* A statement of this application fails, be it after its effect: the check goes
\* on with the next one.
CheckStatementFails(r) ==
    LET me == check[r] IN
    /\ IncidentFault
    /\ \/ /\ me.pc = "app"
          /\ \E a \in me.todo : check' = [check EXCEPT ![r].todo = @ \ {a}]
          /\ UNCHANGED <<incident, lapsed>>
       \/ /\ me.pc = "write"
          /\ check' = [check EXCEPT ![r].pc = "app"]
          /\ \/ UNCHANGED <<incident, lapsed>>
             \/ /\ me.found = 0 => Len(incident) < MaxIncidents
                /\ incident' = Written(me)
                /\ lapsed' = IF me.found # 0 /\ me.world[me.app] = "ok"
                             THEN lapsed \cup ({me.found} \X Destinations) ELSE lapsed
    /\ UNCHANGED <<ring, sent, tooOld, sending, page, delivered, beside>>

-----------------------------------------------------------------------------
(* IncidentNotifier *)

\* getOpenIncidents: what of k a pager was asked to open and not yet to close.
OpenAtPager(k, p) ==
    /\ [key |-> k, what |-> "open", to |-> p] \in ring
    /\ [key |-> k, what |-> "end", to |-> p] \notin ring

\* enqueue: the rows of one notification.
RowsOf(k, resolved) ==
    LET what == IF resolved THEN "end" ELSE "open"
    IN  {[key |-> k, what |-> what, to |-> d] :
             d \in IF resolved THEN Messengers \cup {p \in Pagers : OpenAtPager(k, p)} ELSE Destinations}

\* Enqueue (after the root cause analysis): the rows, but for those of destinations
\* the settings do not notify any more and those that could not be put (the SELECT of
\* getOpenIncidents or the INSERT failed); then sendIncidents.
EnqueueIncident(r) ==
    LET me == check[r]
        rows == RowsOf(me.key, me.found # 0)
    IN  /\ me.pc = "announce"
        /\ \E put \in SUBSET rows :
              /\ ring' = ring \cup put
              /\ IF put = rows THEN UNCHANGED faults ELSE IncidentFault
              /\ lapsed' = IF me.found = 0 THEN lapsed
                           ELSE lapsed \cup {<<me.key, x.to>> : x \in rows \ put}
        /\ check' = [check EXCEPT ![r].pc = "send"]
        /\ UNCHANGED <<incident, sent, tooOld, sending, page, delivered, beside>>

\* The application's category does not notify of incidents any more, or is gone:
\* Enqueue returns without a word.
EnqueueDisabled(r) ==
    LET me == check[r] IN
    /\ me.pc = "announce"
    /\ IncidentFault
    /\ lapsed' = IF me.found = 0 THEN lapsed ELSE lapsed \cup ({me.key} \X Destinations)
    /\ check' = [check EXCEPT ![r].pc = "app"]
    /\ UNCHANGED <<incident, ring, sent, tooOld, sending, page, delivered, beside>>

\* sendIncidents, under sendLock: the projects, whose integrations say which
\* destinations have no client (getClient), and the rows not sent are read.
ReadNotSent(r, off) ==
    sending' = [sending EXCEPT ![r] = [pc |-> "send", left |-> ring \ (sent \cup tooOld),
                                       failed |-> {}, off |-> off]]

SendIncidents(r) ==
    /\ check[r].pc = "send"
    /\ sending[r].pc = "idle"
    /\ \/ /\ \E off \in SUBSET Destinations :
                /\ ReadNotSent(r, off)
                /\ IF off = {} THEN UNCHANGED faults ELSE IncidentFault
          /\ check' = [check EXCEPT ![r].pc = "sending"]
       \/ /\ IncidentFault      \* GetProjects or the read fails
          /\ check' = [check EXCEPT ![r].pc = "app"]
          /\ UNCHANGED sending
    /\ UNCHANGED <<incident, ring, sent, tooOld, page, delivered, beside, lapsed>>

\* The ticker's.
RetryIncidents(r) ==
    /\ sending[r].pc = "idle"
    /\ ring \ (sent \cup tooOld) # {}
    /\ \E off \in SUBSET Destinations :
          /\ ReadNotSent(r, off)
          /\ IF off = {} THEN AsPrimary(r) ELSE IncidentFault /\ beside' = (beside \/ Busy(r))
    /\ UNCHANGED <<incident, ring, sent, tooOld, check, page, delivered, lapsed>>

\* What a row does at its destination; a page that was opened twice and closed
\* in between stays open.
Arrives(x) ==
    /\ delivered' = delivered \cup {x}
    /\ page' = IF x.to \notin Pagers THEN page
               ELSE [page EXCEPT ![x.to] = IF x.what = "open" THEN @ \cup {x.key} ELSE @ \ {x.key}]
    /\ lapsed' = IF x.what = "open" /\ x \in delivered /\ [x EXCEPT !.what = "end"] \in delivered
                 THEN lapsed \cup {<<x.key, x.to>>} ELSE lapsed

\* (mutant of Skips: a destination that failed is tried again with the next row)
NeverSkips(r, x) == FALSE

\* failedDestinations.
Skips(r, x) == x.to \in sending[r].failed

\* The rows of one incident go by their timestamps.
NextRow(r, x) ==
    /\ sending[r].pc = "send"
    /\ x \in sending[r].left
    /\ x.what = "end" => [x EXCEPT !.what = "open"] \notin sending[r].left

SkipRow(r, x) ==
    /\ NextRow(r, x) /\ Skips(r, x)
    /\ sending' = [sending EXCEPT ![r].left = @ \ {x}]
    /\ UNCHANGED <<incident, ring, sent, tooOld, check, page, delivered, beside, lapsed, faults>>

\* The integration was removed or does not notify of incidents any more, so there
\* is no client: the row is marked as sent, and nobody was told.
MarkUnsent(r, x) ==
    /\ NextRow(r, x) /\ ~Skips(r, x) /\ x.to \in sending[r].off
    /\ sending' = [sending EXCEPT ![r].left = @ \ {x}]
    /\ \/ /\ sent' = sent \cup {x}
          /\ lapsed' = IF x.what = "end" THEN lapsed \cup {<<x.key, x.to>>} ELSE lapsed
          /\ UNCHANGED faults
       \/ UNCHANGED <<sent, lapsed>> /\ IncidentFault
    /\ UNCHANGED <<incident, ring, tooOld, check, page, delivered, beside>>

\* Sent; UpdateIncidentNotification may fail.
SendRow(r, x) ==
    /\ NextRow(r, x) /\ ~Skips(r, x) /\ x.to \notin sending[r].off
    /\ Arrives(x)
    /\ sending' = [sending EXCEPT ![r].left = @ \ {x}]
    /\ \/ sent' = sent \cup {x} /\ UNCHANGED faults
       \/ UNCHANGED sent /\ IncidentFault
    /\ UNCHANGED <<incident, ring, tooOld, check, beside>>

\* The destination answers with an error, or too late.
SendRowFails(r, x) ==
    /\ NextRow(r, x) /\ ~Skips(r, x) /\ x.to \notin sending[r].off
    /\ IncidentFault
    /\ \/ Arrives(x)
       \/ UNCHANGED <<page, delivered, lapsed>>
    /\ sending' = [sending EXCEPT ![r].left = @ \ {x}, ![r].failed = @ \cup {x.to}]
    /\ UNCHANGED <<incident, ring, sent, tooOld, check, beside>>

PassEnds(r) ==
    /\ sending[r].pc = "send" /\ sending[r].left = {}
    /\ sending' = [sending EXCEPT ![r] = NotSending]
    /\ check' = [check EXCEPT ![r].pc = IF @ = "sending" THEN "app" ELSE @]
    /\ UNCHANGED <<incident, ring, sent, tooOld, page, delivered, beside, lapsed, faults>>

\* A row that is not sent gets older than retryWindow, an opening before the end.
RowExpires(x) ==
    /\ x \in ring \ (sent \cup tooOld)
    /\ x.what = "end" => [x EXCEPT !.what = "open"] \notin ring \ (sent \cup tooOld)
    /\ IncidentFault
    /\ tooOld' = tooOld \cup {x}
    /\ lapsed' = IF x.what = "end" THEN lapsed \cup {<<x.key, x.to>>} ELSE lapsed
    /\ UNCHANGED <<incident, ring, sent, check, sending, page, delivered, beside>>

-----------------------------------------------------------------------------
\* resolveIncidentsForMissingApps: the end is not announced; statements may fail.
ResolveForMissingApps(r) ==
    LET gone == {k \in DOMAIN incident : incident[k].open /\ check[r].world[incident[k].app] = "missing"}
    IN  /\ check[r].pc = "app" /\ check[r].todo = {}
        /\ \E done \in SUBSET gone :
              /\ IF done = gone THEN UNCHANGED faults ELSE IncidentFault
              /\ incident' = [k \in DOMAIN incident |-> [incident[k] EXCEPT !.open = @ /\ k \notin done]]
              /\ lapsed' = lapsed \cup (done \X Destinations)
        /\ check' = [check EXCEPT ![r] = NoCheck]
        /\ UNCHANGED <<ring, sent, tooOld, sending, page, delivered, beside>>

\* A crash: an end that is not yet recorded is never announced.
IncidentsRestart(r) ==
    /\ IncidentFault
    /\ check' = [check EXCEPT ![r] = NoCheck]
    /\ sending' = [sending EXCEPT ![r] = NotSending]
    /\ lapsed' = IF check[r].pc = "announce" /\ check[r].found # 0
                 THEN lapsed \cup ({check[r].key} \X Destinations) ELSE lapsed
    /\ UNCHANGED <<incident, ring, sent, tooOld, page, delivered, beside>>

IncidentsNext ==
    \/ \E r \in Replicas :
          \/ CheckBegins(r) \/ GetLastOpenIncident(r) \/ WriteIncident(r) \/ CheckStatementFails(r)
          \/ EnqueueIncident(r) \/ EnqueueDisabled(r) \/ SendIncidents(r) \/ RetryIncidents(r) \/ PassEnds(r)
          \/ ResolveForMissingApps(r) \/ IncidentsRestart(r)
          \/ \E x \in Row : SkipRow(r, x) \/ MarkUnsent(r, x) \/ SendRow(r, x)
                             \/ SendRowFails(r, x)
    \/ \E x \in Row : RowExpires(x)

IncidentsSpec == IncidentsInit /\ [][IncidentsNext]_incidentVars

-----------------------------------------------------------------------------
IncidentsTypeOK ==
    /\ incident \in Seq([app : Applications, open : BOOLEAN])
    /\ ring \in SUBSET Row /\ sent \in SUBSET ring /\ tooOld \in SUBSET ring
    /\ page \in [Pagers -> SUBSET IncidentKeys]

\* The page of an incident that was resolved is closed, or its closing is recorded
\* and will be tried again, or about to be recorded.  It stays open for ever only
\* for the reasons the code has no answer to: the closing could not be recorded
\* (a failed statement, a crash before it, an UPDATE that resolved the incident and
\* was reported as failed); the category or the destination did not notify any more
\* when the incident ended; the integration was removed or switched off before the
\* closing was sent, which marks it as sent; it was tried in vain for retryWindow;
\* the application disappeared (its incident is resolved without a word); an opening
\* that was delivered and not marked as sent was sent again after the closing; two
\* replicas worked beside each other.  (The deletion of the project is left out.)
PagesClose ==
    \A p \in Pagers : \A k \in page[p] :
        \/ incident[k].open
        \/ [key |-> k, what |-> "end", to |-> p] \in ring \ (sent \cup tooOld)
        \/ \E r \in Replicas : check[r].pc = "announce" /\ check[r].key = k
        \/ <<k, p>> \in lapsed
        \/ beside
=============================================================================
