--------------------------- MODULE PipelineProofs ---------------------------
(***************************************************************************)
(* Proofs about two components of MCPipeline, each on its own, for any     *)
(* values of the constants: the incidents, their notifications and the     *)
(* pages they open and close; and the points, the labels and the rules the *)
(* world evaluator stores.                                                 *)
(***************************************************************************)
EXTENDS Incidents, WorldEvaluator, WellFoundedInduction, TLAPS

USE CommonAssumption, IncidentsAssumption

-----------------------------------------------------------------------------
(* Numbers *)

\* A set of numbers has a smallest one.
LEMMA SmallestExists ==
  ASSUME NEW T, T \subseteq Nat, T # {}
  PROVE  \E m \in T : \A y \in T : m <= y
<1> DEFINE R == {ss \in Nat \X Nat : ss[1] < ss[2]}
<1>1. IsWellFoundedOn(R, Nat)
  BY NatLessThanWellFounded, Zenon DEF OpToRel
<1>2. \A a, b \in Nat : a < b => <<a, b>> \in R
  OBVIOUS
<1> HIDE DEF R
<1>3. PICK m \in T : \A y \in T : ~(<<y, m>> \in R)
  BY <1>1, WFMin
<1>4. \A y \in T : ~(y < m)
  BY <1>2, <1>3
<1>5. \A y \in T : m <= y
  BY <1>4
<1> QED BY <1>5

\* A set of numbers up to n has a largest one.
LEMMA LargestExists ==
  ASSUME NEW n \in Nat, NEW S \in SUBSET (0..n), S # {}
  PROVE  \E m \in S : \A y \in S : y <= m
<1> DEFINE T == {n - x : x \in S}
<1>1. T \subseteq Nat /\ T # {}
  <2>1. PICK x \in S : TRUE
    OBVIOUS
  <2>2. n - x \in T
    OBVIOUS
  <2>3. \A y \in S : n - y \in Nat
    OBVIOUS
  <2> QED BY <2>2, <2>3
<1>2. PICK m \in T : \A y \in T : m <= y
  <2> HIDE DEF T
  <2> QED BY <1>1, SmallestExists
<1>3. PICK x \in S : m = n - x
  OBVIOUS
<1>4. ASSUME NEW y \in S PROVE y <= x
  <2>1. m <= n - y
    BY <1>2
  <2> QED BY <1>3, <2>1
<1> QED BY <1>4

-----------------------------------------------------------------------------
(* Incidents: the invariant *)

Opening(k, p) == [key |-> k, what |-> "open", to |-> p]
Closing(k, p) == [key |-> k, what |-> "end", to |-> p]

Booleans == BOOLEAN
IncidentRow == [app : Applications, open : Booleans]
Worlds == [Applications -> {"missing", "unknown", "ok", "bad"}]

CheckLocals ==
    [pc : {"idle", "app", "write", "announce", "send", "sending"}, world : Worlds,
     todo : SUBSET Applications, app : Applications \cup {None}, found : Nat, key : Nat]

PassLocals ==
    [pc : {"idle", "send"}, left : SUBSET Row, failed : SUBSET Destinations,
     off : SUBSET Destinations]

Shapes ==
    /\ incident \in Seq(IncidentRow) /\ Len(incident) <= MaxIncidents
    /\ page \in [Pagers -> SUBSET IncidentKeys]
    /\ check \in [Replicas -> CheckLocals] /\ sending \in [Replicas -> PassLocals]

\* The table of notifications: they are about incidents.
Rows ==
    /\ ring \subseteq Row /\ sent \subseteq ring /\ delivered \subseteq ring
    /\ tooOld \subseteq ring
    /\ \A x \in ring : x.key \in DOMAIN incident

\* The check has seen every application it works on in its world.
Seen(r) ==
    /\ \A a \in check[r].todo : check[r].world[a] \in {"ok", "bad"}
    /\ check[r].pc = "write" => /\ check[r].app \in Applications
                                /\ check[r].world[check[r].app] \in {"ok", "bad"}
                                /\ check[r].found = 0 \/ check[r].found \in DOMAIN incident

Announces(r, k) == check[r].pc = "announce" /\ check[r].key = k

\* What a replica has in its hands is in the tables.
Known(r) ==
    /\ \A k : Announces(r, k) => k \in DOMAIN incident
    /\ sending[r].left \subseteq ring /\ (sending[r].pc = "idle" => sending[r].left = {})

\* A closing that was given up, or counts as sent and was not, is counted as lapsed.
GivenUp ==
    \A p \in Pagers, k \in IncidentKeys :
        Closing(k, p) \in tooOld \cup (sent \ delivered) => <<k, p>> \in lapsed

\* A page was opened by its opening, and only what has an opening is closed.
OpenedFirst ==
    \A p \in Pagers, k \in IncidentKeys :
        /\ k \in page[p] => Opening(k, p) \in delivered
        /\ Closing(k, p) \in ring => Opening(k, p) \in ring

\* A pass comes to a closing only after its opening, unless it was or will not be
\* delivered, or the pass skips both, or has no client for either.
InTurn ==
    \A r \in Replicas, p \in Pagers, k \in IncidentKeys : Closing(k, p) \in sending[r].left =>
        \/ Opening(k, p) \in sending[r].left \/ p \in sending[r].failed \cup sending[r].off
        \/ Opening(k, p) \in tooOld \cup delivered \cup sent

Active(r) == check[r].pc # "idle" \/ sending[r].pc # "idle"

\* One replica works at a time.
OneActive == \A r, o \in Replicas : r # o /\ Active(r) => ~Active(o)

\* An incident whose opening is announced is open, and new to the table.
AnnouncesNew(r, k) == Announces(r, k) /\ check[r].found = 0
Anew ==
    \A r \in Replicas, k \in IncidentKeys :
        AnnouncesNew(r, k) => incident[k].open /\ \A x \in ring : x.key # k

\* What was opened at a pager is closed there once the incident is over.
Answered ==
    \A p \in Pagers, k \in IncidentKeys : Opening(k, p) \in ring =>
        \/ incident[k].open \/ (\E r \in Replicas : Announces(r, k))
        \/ Closing(k, p) \in ring \/ <<k, p>> \in lapsed

\* What may still be sent: by a pass under way or by a later one.
Pending(x) == x \in ring \ (sent \cup tooOld) \/ \E r \in Replicas : x \in sending[r].left

\* An opening that may be sent after the closing was delivered, was delivered before.
NotFirst ==
    \A p \in Pagers, k \in IncidentKeys :
        Closing(k, p) \in delivered /\ Pending(Opening(k, p)) => Opening(k, p) \in delivered

\* A page that is open after its closing was opened again.
OpenAgain ==
    \A p \in Pagers, k \in IncidentKeys :
        k \in page[p] /\ Closing(k, p) \in delivered => <<k, p>> \in lapsed

Deliveries == GivenUp /\ OpenedFirst /\ InTurn
OneByOne == OneActive /\ Anew /\ Answered /\ NotFirst /\ OpenAgain

IncidentsIInv ==
    /\ Shapes /\ Rows /\ \A r \in Replicas : Seen(r) /\ Known(r)
    /\ Deliveries
    /\ ~beside => OneByOne

-----------------------------------------------------------------------------
(* Rows and tables *)

LEMMA RowForm ==
  /\ \A k, p, j, q : Opening(k, p) # Closing(j, q)
  /\ \A k, p, j, q : Opening(k, p) = Opening(j, q) => k = j /\ p = q
  /\ \A k, p, j, q : Closing(k, p) = Closing(j, q) => k = j /\ p = q
  /\ \A k, p : /\ Opening(k, p).key = k /\ Opening(k, p).to = p
               /\ Closing(k, p).key = k /\ Closing(k, p).to = p
  /\ \A k \in IncidentKeys, p \in Destinations : Opening(k, p) \in Row /\ Closing(k, p) \in Row
<1>1. ASSUME NEW k, NEW p, NEW j, NEW q PROVE Opening(k, p) # Closing(j, q)
  <2>1. Opening(k, p).what = "open" /\ Closing(j, q).what = "end"
    BY DEF Opening, Closing
  <2> QED BY <2>1
<1>2. \A k, p : /\ Opening(k, p).key = k /\ Opening(k, p).to = p
                /\ Closing(k, p).key = k /\ Closing(k, p).to = p
  BY DEF Opening, Closing
<1>3. \A k \in IncidentKeys, p \in Destinations : Opening(k, p) \in Row /\ Closing(k, p) \in Row
  BY DEF Opening, Closing, Row
<1> QED BY <1>1, <1>2, <1>3

\* A row is an opening or a closing, and what NextRow and Arrives compare it with.
LEMMA RowIs ==
  ASSUME NEW x \in Row
  PROVE  /\ x.key \in IncidentKeys /\ x.to \in Destinations
         /\ \/ x.what = "open" /\ x = Opening(x.key, x.to)
            \/ x.what = "end" /\ x = Closing(x.key, x.to)
         /\ [x EXCEPT !.what = "open"] = Opening(x.key, x.to)
         /\ [x EXCEPT !.what = "end"] = Closing(x.key, x.to)
  BY DEF Row, Opening, Closing

LEMMA RowsOfNew ==
  ASSUME NEW k, NEW x
  PROVE  x \in RowsOf(k, FALSE) <=> \E d \in Destinations : x = Opening(k, d)
  BY DEF RowsOf, Opening

LEMMA RowsOfEnd ==
  ASSUME NEW k, NEW x
  PROVE  x \in RowsOf(k, TRUE) <=>
           \E d \in Destinations : x = Closing(k, d) /\ (d \in Messengers \/ OpenAtPager(k, d))
<1> DEFINE D == Messengers \cup {p \in Pagers : OpenAtPager(k, p)}
<1>1. RowsOf(k, TRUE) = {Closing(k, d) : d \in D}
  BY DEF RowsOf, Closing
<1>2. \A d : d \in D <=> d \in Destinations /\ (d \in Messengers \/ OpenAtPager(k, d))
  BY DEF Destinations
<1> HIDE DEF D
<1> QED BY <1>1, <1>2

LEMMA MaxExists ==
  ASSUME NEW n \in Nat, NEW S \in SUBSET (1..n), S # {}
  PROVE  Max(S) \in S
<1>1. S \in SUBSET (0..n)
  OBVIOUS
<1>2. PICK m \in S : \A y \in S : y <= m
  BY <1>1, LargestExists
<1>3. \A y \in S : m >= y
  BY <1>2
<1> QED BY <1>3 DEF Max

\* What a step of r leaves alone of the other replicas.
Others(r) == \A o \in Replicas : o # r => check'[o] = check[o] /\ sending'[o] = sending[o]

\* r is the only one at work, before and after its step.
OnlyOne(r) == ~beside' => ~beside /\ (Active(r) \/ \A o \in Replicas : o # r => ~Active(o))

LEMMA OthersRest ==
  ASSUME IncidentsIInv, NEW r \in Replicas, Others(r), OnlyOne(r), ~beside'
  PROVE  /\ ~beside /\ OneByOne /\ OneActive'
         /\ \A o \in Replicas : o # r => ~Active(o) /\ sending[o].left = {}
         /\ \A o \in Replicas : \A k : o # r => ~Announces(o, k) /\ ~Announces(o, k)'
<1>1. ~beside /\ OneByOne
  BY DEF OnlyOne, IncidentsIInv
<1>2. ASSUME NEW o \in Replicas, o # r PROVE ~Active(o) /\ ~Active(o)'
  <2>1. ~Active(o)
    BY <1>1, <1>2 DEF OnlyOne, OneByOne, OneActive
  <2>2. check'[o] = check[o] /\ sending'[o] = sending[o]
    BY <1>2 DEF Others
  <2>3. ~Active(o)'
    BY <2>1, <2>2 DEF Active
  <2> QED BY <2>1, <2>3
<1>3. OneActive'
  BY <1>2 DEF OneActive
<1>4. ASSUME NEW o \in Replicas, o # r
      PROVE  sending[o].left = {} /\ \A k : ~Announces(o, k) /\ ~Announces(o, k)'
  <2>1. ~Active(o) /\ Known(o) /\ check'[o] = check[o]
    BY <1>2, <1>4 DEF IncidentsIInv, Others
  <2> QED BY <2>1 DEF Active, Known, Announces
<1> QED BY <1>1, <1>2, <1>3, <1>4

\* A step of r that leaves the notifications alone, and ends no incident without
\* a word that is opened at a pager, unless it lapses.
LEMMA TablesAlone ==
  ASSUME IncidentsIInv, NEW r \in Replicas, Others(r), OnlyOne(r),
         ring' = ring, sent' = sent, tooOld' = tooOld, delivered' = delivered, page' = page,
         lapsed \subseteq lapsed',
         sending'[r] = sending[r] \/ (sending'[r].left = {} /\ sending'[r].failed = {}),
         Shapes', DOMAIN incident \subseteq DOMAIN incident', Seen(r)',
         \A k : Announces(r, k)' => k \in DOMAIN incident',
         ~beside' => \A k \in IncidentKeys : AnnouncesNew(r, k)' =>
             incident'[k].open /\ \A x \in ring : x.key # k,
         ~beside' => \A k \in DOMAIN incident : incident[k].open \/ Announces(r, k) =>
             incident'[k].open \/ Announces(r, k)' \/ \A p \in Pagers : <<k, p>> \in lapsed'
  PROVE  IncidentsIInv'
<1>1. Rows /\ Deliveries /\ \A o \in Replicas : Seen(o) /\ Known(o)
  BY DEF IncidentsIInv
<1>2. Rows'
  BY <1>1 DEF Rows
<1>3. ASSUME NEW o \in Replicas PROVE Seen(o)' /\ Known(o)'
  <2>1. CASE o = r
    <3>1. sending'[r].left \subseteq ring /\ (sending'[r].pc = "idle" => sending'[r].left = {})
      BY <1>1 DEF Known
    <3> QED BY <2>1, <3>1 DEF Known
  <2>2. CASE o # r
    <3>1. check'[o] = check[o] /\ sending'[o] = sending[o] /\ Seen(o) /\ Known(o)
      BY <1>1, <2>2 DEF Others
    <3> QED BY <3>1 DEF Seen, Known, Announces
  <2> QED BY <2>1, <2>2
<1>4. \A o \in Replicas : sending'[o] = sending[o] \/ sending'[o].left = {}
  BY DEF Others
<1>5. Deliveries'
  <2>1. GivenUp' /\ OpenedFirst'
    BY <1>1 DEF Deliveries, GivenUp, OpenedFirst
  <2>2. InTurn'
    BY <1>1, <1>4 DEF Deliveries, InTurn
  <2> QED BY <2>1, <2>2 DEF Deliveries
<1>6. ASSUME ~beside' PROVE OneByOne'
  <2>1. /\ OneByOne /\ OneActive'
        /\ \A o \in Replicas : \A k : o # r => ~Announces(o, k) /\ ~Announces(o, k)'
    BY <1>6, OthersRest
  <2>2. Anew'
    <3> SUFFICES ASSUME NEW o \in Replicas, NEW k \in IncidentKeys, AnnouncesNew(o, k)'
                 PROVE  incident'[k].open /\ \A x \in ring : x.key # k
      BY DEF Anew
    <3>1. o = r
      BY <2>1 DEF AnnouncesNew
    <3> QED BY <3>1, <1>6
  <2>3. Answered'
    <3> SUFFICES ASSUME NEW p \in Pagers, NEW k \in IncidentKeys, Opening(k, p) \in ring
                 PROVE  \/ incident'[k].open \/ (\E o \in Replicas : Announces(o, k)')
                        \/ Closing(k, p) \in ring \/ <<k, p>> \in lapsed'
      BY DEF Answered
    <3>1. k \in DOMAIN incident
      BY <1>1, RowForm DEF Rows
    <3>2. \/ incident[k].open \/ (\E o \in Replicas : Announces(o, k))
          \/ Closing(k, p) \in ring \/ <<k, p>> \in lapsed
      BY <2>1 DEF OneByOne, Answered
    <3>3. (\E o \in Replicas : Announces(o, k)) => Announces(r, k)
      BY <2>1
    <3> QED BY <1>6, <3>1, <3>2, <3>3
  <2>4. NotFirst'
    <3>1. \A x : Pending(x)' => Pending(x)
      BY <1>4 DEF Pending
    <3> QED BY <3>1, <2>1 DEF OneByOne, NotFirst
  <2>5. OpenAgain'
    BY <2>1 DEF OneByOne, OpenAgain
  <2> QED BY <2>1, <2>2, <2>3, <2>4, <2>5 DEF OneByOne
<1> QED BY <1>2, <1>3, <1>5, <1>6 DEF IncidentsIInv

-----------------------------------------------------------------------------
(* Check *)

LEMMA LocalsType ==
  /\ NoCheck \in CheckLocals /\ NoCheck.pc = "idle" /\ NoCheck.todo = {}
  /\ NotSending \in PassLocals /\ NotSending.pc = "idle"
  /\ NotSending.left = {} /\ NotSending.failed = {}
<1>1. [a \in Applications |-> "missing"] \in Worlds
  BY DEF Worlds
<1> QED BY <1>1 DEF NoCheck, NotSending, CheckLocals, PassLocals

LEMMA AsPrimaryOnly ==
  ASSUME NEW r \in Replicas, AsPrimary(r) PROVE OnlyOne(r)
  BY DEF AsPrimary, Busy, OnlyOne, Active

\* A step of the check of r, to the locals c.
LEMMA CheckStep ==
  ASSUME IncidentsIInv, NEW r \in Replicas, NEW c \in CheckLocals,
         check' = [check EXCEPT ![r] = c], sending' = sending, page' = page,
         incident' \in Seq(IncidentRow), Len(incident') <= MaxIncidents
  PROVE  Shapes' /\ Others(r) /\ check'[r] = c /\ sending'[r] = sending[r]
<1>1. check \in [Replicas -> CheckLocals]
  BY DEF IncidentsIInv, Shapes
<1>2. /\ check' \in [Replicas -> CheckLocals] /\ check'[r] = c
      /\ \A o \in Replicas : o # r => check'[o] = check[o]
  BY <1>1
<1> QED BY <1>2 DEF IncidentsIInv, Shapes, Others

LEMMA CheckBeginsIInv ==
  ASSUME IncidentsIInv, NEW r \in Replicas, CheckBegins(r)
  PROVE  IncidentsIInv'
<1>1. PICK w \in Worlds :
        check' = [check EXCEPT ![r] = [NoCheck EXCEPT !.pc = "app", !.world = w,
                                   !.todo = {a \in Applications : w[a] \in {"ok", "bad"}}]]
  BY DEF CheckBegins, Worlds
<1>2. /\ check[r].pc = "idle" /\ AsPrimary(r)
      /\ incident' = incident /\ ring' = ring /\ sent' = sent /\ tooOld' = tooOld
      /\ sending' = sending /\ page' = page /\ delivered' = delivered /\ lapsed' = lapsed
  BY DEF CheckBegins
<1> DEFINE todo == {a \in Applications : w[a] \in {"ok", "bad"}}
           c == [NoCheck EXCEPT !.pc = "app", !.world = w, !.todo = todo]
<1>3. todo \in SUBSET Applications /\ \A a \in todo : w[a] \in {"ok", "bad"}
  OBVIOUS
<1>4. check' = [check EXCEPT ![r] = c]
  BY <1>1
<1> HIDE DEF todo
<1>5. c \in CheckLocals /\ c.pc = "app" /\ c.world = w /\ c.todo = todo
  BY <1>3, LocalsType DEF CheckLocals
<1> HIDE DEF c
<1>6. incident' \in Seq(IncidentRow) /\ Len(incident') <= MaxIncidents
  BY <1>2 DEF IncidentsIInv, Shapes
<1>7. Shapes' /\ Others(r) /\ check'[r] = c /\ sending'[r] = sending[r]
  BY <1>2, <1>4, <1>5, <1>6, CheckStep
<1>8. Seen(r)' /\ \A k : ~Announces(r, k)' /\ ~Announces(r, k)
  BY <1>2, <1>3, <1>5, <1>7 DEF Seen, Announces
<1>9. OnlyOne(r)
  BY <1>2, AsPrimaryOnly
<1> QED BY <1>2, <1>7, <1>8, <1>9, TablesAlone, SMTT(60) DEF AnnouncesNew

\* A step of a check that is at work.
LEMMA AtWork ==
  ASSUME NEW r \in Replicas, check[r].pc # "idle", beside' = beside PROVE OnlyOne(r)
  BY DEF OnlyOne, Active

LEMMA GetLastOpenIncidentIInv ==
  ASSUME IncidentsIInv, NEW r \in Replicas, GetLastOpenIncident(r)
  PROVE  IncidentsIInv'
<1> DEFINE me == check[r]
<1>1. /\ me.pc = "app" /\ beside' = beside
      /\ incident' = incident /\ ring' = ring /\ sent' = sent /\ tooOld' = tooOld
      /\ sending' = sending /\ page' = page /\ delivered' = delivered /\ lapsed' = lapsed
  BY DEF GetLastOpenIncident
<1>2. /\ check \in [Replicas -> CheckLocals] /\ me \in CheckLocals /\ Seen(r)
      /\ incident \in Seq(IncidentRow) /\ Len(incident) <= MaxIncidents
  BY DEF IncidentsIInv, Shapes
<1>3. PICK a \in me.todo :
        LET found == IF OpenOf(a) = {} THEN 0 ELSE Max(OpenOf(a))
        IN  check' = [check EXCEPT ![r].todo = @ \ {a},
                                   ![r].app = a,
                                   ![r].found = found,
                                   ![r].pc = IF found = 0 /\ check[r].world[a] = "ok"
                                             THEN "app" ELSE "write"]
  BY DEF GetLastOpenIncident
<1> DEFINE found == IF OpenOf(a) = {} THEN 0 ELSE Max(OpenOf(a))
           pc == IF found = 0 /\ check[r].world[a] = "ok" THEN "app" ELSE "write"
           todo == me.todo \ {a}
           c == [me EXCEPT !.todo = todo, !.app = a, !.found = found, !.pc = pc]
<1>4. found \in Nat /\ (found = 0 \/ found \in DOMAIN incident)
  <2>1. Len(incident) \in Nat /\ DOMAIN incident = 1..Len(incident)
    BY <1>2
  <2>2. OpenOf(a) \in SUBSET (1..Len(incident))
    BY <2>1 DEF OpenOf
  <2>3. OpenOf(a) # {} => Max(OpenOf(a)) \in OpenOf(a)
    BY <2>1, <2>2, MaxExists
  <2> QED BY <2>1, <2>2, <2>3
<1>5. pc \in {"app", "write"} /\ a \in Applications /\ todo \in SUBSET Applications /\ todo \subseteq me.todo
  BY <1>2 DEF CheckLocals
<1>6. check' = [check EXCEPT ![r].todo = todo, ![r].app = a, ![r].found = found, ![r].pc = pc]
  BY <1>3
<1> HIDE DEF found, pc, todo
<1>7. check' = [check EXCEPT ![r] = c]
  BY <1>2, <1>6 DEF CheckLocals
<1>8. /\ c \in CheckLocals /\ c.pc = pc /\ c.todo = todo /\ c.app = a /\ c.found = found
      /\ c.world = me.world
  BY <1>2, <1>4, <1>5 DEF CheckLocals
<1> HIDE DEF c
<1>9. Shapes' /\ Others(r) /\ check'[r] = c /\ sending'[r] = sending[r]
  BY <1>1, <1>2, <1>7, <1>8, CheckStep
<1>10. Seen(r)'
  BY <1>1, <1>2, <1>4, <1>5, <1>8, <1>9 DEF Seen
<1>11. \A k : ~Announces(r, k)' /\ ~Announces(r, k)
  BY <1>1, <1>5, <1>8, <1>9 DEF Announces
<1>12. OnlyOne(r)
  BY <1>1, AtWork
<1> QED BY <1>1, <1>9, <1>10, <1>11, <1>12, TablesAlone DEF AnnouncesNew

\* What CreateIncident, ResolveIncident or UpdateIncident leaves of the table.
LEMMA WrittenIs ==
  ASSUME IncidentsIInv, NEW r \in Replicas, NEW me, me = check[r], me.pc = "write",
         me.found = 0 => Len(incident) < MaxIncidents, NEW w, w = Written(me)
  PROVE  /\ w \in Seq(IncidentRow) /\ Len(w) <= MaxIncidents /\ DOMAIN incident \subseteq DOMAIN w
         /\ me.found = 0 => /\ Len(w) = Len(incident) + 1 /\ w[Len(w)].open
                            /\ \A k \in DOMAIN incident : w[k] = incident[k]
         /\ me.found # 0 =>
              /\ Len(w) = Len(incident) /\ me.found \in DOMAIN incident
              /\ \A k \in DOMAIN incident : incident[k].open =>
                   w[k].open \/ (k = me.found /\ me.world[me.app] = "ok")
<1>1. /\ incident \in Seq(IncidentRow) /\ Len(incident) <= MaxIncidents /\ Len(incident) \in Nat
      /\ DOMAIN incident = 1..Len(incident) /\ me \in CheckLocals
      /\ me.app \in Applications /\ me.world[me.app] \in {"ok", "bad"}
      /\ me.found = 0 \/ me.found \in DOMAIN incident
  BY DEF IncidentsIInv, Shapes, Seen
<1>2. CASE me.found = 0
  <2> DEFINE n == [app |-> me.app, open |-> TRUE]
  <2>1. n \in IncidentRow /\ n.open
    BY <1>1 DEF IncidentRow, Booleans
  <2>2. w = Append(incident, n)
    BY <1>2 DEF Written
  <2> HIDE DEF n
  <2>3. /\ w \in Seq(IncidentRow) /\ Len(w) = Len(incident) + 1 /\ w[Len(w)] = n
        /\ \A k \in DOMAIN incident : w[k] = incident[k]
    BY <1>1, <2>1, <2>2
  <2>4. Len(w) <= MaxIncidents /\ DOMAIN incident \subseteq DOMAIN w
    BY <1>1, <1>2, <2>3, SMTT(60)
  <2> QED BY <1>2, <2>1, <2>3, <2>4
<1>3. CASE me.found # 0
  <2> DEFINE f == me.found
             o == (incident[f].open /\ me.world[me.app] = "bad")
             n == [incident[f] EXCEPT !.open = o]
  <2>1. f \in DOMAIN incident /\ incident[f] \in IncidentRow
    BY <1>1, <1>3
  <2>2. o \in Booleans
    BY DEF Booleans
  <2>3. w = [incident EXCEPT ![f] = n]
    BY <1>3 DEF Written
  <2>o. incident[f].open => o \/ me.world[me.app] = "ok"
    BY <1>1
  <2> HIDE DEF f, o
  <2>4. n \in IncidentRow /\ n.open = o
    BY <2>1, <2>2 DEF IncidentRow
  <2> HIDE DEF n
  <2>5. /\ w \in Seq(IncidentRow) /\ Len(w) = Len(incident) /\ DOMAIN w = DOMAIN incident
        /\ w[f] = n /\ \A k \in DOMAIN incident : k # f => w[k] = incident[k]
    BY <1>1, <2>1, <2>3, <2>4
  <2>6. ASSUME NEW k \in DOMAIN incident, incident[k].open
        PROVE  w[k].open \/ (k = f /\ me.world[me.app] = "ok")
    <3>1. CASE k = f
      BY <2>4, <2>5, <2>6, <2>o, <3>1
    <3>2. CASE k # f
      BY <2>5, <2>6, <3>2
    <3> QED BY <3>1, <3>2
  <2> QED BY <1>1, <1>3, <2>1, <2>5, <2>6, ZenonT(60) DEF f
<1> QED BY <1>2, <1>3

LEMMA WriteIncidentIInv ==
  ASSUME IncidentsIInv, NEW r \in Replicas, WriteIncident(r)
  PROVE  IncidentsIInv'
<1>0. PICK me : me = check[r]
  OBVIOUS
<1>1. /\ me.pc = "write" /\ beside' = beside /\ (me.found = 0 => Len(incident) < MaxIncidents)
      /\ incident' = Written(me) /\ ring' = ring /\ sent' = sent /\ tooOld' = tooOld
      /\ sending' = sending /\ page' = page /\ delivered' = delivered /\ lapsed' = lapsed
  BY <1>0 DEF WriteIncident
<1>2. /\ check \in [Replicas -> CheckLocals] /\ me \in CheckLocals /\ Seen(r) /\ Rows
      /\ incident \in Seq(IncidentRow) /\ Len(incident) \in Nat
      /\ DOMAIN incident = 1..Len(incident) /\ Len(incident) <= MaxIncidents
  BY <1>0 DEF IncidentsIInv, Shapes
<1>3. PICK w : w = incident'
  OBVIOUS
<1>4. /\ w \in Seq(IncidentRow) /\ Len(w) <= MaxIncidents /\ DOMAIN incident \subseteq DOMAIN w
      /\ me.found = 0 => /\ Len(w) = Len(incident) + 1 /\ w[Len(w)].open
                         /\ \A k \in DOMAIN incident : w[k] = incident[k]
      /\ me.found # 0 =>
           /\ Len(w) = Len(incident) /\ me.found \in DOMAIN incident
           /\ \A k \in DOMAIN incident : incident[k].open =>
                w[k].open \/ (k = me.found /\ me.world[me.app] = "ok")
  BY <1>0, <1>1, <1>3, WrittenIs
<1>5. OnlyOne(r) /\ \A k : ~Announces(r, k)
  <2>1. check[r].pc = "write" /\ check[r].pc # "idle"
    BY <1>0, <1>1
  <2> QED BY <1>1, <2>1, AtWork DEF Announces
<1>6. CASE me.found # 0 /\ me.world[me.app] = "bad"
  <2> DEFINE c == [me EXCEPT !.pc = "app"]
  <2>1. check' = [check EXCEPT ![r] = c]
    BY <1>0, <1>6 DEF WriteIncident
  <2>2. c \in CheckLocals /\ c.pc = "app" /\ c.todo = me.todo /\ c.world = me.world
    BY <1>2 DEF CheckLocals
  <2> HIDE DEF c
  <2>3. Shapes' /\ Others(r) /\ check'[r] = c /\ sending'[r] = sending[r]
    BY <1>1, <1>3, <1>4, <2>1, <2>2, CheckStep
  <2>4. Seen(r)' /\ \A k : ~Announces(r, k)'
    BY <1>0, <1>2, <2>2, <2>3 DEF Seen, Announces
  <2>5. \A k \in DOMAIN incident : incident[k].open => incident'[k].open
    BY <1>3, <1>4, <1>6
  <2> QED BY <1>1, <1>3, <1>4, <1>5, <2>3, <2>4, <2>5, TablesAlone DEF AnnouncesNew
<1>7. CASE ~(me.found # 0 /\ me.world[me.app] = "bad")
  <2> DEFINE key == IF me.found = 0 THEN Len(incident') ELSE me.found
             c == [me EXCEPT !.pc = "announce", !.key = key]
  <2>0. check' = [check EXCEPT ![r].pc = "announce", ![r].key = key]
    BY <1>0, <1>7 DEF WriteIncident
  <2>1. key \in Nat /\ key \in DOMAIN w /\ key = (IF me.found = 0 THEN Len(w) ELSE me.found)
    BY <1>2, <1>3, <1>4
  <2> HIDE DEF key
  <2>2. check' = [check EXCEPT ![r] = c]
    BY <1>0, <1>2, <2>0 DEF CheckLocals
  <2>3. /\ c \in CheckLocals /\ c.pc = "announce" /\ c.todo = me.todo /\ c.world = me.world
        /\ c.key = key /\ c.found = me.found
    BY <1>2, <2>1 DEF CheckLocals
  <2> HIDE DEF c
  <2>4. Shapes' /\ Others(r) /\ check'[r] = c /\ sending'[r] = sending[r]
    BY <1>1, <1>3, <1>4, <2>2, <2>3, CheckStep
  <2>5. Seen(r)' /\ \A k : Announces(r, k)' <=> k = key
    BY <1>0, <1>2, <2>3, <2>4 DEF Seen, Announces
  <2>6. ASSUME NEW k \in IncidentKeys, AnnouncesNew(r, k)'
        PROVE  incident'[k].open /\ \A x \in ring : x.key # k
    <3>1. k = Len(w) /\ me.found = 0
      BY <2>1, <2>3, <2>4, <2>5, <2>6 DEF AnnouncesNew
    <3>2. k \notin DOMAIN incident
      BY <1>2, <1>4, <3>1
    <3> QED BY <1>2, <1>3, <1>4, <3>1, <3>2 DEF Rows
  <2>7. \A k \in DOMAIN incident : incident[k].open => incident'[k].open \/ Announces(r, k)'
    BY <1>3, <1>4, <2>1, <2>5
  <2> QED BY <1>1, <1>3, <1>4, <1>5, <2>1, <2>4, <2>5, <2>6, <2>7, TablesAlone
<1> QED BY <1>6, <1>7

LEMMA CheckStatementFailsIInv ==
  ASSUME IncidentsIInv, NEW r \in Replicas, CheckStatementFails(r)
  PROVE  IncidentsIInv'
<1>0. PICK me : me = check[r]
  OBVIOUS
<1>1. /\ beside' = beside /\ ring' = ring /\ sent' = sent /\ tooOld' = tooOld
      /\ sending' = sending /\ page' = page /\ delivered' = delivered
      /\ me.pc = "app" \/ me.pc = "write"
  BY <1>0 DEF CheckStatementFails
<1>2. /\ check \in [Replicas -> CheckLocals] /\ me \in CheckLocals /\ Seen(r)
      /\ incident \in Seq(IncidentRow) /\ Len(incident) <= MaxIncidents
  BY <1>0 DEF IncidentsIInv, Shapes
<1>3. OnlyOne(r) /\ \A k : ~Announces(r, k)
  <2>1. check[r].pc # "idle" /\ check[r].pc # "announce"
    BY <1>0, <1>1
  <2> QED BY <1>1, <2>1, AtWork DEF Announces
<1>4. ASSUME NEW todo \in SUBSET me.todo, NEW c, c = [me EXCEPT !.pc = "app", !.todo = todo],
             check' = [check EXCEPT ![r] = c],
             incident' \in Seq(IncidentRow), Len(incident') <= MaxIncidents,
             DOMAIN incident \subseteq DOMAIN incident', lapsed \subseteq lapsed',
             \A k \in DOMAIN incident : incident[k].open =>
               incident'[k].open \/ \A p \in Pagers : <<k, p>> \in lapsed'
      PROVE  IncidentsIInv'
  <2>1. c \in CheckLocals /\ c.pc = "app" /\ c.todo = todo /\ c.world = me.world
    BY <1>2, <1>4 DEF CheckLocals
  <2>2. Shapes' /\ Others(r) /\ check'[r] = c /\ sending'[r] = sending[r]
    BY <1>1, <1>4, <2>1, CheckStep
  <2>3. Seen(r)' /\ \A k : ~Announces(r, k)'
    BY <1>0, <1>2, <2>1, <2>2 DEF Seen, Announces
  <2> QED BY <1>1, <1>3, <1>4, <2>2, <2>3, TablesAlone DEF AnnouncesNew
<1>5. CASE /\ me.pc = "app" /\ incident' = incident /\ lapsed' = lapsed
           /\ \E a \in me.todo : check' = [check EXCEPT ![r].todo = @ \ {a}]
  <2>1. PICK a \in me.todo : check' = [check EXCEPT ![r].todo = @ \ {a}]
    BY <1>5
  <2>2. PICK todo : todo = me.todo \ {a}
    OBVIOUS
  <2>3. PICK c : c = [me EXCEPT !.pc = "app", !.todo = todo]
    OBVIOUS
  <2>4. check' = [check EXCEPT ![r] = [me EXCEPT !.todo = todo]]
    BY <1>0, <2>1, <2>2
  <2>5. c = [me EXCEPT !.todo = todo]
    BY <1>2, <1>5, <2>3 DEF CheckLocals
  <2>6. check' = [check EXCEPT ![r] = c]
    BY <2>4, <2>5
  <2> QED BY <1>2, <1>4, <1>5, <2>2, <2>3, <2>6
<1>6. CASE me.pc = "write" /\ check' = [check EXCEPT ![r].pc = "app"]
  <2>1. PICK c : c = [me EXCEPT !.pc = "app", !.todo = me.todo]
    OBVIOUS
  <2>2. c = [me EXCEPT !.pc = "app"]
    BY <1>2, <2>1 DEF CheckLocals
  <2>3. check' = [check EXCEPT ![r] = c]
    BY <1>0, <1>6, <2>2
  <2>4. CASE incident' = incident /\ lapsed' = lapsed
    BY <1>2, <1>4, <2>1, <2>3, <2>4
  <2>5. CASE /\ me.found = 0 => Len(incident) < MaxIncidents
             /\ incident' = Written(me)
             /\ lapsed' = IF me.found # 0 /\ me.world[me.app] = "ok"
                          THEN lapsed \cup ({me.found} \X Destinations) ELSE lapsed
    <3>1. PICK w : w = incident'
      OBVIOUS
    <3>2. /\ w \in Seq(IncidentRow) /\ Len(w) <= MaxIncidents /\ DOMAIN incident \subseteq DOMAIN w
          /\ me.found = 0 => \A k \in DOMAIN incident : w[k] = incident[k]
          /\ me.found # 0 => \A k \in DOMAIN incident : incident[k].open =>
               w[k].open \/ (k = me.found /\ me.world[me.app] = "ok")
      BY <1>0, <1>6, <2>5, <3>1, WrittenIs
    <3>3. lapsed \subseteq lapsed'
      BY <2>5
    <3>4. me.found # 0 /\ me.world[me.app] = "ok" => \A p \in Pagers : <<me.found, p>> \in lapsed'
      BY <2>5 DEF Destinations
    <3>5. \A k \in DOMAIN incident : incident[k].open =>
               incident'[k].open \/ \A p \in Pagers : <<k, p>> \in lapsed'
      BY <3>1, <3>2, <3>4
    <3> QED BY <1>4, <2>1, <2>3, <3>1, <3>2, <3>3, <3>5
  <2> QED BY <1>0, <1>6, <2>4, <2>5 DEF CheckStatementFails
<1> QED BY <1>0, <1>5, <1>6 DEF CheckStatementFails

LEMMA ResolveForMissingAppsIInv ==
  ASSUME IncidentsIInv, NEW r \in Replicas, ResolveForMissingApps(r)
  PROVE  IncidentsIInv'
<1>1. /\ check[r].pc = "app" /\ check' = [check EXCEPT ![r] = NoCheck]
      /\ beside' = beside /\ ring' = ring /\ sent' = sent /\ tooOld' = tooOld
      /\ sending' = sending /\ page' = page /\ delivered' = delivered
  BY DEF ResolveForMissingApps
<1>2. PICK done :
        /\ incident' = [k \in DOMAIN incident |-> [incident[k] EXCEPT !.open = @ /\ k \notin done]]
        /\ lapsed' = lapsed \cup (done \X Destinations)
  BY DEF ResolveForMissingApps
<1>3. incident \in Seq(IncidentRow) /\ Len(incident) <= MaxIncidents
  BY DEF IncidentsIInv, Shapes
<1>4. ASSUME NEW k \in DOMAIN incident
      PROVE  /\ incident'[k] \in IncidentRow
             /\ incident[k].open => incident'[k].open \/ k \in done
  <2> DEFINE o == (incident[k].open /\ k \notin done)
  <2>1. o \in Booleans /\ (incident[k].open => o \/ k \in done)
    BY DEF Booleans
  <2>2. incident[k] \in IncidentRow /\ incident'[k] = [incident[k] EXCEPT !.open = o]
    BY <1>2, <1>3
  <2> HIDE DEF o
  <2>3. incident'[k] \in IncidentRow /\ incident'[k].open = o
    BY <2>1, <2>2 DEF IncidentRow
  <2> QED BY <2>1, <2>3
<1>5. incident' \in Seq(IncidentRow) /\ Len(incident') <= MaxIncidents /\ DOMAIN incident' = DOMAIN incident
  <2>1. PICK w : w = incident'
    OBVIOUS
  <2>2. DOMAIN w = DOMAIN incident
    BY <1>2, <2>1
  <2>3. w = [k \in 1..Len(incident) |-> w[k]]
    BY <1>2, <1>3, <2>1, <2>2
  <2>4. Len(incident) \in Nat /\ \A k \in 1..Len(incident) : w[k] \in IncidentRow
    BY <1>3, <1>4, <2>1
  <2>5. w \in Seq(IncidentRow) /\ Len(w) = Len(incident)
    BY <2>3, <2>4
  <2> QED BY <1>3, <2>1, <2>2, <2>5
<1>6. Shapes' /\ Others(r) /\ check'[r] = NoCheck /\ sending'[r] = sending[r]
  BY <1>1, <1>5, CheckStep, LocalsType
<1>7. Seen(r)' /\ \A k : ~Announces(r, k)' /\ ~Announces(r, k)
  BY <1>1, <1>6, LocalsType DEF Seen, Announces
<1>8. OnlyOne(r)
  BY <1>1, AtWork
<1>9. lapsed \subseteq lapsed' /\ \A k \in done, p \in Pagers : <<k, p>> \in lapsed'
  BY <1>2 DEF Destinations
<1> QED BY <1>1, <1>4, <1>5, <1>6, <1>7, <1>8, <1>9, TablesAlone DEF AnnouncesNew

\* A step of r that ends a pass.
LEMMA PassStep ==
  ASSUME IncidentsIInv, NEW r \in Replicas, NEW c \in CheckLocals, NEW s \in PassLocals,
         check' = [check EXCEPT ![r] = c], sending' = [sending EXCEPT ![r] = s],
         page' \in [Pagers -> SUBSET IncidentKeys], incident' = incident
  PROVE  Shapes' /\ Others(r) /\ check'[r] = c /\ sending'[r] = s
<1>1. check \in [Replicas -> CheckLocals] /\ sending \in [Replicas -> PassLocals]
  BY DEF IncidentsIInv, Shapes
<1>2. /\ check' \in [Replicas -> CheckLocals] /\ check'[r] = c
      /\ \A o \in Replicas : o # r => check'[o] = check[o]
  BY <1>1
<1>3. /\ sending' \in [Replicas -> PassLocals] /\ sending'[r] = s
      /\ \A o \in Replicas : o # r => sending'[o] = sending[o]
  BY <1>1
<1> QED BY <1>2, <1>3 DEF IncidentsIInv, Shapes, Others

LEMMA IncidentsRestartIInv ==
  ASSUME IncidentsIInv, NEW r \in Replicas, IncidentsRestart(r)
  PROVE  IncidentsIInv'
<1>1. /\ check' = [check EXCEPT ![r] = NoCheck] /\ sending' = [sending EXCEPT ![r] = NotSending]
      /\ lapsed' = (IF check[r].pc = "announce" /\ check[r].found # 0
                    THEN lapsed \cup ({check[r].key} \X Destinations) ELSE lapsed)
      /\ incident' = incident /\ beside' = beside /\ ring' = ring /\ sent' = sent
      /\ tooOld' = tooOld /\ page' = page /\ delivered' = delivered
  BY DEF IncidentsRestart
<1>2. Shapes' /\ Others(r) /\ check'[r] = NoCheck /\ sending'[r] = NotSending
  <2>1. page' \in [Pagers -> SUBSET IncidentKeys]
    BY <1>1 DEF IncidentsIInv, Shapes
  <2> QED BY <1>1, <2>1, PassStep, LocalsType
<1>3. Seen(r)' /\ \A k : ~Announces(r, k)'
  BY <1>2, LocalsType DEF Seen, Announces
<1>4. lapsed \subseteq lapsed'
  BY <1>1
<1>5. ASSUME NEW k \in DOMAIN incident, ~beside, Announces(r, k)
      PROVE  incident[k].open \/ \A p \in Pagers : <<k, p>> \in lapsed'
  <2>1. CASE check[r].found = 0
    <3>1. k \in IncidentKeys
      BY DEF IncidentsIInv, Shapes, IncidentKeys
    <3> QED BY <1>5, <2>1, <3>1 DEF IncidentsIInv, OneByOne, Anew, AnnouncesNew
  <2>2. CASE check[r].found # 0
    <3>1. lapsed' = lapsed \cup ({check[r].key} \X Destinations) /\ check[r].key = k
      BY <1>1, <1>5, <2>2 DEF Announces
    <3> QED BY <3>1 DEF Destinations
  <2> QED BY <2>1, <2>2
<1>6. CASE Active(r) \/ \A o \in Replicas : o # r => ~Active(o)
  <2>1. OnlyOne(r)
    BY <1>1, <1>6 DEF OnlyOne
  <2> QED BY <1>1, <1>2, <1>3, <1>4, <1>5, <2>1, LocalsType, TablesAlone DEF AnnouncesNew
<1>7. CASE ~Active(r)
  <2>1. /\ check[r].pc = "idle" /\ sending[r].pc = "idle" /\ sending[r].left = {} /\ lapsed' = lapsed
        /\ check'[r].pc = "idle" /\ sending'[r].pc = "idle" /\ sending'[r].left = {}
    BY <1>1, <1>2, <1>7, LocalsType DEF IncidentsIInv, Known, Active
  <2>2. ASSUME NEW o \in Replicas
        PROVE  /\ Active(o)' = Active(o) /\ \A k : Announces(o, k)' <=> Announces(o, k)
               /\ \A k : AnnouncesNew(o, k)' <=> AnnouncesNew(o, k)
               /\ sending'[o].left = sending[o].left /\ sending'[o].pc = sending[o].pc
               /\ sending'[o].left # {} => sending'[o] = sending[o]
    <3>1. CASE o = r
      BY <2>1, <3>1 DEF Active, Announces, AnnouncesNew
    <3>2. CASE o # r
      BY <1>2, <3>2 DEF Others, Active, Announces, AnnouncesNew
    <3> QED BY <3>1, <3>2
  <2>3. ASSUME NEW o \in Replicas PROVE Seen(o)' /\ Known(o)'
    <3>1. Seen(o)'
      <4>1. CASE o = r
        BY <1>3, <4>1
      <4>2. CASE o # r
        BY <1>1, <1>2, <4>2 DEF IncidentsIInv, Others, Seen
      <4> QED BY <4>1, <4>2
    <3> QED BY <1>1, <2>2, <3>1 DEF IncidentsIInv, Known
  <2>4. Rows' /\ GivenUp' /\ OpenedFirst' /\ (beside' = beside)
    BY <1>1, <2>1 DEF IncidentsIInv, Deliveries, Rows, GivenUp, OpenedFirst
  <2>5. InTurn'
    BY <1>1, <2>2 DEF IncidentsIInv, Deliveries, InTurn
  <2>6. ASSUME OneByOne PROVE OneByOne'
    <3>1. OneActive'
      BY <2>2, <2>6 DEF OneByOne, OneActive
    <3>2. Anew'
      BY <1>1, <2>2, <2>6 DEF OneByOne, Anew
    <3>3. Answered'
      BY <1>1, <2>1, <2>2, <2>6 DEF OneByOne, Answered
    <3>4. NotFirst'
      BY <1>1, <2>2, <2>6 DEF OneByOne, NotFirst, Pending
    <3>5. OpenAgain'
      BY <1>1, <2>1, <2>6 DEF OneByOne, OpenAgain
    <3> QED BY <3>1, <3>2, <3>3, <3>4, <3>5 DEF OneByOne
  <2> QED BY <1>2, <2>3, <2>4, <2>5, <2>6 DEF IncidentsIInv, Deliveries
<1> QED BY <1>6, <1>7

\* The settings do not notify: the end is counted as lapsed, an opening leaves its
\* incident open.
LEMMA EnqueueDisabledIInv ==
  ASSUME IncidentsIInv, NEW r \in Replicas, EnqueueDisabled(r)
  PROVE  IncidentsIInv'
<1>0. PICK me : me = check[r]
  OBVIOUS
<1>1. /\ me.pc = "announce" /\ check' = [check EXCEPT ![r].pc = "app"]
      /\ lapsed' = (IF me.found = 0 THEN lapsed ELSE lapsed \cup ({me.key} \X Destinations))
      /\ incident' = incident /\ sending' = sending /\ beside' = beside /\ ring' = ring /\ sent' = sent
      /\ tooOld' = tooOld /\ page' = page /\ delivered' = delivered
  BY <1>0 DEF EnqueueDisabled
<1>2. /\ me \in CheckLocals /\ Seen(r)
      /\ incident' \in Seq(IncidentRow) /\ Len(incident') <= MaxIncidents
  BY <1>0, <1>1 DEF IncidentsIInv, Shapes
<1> DEFINE c == [me EXCEPT !.pc = "app"]
<1>3. check' = [check EXCEPT ![r] = c]
  BY <1>0, <1>1
<1>4. c \in CheckLocals /\ c.pc = "app" /\ c.todo = me.todo /\ c.world = me.world
  BY <1>2 DEF CheckLocals
<1> HIDE DEF c
<1>5. Shapes' /\ Others(r) /\ check'[r] = c /\ sending'[r] = sending[r]
  BY <1>1, <1>2, <1>3, <1>4, CheckStep
<1>6. Seen(r)' /\ \A k : ~Announces(r, k)'
  BY <1>0, <1>1, <1>2, <1>4, <1>5 DEF Seen, Announces
<1>7. lapsed \subseteq lapsed'
  BY <1>1
<1>8. ASSUME NEW k \in DOMAIN incident, ~beside, Announces(r, k)
      PROVE  incident[k].open \/ \A p \in Pagers : <<k, p>> \in lapsed'
  <2>1. CASE me.found = 0
    <3>1. k \in IncidentKeys
      BY DEF IncidentsIInv, Shapes, IncidentKeys
    <3> QED BY <1>0, <1>8, <2>1, <3>1 DEF IncidentsIInv, OneByOne, Anew, AnnouncesNew
  <2>2. CASE me.found # 0
    <3>1. lapsed' = lapsed \cup ({me.key} \X Destinations) /\ me.key = k
      BY <1>0, <1>1, <1>8, <2>2 DEF Announces
    <3> QED BY <3>1 DEF Destinations
  <2> QED BY <2>1, <2>2
<1>9. OnlyOne(r)
  <2>1. check[r].pc # "idle"
    BY <1>0, <1>1
  <2> QED BY <1>1, <2>1, AtWork
<1> QED BY <1>1, <1>5, <1>6, <1>7, <1>8, <1>9, TablesAlone DEF AnnouncesNew

-----------------------------------------------------------------------------
(* Notifications *)

LEMMA PassEndsIInv ==
  ASSUME IncidentsIInv, NEW r \in Replicas, PassEnds(r)
  PROVE  IncidentsIInv'
<1>0. PICK me : me = check[r]
  OBVIOUS
<1>1. /\ sending[r].pc = "send" /\ sending' = [sending EXCEPT ![r] = NotSending]
      /\ incident' = incident /\ beside' = beside /\ ring' = ring /\ sent' = sent /\ lapsed' = lapsed
      /\ tooOld' = tooOld /\ page' = page /\ delivered' = delivered
  BY DEF PassEnds
<1>2. me \in CheckLocals /\ Seen(r) /\ Known(r) /\ page' \in [Pagers -> SUBSET IncidentKeys]
  BY <1>0, <1>1 DEF IncidentsIInv, Shapes
<1> DEFINE pc == IF me.pc = "sending" THEN "app" ELSE me.pc
           c == [me EXCEPT !.pc = pc]
<1>3. check' = [check EXCEPT ![r] = c]
  BY <1>0 DEF PassEnds
<1>4. /\ pc \in {"idle", "app", "write", "announce", "send", "sending"}
      /\ pc = me.pc \/ (pc = "app" /\ me.pc = "sending")
  <2>1. me.pc \in {"idle", "app", "write", "announce", "send", "sending"}
    BY <1>2 DEF CheckLocals
  <2>2. CASE me.pc = "sending"
    BY <2>2
  <2>3. CASE me.pc # "sending"
    BY <2>1, <2>3
  <2> QED BY <2>2, <2>3
<1> HIDE DEF pc
<1>5. c \in CheckLocals /\ c.pc = pc /\ c = [me EXCEPT !.pc = pc]
  BY <1>2, <1>4 DEF CheckLocals
<1>6. /\ c.world = me.world /\ c.todo = me.todo /\ c.app = me.app /\ c.found = me.found
      /\ c.key = me.key
  BY <1>2 DEF CheckLocals
<1> HIDE DEF c
<1>7. Shapes' /\ Others(r) /\ check'[r] = c /\ sending'[r] = NotSending
  BY <1>1, <1>2, <1>3, <1>5, PassStep, LocalsType, ZenonT(60)
<1>8. Seen(r)'
  BY <1>0, <1>1, <1>2, <1>4, <1>5, <1>6, <1>7 DEF Seen
<1>9. \A k : (Announces(r, k)' <=> Announces(r, k)) /\ (AnnouncesNew(r, k)' <=> AnnouncesNew(r, k))
  BY <1>0, <1>4, <1>5, <1>6, <1>7 DEF Announces, AnnouncesNew
<1>10. OnlyOne(r)
  BY <1>1 DEF OnlyOne, Active
<1>11. \A k : Announces(r, k)' => k \in DOMAIN incident'
  BY <1>1, <1>2, <1>9 DEF Known
<1>12. ~beside' => \A k \in IncidentKeys : AnnouncesNew(r, k)' =>
             incident'[k].open /\ \A x \in ring : x.key # k
  BY <1>1, <1>9 DEF IncidentsIInv, OneByOne, Anew
<1> QED BY <1>1, <1>7, <1>8, <1>9, <1>10, <1>11, <1>12, LocalsType, TablesAlone

\* A pass begins with what is not sent.
LEMMA ReadStep ==
  ASSUME IncidentsIInv, NEW r \in Replicas, Others(r), OnlyOne(r), Shapes', Seen(r)',
         incident' = incident, ring' = ring, sent' = sent, tooOld' = tooOld,
         delivered' = delivered, page' = page, lapsed' = lapsed,
         sending'[r].pc = "send", sending'[r].left = ring \ (sent \cup tooOld),
         \A k : (Announces(r, k)' <=> Announces(r, k)) /\ (AnnouncesNew(r, k)' <=> AnnouncesNew(r, k))
  PROVE  IncidentsIInv'
<1>1. Rows /\ Deliveries /\ \A o \in Replicas : Seen(o) /\ Known(o)
  BY DEF IncidentsIInv
<1>2. Rows'
  BY <1>1 DEF Rows
<1>3. ASSUME NEW o \in Replicas
      PROVE  /\ Seen(o)' /\ Known(o)'
             /\ \A k : (Announces(o, k)' <=> Announces(o, k)) /\ (AnnouncesNew(o, k)' <=> AnnouncesNew(o, k))
             /\ o # r => sending'[o] = sending[o]
  <2>1. CASE o = r
    BY <1>1, <2>1 DEF Known
  <2>2. CASE o # r
    <3>1. check'[o] = check[o] /\ sending'[o] = sending[o] /\ Seen(o) /\ Known(o)
      BY <1>1, <2>2 DEF Others
    <3> QED BY <3>1 DEF Seen, Known, Announces, AnnouncesNew
  <2> QED BY <2>1, <2>2
<1>4. GivenUp' /\ OpenedFirst'
  BY <1>1 DEF Deliveries, GivenUp, OpenedFirst
<1>5. InTurn'
  <2> SUFFICES ASSUME NEW o \in Replicas, NEW p \in Pagers, NEW k \in IncidentKeys,
                      Closing(k, p) \in sending'[o].left
               PROVE  \/ Opening(k, p) \in sending'[o].left
                      \/ p \in sending'[o].failed \cup sending'[o].off
                      \/ Opening(k, p) \in tooOld \cup delivered \cup sent
    BY DEF InTurn
  <2>1. CASE o # r
    BY <1>1, <1>3, <2>1 DEF Deliveries, InTurn
  <2>2. CASE o = r
    BY <1>1, <2>2 DEF Deliveries, OpenedFirst, Rows
  <2> QED BY <2>1, <2>2
<1>6. ASSUME ~beside' PROVE OneByOne'
  <2>1. OneByOne /\ OneActive'
    BY <1>6, OthersRest
  <2>2. Anew'
    BY <1>3, <2>1 DEF OneByOne, Anew
  <2>3. Answered'
    BY <1>3, <2>1 DEF OneByOne, Answered
  <2>4. NotFirst'
    <3>1. \A x : Pending(x)' => Pending(x)
      BY <1>3 DEF Pending
    <3> QED BY <3>1, <2>1 DEF OneByOne, NotFirst
  <2>5. OpenAgain'
    BY <2>1 DEF OneByOne, OpenAgain
  <2> QED BY <2>1, <2>2, <2>3, <2>4, <2>5 DEF OneByOne
<1> QED BY <1>2, <1>3, <1>4, <1>5, <1>6 DEF IncidentsIInv, Deliveries

\* What ReadNotSent reads.
LEMMA ReadIs ==
  ASSUME IncidentsIInv, NEW r \in Replicas, NEW off \in SUBSET Destinations, ReadNotSent(r, off)
  PROVE  \E s \in PassLocals : /\ sending' = [sending EXCEPT ![r] = s]
                               /\ s.pc = "send" /\ s.left = ring \ (sent \cup tooOld)
<1> DEFINE left == ring \ (sent \cup tooOld)
           s == [pc |-> "send", left |-> left, failed |-> {}, off |-> off]
<1>1. left \in SUBSET Row
  BY DEF IncidentsIInv, Rows
<1>2. sending' = [sending EXCEPT ![r] = s]
  BY DEF ReadNotSent
<1>3. left = ring \ (sent \cup tooOld)
  OBVIOUS
<1> HIDE DEF left
<1>4. s \in PassLocals /\ s.pc = "send" /\ s.left = left
  BY <1>1 DEF PassLocals
<1> QED BY <1>2, <1>3, <1>4

LEMMA SendIncidentsIInv ==
  ASSUME IncidentsIInv, NEW r \in Replicas, SendIncidents(r)
  PROVE  IncidentsIInv'
<1>0. PICK me : me = check[r]
  OBVIOUS
<1>1. /\ me.pc = "send"
      /\ incident' = incident /\ beside' = beside /\ ring' = ring /\ sent' = sent /\ lapsed' = lapsed
      /\ tooOld' = tooOld /\ page' = page /\ delivered' = delivered
  BY <1>0 DEF SendIncidents
<1>2. /\ me \in CheckLocals /\ Seen(r) /\ page' \in [Pagers -> SUBSET IncidentKeys]
      /\ incident' \in Seq(IncidentRow) /\ Len(incident') <= MaxIncidents
  BY <1>0, <1>1 DEF IncidentsIInv, Shapes
<1>3. OnlyOne(r) /\ \A k : ~Announces(r, k)
  <2>1. check[r].pc # "idle" /\ check[r].pc # "announce"
    BY <1>0, <1>1
  <2> QED BY <1>1, <2>1, AtWork DEF Announces
<1>4. ASSUME NEW off \in SUBSET Destinations, ReadNotSent(r, off),
             check' = [check EXCEPT ![r].pc = "sending"]
      PROVE  IncidentsIInv'
  <2> DEFINE c == [me EXCEPT !.pc = "sending"]
  <2>1. check' = [check EXCEPT ![r] = c]
    BY <1>0, <1>4
  <2>2. c \in CheckLocals /\ c.pc = "sending" /\ c.todo = me.todo /\ c.world = me.world
    BY <1>2 DEF CheckLocals
  <2> HIDE DEF c
  <2>3. PICK s \in PassLocals : /\ sending' = [sending EXCEPT ![r] = s]
                                /\ s.pc = "send" /\ s.left = ring \ (sent \cup tooOld)
    BY <1>4, ReadIs
  <2>4. Shapes' /\ Others(r) /\ check'[r] = c /\ sending'[r] = s
    BY <1>1, <1>2, <2>1, <2>2, <2>3, PassStep, ZenonT(60)
  <2>5. Seen(r)' /\ \A k : ~Announces(r, k)'
    BY <1>0, <1>2, <2>2, <2>4 DEF Seen, Announces
  <2> QED BY <1>1, <1>3, <2>3, <2>4, <2>5, ReadStep DEF AnnouncesNew
<1>5. CASE check' = [check EXCEPT ![r].pc = "app"] /\ sending' = sending
  <2> DEFINE c == [me EXCEPT !.pc = "app"]
  <2>1. check' = [check EXCEPT ![r] = c]
    BY <1>0, <1>5
  <2>2. c \in CheckLocals /\ c.pc = "app" /\ c.todo = me.todo /\ c.world = me.world
    BY <1>2 DEF CheckLocals
  <2> HIDE DEF c
  <2>3. Shapes' /\ Others(r) /\ check'[r] = c /\ sending'[r] = sending[r]
    BY <1>1, <1>2, <1>5, <2>1, <2>2, CheckStep
  <2>4. Seen(r)' /\ \A k : ~Announces(r, k)'
    BY <1>0, <1>2, <2>2, <2>3 DEF Seen, Announces
  <2> QED BY <1>1, <1>3, <2>3, <2>4, TablesAlone DEF AnnouncesNew
<1> QED BY <1>4, <1>5 DEF SendIncidents

LEMMA RetryIncidentsIInv ==
  ASSUME IncidentsIInv, NEW r \in Replicas, RetryIncidents(r)
  PROVE  IncidentsIInv'
<1>0. PICK off \in SUBSET Destinations :
        /\ ReadNotSent(r, off)
        /\ IF off = {} THEN AsPrimary(r) ELSE IncidentFault /\ beside' = (beside \/ Busy(r))
  BY DEF RetryIncidents
<1>1. /\ check' = check
      /\ incident' = incident /\ ring' = ring /\ sent' = sent /\ lapsed' = lapsed
      /\ tooOld' = tooOld /\ page' = page /\ delivered' = delivered
  BY DEF RetryIncidents
<1>2. /\ check[r] \in CheckLocals /\ check \in [Replicas -> CheckLocals] /\ Seen(r)
      /\ page' \in [Pagers -> SUBSET IncidentKeys]
  BY <1>1 DEF IncidentsIInv, Shapes
<1>3. PICK s \in PassLocals : /\ sending' = [sending EXCEPT ![r] = s]
                              /\ s.pc = "send" /\ s.left = ring \ (sent \cup tooOld)
  BY <1>0, ReadIs
<1>4. check' = [check EXCEPT ![r] = check[r]]
  BY <1>1, <1>2
<1>5. Shapes' /\ Others(r) /\ check'[r] = check[r] /\ sending'[r] = s
  BY <1>1, <1>2, <1>3, <1>4, PassStep
<1>6. /\ Seen(r)'
      /\ \A k : (Announces(r, k)' <=> Announces(r, k)) /\ (AnnouncesNew(r, k)' <=> AnnouncesNew(r, k))
  BY <1>1, <1>2, <1>5 DEF Seen, Announces, AnnouncesNew
<1>7. OnlyOne(r)
  <2>1. CASE AsPrimary(r)
    BY <2>1, AsPrimaryOnly
  <2>2. CASE beside' = (beside \/ Busy(r))
    BY <2>2 DEF OnlyOne, Busy, Active
  <2> QED BY <1>0, <2>1, <2>2
<1> QED BY <1>1, <1>3, <1>5, <1>6, <1>7, ReadStep

\* The rows of a notification that is enqueued.
LEMMA PutIs ==
  ASSUME IncidentsIInv, NEW r \in Replicas, NEW me, me = check[r], me.pc = "announce",
         NEW rows, rows = RowsOf(me.key, me.found # 0)
  PROVE  /\ me.key \in IncidentKeys /\ me.key \in DOMAIN incident
         /\ \A x \in rows : x \in Row /\ x.key = me.key
         /\ me.found = 0 => \A x \in rows : \E d \in Destinations : x = Opening(me.key, d)
         /\ me.found # 0 =>
              /\ \A x \in rows : \E d \in Destinations :
                   x = Closing(me.key, d) /\ (d \in Messengers \/ OpenAtPager(me.key, d))
              /\ \A p \in Pagers : OpenAtPager(me.key, p) => Closing(me.key, p) \in rows
<1>1. me.key \in IncidentKeys /\ me.key \in DOMAIN incident
  <2>1. me.key \in DOMAIN incident
    BY DEF IncidentsIInv, Known, Announces
  <2> QED BY <2>1 DEF IncidentsIInv, Shapes, IncidentKeys
<1>2. CASE me.found = 0
  <2>1. rows = RowsOf(me.key, FALSE)
    BY <1>2
  <2>2. \A x \in rows : \E d \in Destinations : x = Opening(me.key, d)
    BY <2>1, RowsOfNew
  <2>3. \A x \in rows : x \in Row /\ x.key = me.key
    BY <1>1, <2>2, RowForm
  <2> QED BY <1>1, <1>2, <2>2, <2>3
<1>3. CASE me.found # 0
  <2>1. rows = RowsOf(me.key, TRUE)
    BY <1>3
  <2>2. \A x : x \in rows <=> \E d \in Destinations :
           x = Closing(me.key, d) /\ (d \in Messengers \/ OpenAtPager(me.key, d))
    BY <2>1, RowsOfEnd
  <2>3. \A x \in rows : x \in Row /\ x.key = me.key
    BY <1>1, <2>2, RowForm
  <2>4. \A p \in Pagers : OpenAtPager(me.key, p) => Closing(me.key, p) \in rows
    BY <2>2 DEF Destinations
  <2> QED BY <1>1, <1>3, <2>2, <2>3, <2>4
<1> QED BY <1>2, <1>3

LEMMA EnqueueIncidentIInv ==
  ASSUME IncidentsIInv, NEW r \in Replicas, EnqueueIncident(r)
  PROVE  IncidentsIInv'
<1> DEFINE me == check[r]
           rows == RowsOf(me.key, me.found # 0)
<1>1. /\ me.pc = "announce" /\ check' = [check EXCEPT ![r].pc = "send"]
      /\ incident' = incident /\ sending' = sending /\ beside' = beside /\ sent' = sent
      /\ tooOld' = tooOld /\ page' = page /\ delivered' = delivered
  BY DEF EnqueueIncident
<1>2. PICK put \in SUBSET rows :
        /\ ring' = ring \cup put
        /\ lapsed' = IF me.found = 0 THEN lapsed ELSE lapsed \cup {<<me.key, x.to>> : x \in rows \ put}
  BY DEF EnqueueIncident
<1>0. me = check[r] /\ rows = RowsOf(me.key, me.found # 0)
  OBVIOUS
<1> HIDE DEF me, rows
<1>3. lapsed \subseteq lapsed' /\ (me.found # 0 => \A x \in rows \ put : <<me.key, x.to>> \in lapsed')
  BY <1>2
<1>4. /\ me.key \in IncidentKeys /\ me.key \in DOMAIN incident
      /\ \A x \in rows : x \in Row /\ x.key = me.key
      /\ me.found = 0 => \A x \in rows : \E d \in Destinations : x = Opening(me.key, d)
      /\ me.found # 0 =>
           /\ \A x \in rows : \E d \in Destinations :
                x = Closing(me.key, d) /\ (d \in Messengers \/ OpenAtPager(me.key, d))
           /\ \A p \in Pagers : OpenAtPager(me.key, p) => Closing(me.key, p) \in rows
  BY <1>0, <1>1, PutIs
<1>5. /\ me \in CheckLocals /\ Rows /\ Deliveries /\ \A o \in Replicas : Seen(o) /\ Known(o)
      /\ incident' \in Seq(IncidentRow) /\ Len(incident') <= MaxIncidents
  BY <1>0, <1>1 DEF IncidentsIInv, Shapes
<1> DEFINE c == [me EXCEPT !.pc = "send"]
<1>6. check' = [check EXCEPT ![r] = c]
  BY <1>0, <1>1
<1>7. c \in CheckLocals /\ c.pc = "send" /\ c.todo = me.todo /\ c.world = me.world
  BY <1>5 DEF CheckLocals
<1> HIDE DEF c
<1>8. Shapes' /\ Others(r) /\ check'[r] = c /\ sending'[r] = sending[r]
  BY <1>1, <1>5, <1>6, <1>7, CheckStep
<1>9. OnlyOne(r)
  <2>1. check[r].pc # "idle"
    BY <1>0, <1>1
  <2> QED BY <1>1, <2>1, AtWork
<1>10. Rows'
  BY <1>1, <1>2, <1>4, <1>5 DEF Rows
<1>11. ASSUME NEW o \in Replicas PROVE Seen(o)' /\ Known(o)'
  <2>1. CASE o = r
    <3>1. Seen(o)'
      BY <1>0, <1>1, <1>5, <1>7, <1>8, <2>1 DEF Seen
    <3>2. Known(o)'
      BY <1>1, <1>2, <1>5, <1>7, <1>8, <2>1 DEF Known, Announces
    <3> QED BY <3>1, <3>2
  <2>2. CASE o # r
    BY <1>1, <1>2, <1>5, <1>8, <2>2 DEF Others, Seen, Known, Announces
  <2> QED BY <2>1, <2>2
<1>12. ASSUME NEW p \in Pagers, NEW k \in IncidentKeys
       PROVE  /\ Closing(k, p) \in put => me.found # 0 /\ k = me.key /\ OpenAtPager(k, p)
              /\ Opening(k, p) \in put => me.found = 0 /\ k = me.key
  BY <1>4, RowForm
<1>13. Deliveries'
  <2>1. GivenUp'
    BY <1>1, <1>3, <1>5 DEF Deliveries, GivenUp
  <2>2. OpenedFirst'
    BY <1>1, <1>2, <1>5, <1>12 DEF Deliveries, OpenedFirst, OpenAtPager, Opening
  <2>3. InTurn'
    BY <1>1, <1>5 DEF Deliveries, InTurn
  <2> QED BY <2>1, <2>2, <2>3 DEF Deliveries
<1>14. ASSUME ~beside' PROVE OneByOne'
  <2>1. /\ OneByOne /\ OneActive'
        /\ \A o \in Replicas : \A k : o # r => ~Announces(o, k) /\ ~Announces(o, k)'
    BY <1>8, <1>9, <1>14, OthersRest
  <2>2. \A o \in Replicas : \A k : ~Announces(o, k)'
    BY <1>7, <1>8, <2>1 DEF Announces
  <2>3. \A o \in Replicas : \A k : Announces(o, k) => o = r /\ k = me.key
    BY <1>0, <2>1 DEF Announces
  <2>4. me.found = 0 => incident[me.key].open /\ \A x \in ring : x.key # me.key
    <3>1. me.found = 0 => AnnouncesNew(r, me.key)
      BY <1>0, <1>1 DEF AnnouncesNew, Announces
    <3> QED BY <1>4, <2>1, <3>1 DEF OneByOne, Anew
  <2>5. Anew'
    BY <2>2 DEF Anew, AnnouncesNew
  <2>6. Answered'
    <3> SUFFICES ASSUME NEW p \in Pagers, NEW k \in IncidentKeys, Opening(k, p) \in ring'
                 PROVE  \/ incident[k].open \/ Closing(k, p) \in ring' \/ <<k, p>> \in lapsed'
      BY <1>1 DEF Answered
    <3>1. CASE Opening(k, p) \in put
      BY <1>12, <2>4, <3>1
    <3>2. CASE Opening(k, p) \in ring /\ k # me.key
      BY <1>2, <1>3, <2>1, <2>3, <3>2 DEF OneByOne, Answered
    <3>3. CASE Opening(k, p) \in ring /\ k = me.key /\ me.found = 0
      BY <2>4, <3>3
    <3>4. CASE Opening(k, p) \in ring /\ k = me.key /\ me.found # 0 /\ Closing(k, p) \notin ring
      <4>1. OpenAtPager(k, p)
        BY <3>4 DEF OpenAtPager, Opening, Closing
      <4>2. Closing(k, p) \in rows
        BY <1>4, <3>4, <4>1
      <4>3. Closing(k, p) \in put \/ <<k, p>> \in lapsed'
        BY <1>3, <3>4, <4>2, RowForm
      <4> QED BY <1>2, <4>3
    <3> QED BY <1>2, <3>1, <3>2, <3>3, <3>4
  <2>7. NotFirst'
    <3> SUFFICES ASSUME NEW p \in Pagers, NEW k \in IncidentKeys,
                        Closing(k, p) \in delivered, Pending(Opening(k, p))'
                 PROVE  Opening(k, p) \in delivered
      BY <1>1 DEF NotFirst
    <3>1. Closing(k, p) \in ring /\ Closing(k, p).key = k
      BY <1>5, RowForm DEF Rows
    <3>2. Opening(k, p) \notin put
      BY <1>12, <2>4, <3>1
    <3>3. Pending(Opening(k, p))
      BY <1>1, <1>2, <3>2 DEF Pending
    <3> QED BY <2>1, <3>3 DEF OneByOne, NotFirst
  <2>8. OpenAgain'
    BY <1>1, <1>3, <2>1 DEF OneByOne, OpenAgain
  <2> QED BY <2>1, <2>5, <2>6, <2>7, <2>8 DEF OneByOne
<1> QED BY <1>8, <1>10, <1>11, <1>13, <1>14 DEF IncidentsIInv

\* A step of a pass with the row x: it was in its turn, and reached its destination
\* or not.
Goes(r, x) ==
    /\ NextRow(r, x) /\ Others(r) /\ Shapes'
    /\ check' = check /\ incident' = incident /\ ring' = ring /\ tooOld' = tooOld /\ beside' = beside
    /\ sending'[r].pc = "send" /\ sending'[r].left = sending[r].left \ {x}
    /\ sending[r].failed \subseteq sending'[r].failed /\ sending'[r].off = sending[r].off

\* Without a client the row may count as sent.
ReachesNot(r, x) ==
    /\ x.to \in sending'[r].failed \cup sending[r].off
    /\ delivered' = delivered /\ page' = page /\ lapsed \subseteq lapsed'
    /\ sent \subseteq sent' /\ sent' \subseteq sent \cup {x}
    /\ x \in sent' \ sent /\ x.what = "end" => <<x.key, x.to>> \in lapsed'

Reaches(r, x) ==
    /\ ~Skips(r, x) /\ x.to \notin sending[r].off /\ Arrives(x)
    /\ sent' = sent \/ sent' = sent \cup {x}

\* What holds whether the row reached its destination or not.
LEMMA GoesKeeps ==
  ASSUME IncidentsIInv, NEW r \in Replicas, NEW x \in Row, Goes(r, x)
  PROVE  /\ \A o \in Replicas : Seen(o)' /\ Known(o)'
         /\ \A o \in Replicas : \A k : /\ Announces(o, k)' <=> Announces(o, k)
                                       /\ AnnouncesNew(o, k)' <=> AnnouncesNew(o, k)
         /\ \A o \in Replicas : o # r => sending'[o] = sending[o]
         /\ x \in sending[r].left /\ x \in ring
         /\ OnlyOne(r)
<1>1. /\ sending[r].pc = "send" /\ x \in sending[r].left /\ sending'[r].pc = "send"
      /\ sending'[r].left \subseteq sending[r].left
      /\ check' = check /\ incident' = incident /\ ring' = ring /\ beside' = beside
  BY DEF Goes, NextRow
<1>2. \A o \in Replicas : o # r => sending'[o] = sending[o]
  BY DEF Goes, Others
<1>3. ASSUME NEW o \in Replicas PROVE Seen(o)' /\ Known(o)'
  <2>1. Seen(o) /\ Known(o)
    BY DEF IncidentsIInv
  <2>2. Seen(o)'
    BY <1>1, <2>1 DEF Seen
  <2>3. CASE o = r
    BY <1>1, <2>1, <2>2, <2>3 DEF Known, Announces
  <2>4. CASE o # r
    BY <1>1, <1>2, <2>1, <2>2, <2>4 DEF Known, Announces
  <2> QED BY <2>3, <2>4
<1>4. \A o \in Replicas : \A k : /\ Announces(o, k)' <=> Announces(o, k)
                                 /\ AnnouncesNew(o, k)' <=> AnnouncesNew(o, k)
  BY <1>1 DEF Announces, AnnouncesNew
<1>5. OnlyOne(r)
  BY <1>1 DEF OnlyOne, Active
<1>6. x \in ring
  BY <1>1 DEF IncidentsIInv, Known
<1> QED BY <1>1, <1>2, <1>3, <1>4, <1>5, <1>6

LEMMA ReachesNotIInv ==
  ASSUME IncidentsIInv, NEW r \in Replicas, NEW x \in Row, Goes(r, x), ReachesNot(r, x)
  PROVE  IncidentsIInv'
<1>1. /\ \A o \in Replicas : Seen(o)' /\ Known(o)'
      /\ \A o \in Replicas : \A k : /\ Announces(o, k)' <=> Announces(o, k)
                                    /\ AnnouncesNew(o, k)' <=> AnnouncesNew(o, k)
      /\ \A o \in Replicas : o # r => sending'[o] = sending[o]
      /\ OnlyOne(r) /\ x \in ring
  BY GoesKeeps
<1>2. /\ incident' = incident /\ ring' = ring /\ tooOld' = tooOld /\ Shapes' /\ Others(r)
      /\ delivered' = delivered /\ page' = page /\ lapsed \subseteq lapsed'
      /\ sent \subseteq sent' /\ sent' \subseteq sent \cup {x}
      /\ sending'[r].left = sending[r].left \ {x} /\ x.to \in sending'[r].failed \cup sending'[r].off
      /\ sending[r].failed \subseteq sending'[r].failed /\ sending'[r].off = sending[r].off
  BY DEF Goes, ReachesNot
<1>3. Rows' /\ GivenUp' /\ OpenedFirst'
  <2>1. Rows' /\ OpenedFirst'
    BY <1>1, <1>2 DEF IncidentsIInv, Deliveries, Rows, OpenedFirst
  <2>2. \A p \in Pagers, k \in IncidentKeys :
           x = Closing(k, p) /\ x \in sent' \ sent => <<k, p>> \in lapsed'
    <3> SUFFICES ASSUME NEW p \in Pagers, NEW k \in IncidentKeys, x = Closing(k, p), x \in sent' \ sent
                 PROVE  <<k, p>> \in lapsed'
      OBVIOUS
    <3>1. x.key = k /\ x.to = p /\ x.what = "end"
      BY DEF Closing
    <3> QED BY <3>1 DEF ReachesNot
  <2>3. GivenUp'
    BY <1>2, <2>2 DEF IncidentsIInv, Deliveries, GivenUp
  <2> QED BY <2>1, <2>3
<1>4. InTurn'
  <2> SUFFICES ASSUME NEW o \in Replicas, NEW p \in Pagers, NEW k \in IncidentKeys,
                      Closing(k, p) \in sending'[o].left
               PROVE  \/ Opening(k, p) \in sending'[o].left
                      \/ p \in sending'[o].failed \cup sending'[o].off
                      \/ Opening(k, p) \in tooOld \cup delivered \cup sent'
    BY <1>2 DEF InTurn
  <2>0. Closing(k, p) \in sending[o].left =>
          \/ Opening(k, p) \in sending[o].left \/ p \in sending[o].failed \cup sending[o].off
          \/ Opening(k, p) \in tooOld \cup delivered \cup sent
    BY DEF IncidentsIInv, Deliveries, InTurn
  <2>1. CASE o # r
    BY <1>1, <1>2, <2>0, <2>1
  <2>2. CASE o = r /\ x # Opening(k, p)
    BY <1>2, <2>0, <2>2
  <2>3. CASE o = r /\ x = Opening(k, p)
    BY <1>2, <2>3, RowForm
  <2> QED BY <2>1, <2>2, <2>3
<1>5. ASSUME ~beside' PROVE OneByOne'
  <2>1. OneByOne /\ OneActive'
    BY <1>1, <1>2, <1>5, OthersRest
  <2>2. Anew' /\ Answered'
    BY <1>1, <1>2, <2>1 DEF OneByOne, Anew, Answered
  <2>3. NotFirst'
    <3>1. \A y : Pending(y)' => Pending(y)
      BY <1>1, <1>2 DEF Pending
    <3> QED BY <1>2, <3>1, <2>1 DEF OneByOne, NotFirst
  <2>4. OpenAgain'
    BY <1>2, <2>1 DEF OneByOne, OpenAgain
  <2> QED BY <2>1, <2>2, <2>3, <2>4 DEF OneByOne
<1> QED BY <1>1, <1>2, <1>3, <1>4, <1>5 DEF IncidentsIInv, Deliveries

\* What a row that arrives does to the page.
LEMMA ArrivesIs ==
  ASSUME NEW x \in Row, page \in [Pagers -> SUBSET IncidentKeys], Arrives(x)
  PROVE  /\ delivered' = delivered \cup {x} /\ lapsed \subseteq lapsed'
         /\ \A p \in Pagers : \A k : k \in page'[p] => k \in page[p] \/ x = Opening(k, p)
         /\ \A p \in Pagers : \A k : x = Closing(k, p) => k \notin page'[p]
         /\ \A p \in Pagers : \A k : x = Opening(k, p) /\ x \in delivered /\ Closing(k, p) \in delivered =>
              <<k, p>> \in lapsed'
         /\ page' \in [Pagers -> SUBSET IncidentKeys]
<1>1. /\ x.key \in IncidentKeys
      /\ \/ x.what = "open" /\ x = Opening(x.key, x.to)
         \/ x.what = "end" /\ x = Closing(x.key, x.to)
      /\ [x EXCEPT !.what = "end"] = Closing(x.key, x.to)
  BY RowIs
<1>2. delivered' = delivered \cup {x} /\ lapsed \subseteq lapsed'
  BY DEF Arrives
<1>3. ASSUME NEW p \in Pagers, NEW k, x = Opening(k, p), x \in delivered, Closing(k, p) \in delivered
      PROVE  <<k, p>> \in lapsed'
  <2>1. x.key = k /\ x.to = p /\ x.what = "open"
    BY <1>1, <1>3, RowForm
  <2>2. lapsed' = lapsed \cup {<<x.key, x.to>>}
    BY <1>1, <1>3, <2>1 DEF Arrives
  <2> QED BY <2>1, <2>2
<1>4. CASE x.to \notin Pagers
  <2>1. page' = page
    BY <1>4 DEF Arrives
  <2>2. \A p \in Pagers : \A k : x # Closing(k, p)
    BY <1>4, RowForm
  <2> QED BY <1>2, <1>3, <2>1, <2>2
<1>5. CASE x.to \in Pagers /\ x.what = "open"
  <2>1. page' = [page EXCEPT ![x.to] = page[x.to] \cup {x.key}]
    BY <1>5 DEF Arrives
  <2>2. x = Opening(x.key, x.to)
    BY <1>1, <1>5
  <2>3. \A p \in Pagers : \A k : x # Closing(k, p)
    BY <2>2, RowForm
  <2>4. page' \in [Pagers -> SUBSET IncidentKeys]
    BY <1>1, <1>5, <2>1
  <2>5. \A p \in Pagers : \A k : k \in page'[p] => k \in page[p] \/ (p = x.to /\ k = x.key)
    BY <2>1
  <2> QED BY <1>2, <1>3, <2>2, <2>3, <2>4, <2>5
<1>6. CASE x.to \in Pagers /\ x.what # "open"
  <2>1. page' = [page EXCEPT ![x.to] = page[x.to] \ {x.key}]
    BY <1>6 DEF Arrives
  <2>2. page' \in [Pagers -> SUBSET IncidentKeys]
    BY <1>1, <1>6, <2>1
  <2>3. \A p \in Pagers : \A k : k \in page'[p] => k \in page[p] /\ ~(p = x.to /\ k = x.key)
    BY <2>1
  <2> QED BY <1>2, <1>3, <2>2, <2>3, RowForm
<1> QED BY <1>4, <1>5, <1>6

LEMMA ReachesIInv ==
  ASSUME IncidentsIInv, NEW r \in Replicas, NEW x \in Row, Goes(r, x), Reaches(r, x)
  PROVE  IncidentsIInv'
<1>1. /\ \A o \in Replicas : Seen(o)' /\ Known(o)'
      /\ \A o \in Replicas : \A k : /\ Announces(o, k)' <=> Announces(o, k)
                                    /\ AnnouncesNew(o, k)' <=> AnnouncesNew(o, k)
      /\ \A o \in Replicas : o # r => sending'[o] = sending[o]
      /\ x \in sending[r].left /\ x \in ring /\ OnlyOne(r)
  BY GoesKeeps
<1>2. /\ incident' = incident /\ ring' = ring /\ tooOld' = tooOld /\ Shapes' /\ Others(r)
      /\ sending'[r].left = sending[r].left \ {x} /\ sending[r].failed \subseteq sending'[r].failed
      /\ sending'[r].off = sending[r].off
  BY DEF Goes
<1>3. /\ delivered' = delivered \cup {x} /\ lapsed \subseteq lapsed'
      /\ \A p \in Pagers : \A k : k \in page'[p] => k \in page[p] \/ x = Opening(k, p)
      /\ \A p \in Pagers : \A k : x = Closing(k, p) => k \notin page'[p]
      /\ \A p \in Pagers : \A k : x = Opening(k, p) /\ x \in delivered /\ Closing(k, p) \in delivered =>
           <<k, p>> \in lapsed'
  <2>1. Arrives(x) /\ page \in [Pagers -> SUBSET IncidentKeys]
    BY DEF Reaches, IncidentsIInv, Shapes
  <2> QED BY <2>1, ArrivesIs
<1>4. sent \subseteq sent' /\ sent' \subseteq sent \cup {x}
  BY DEF Reaches
<1>5. Rows' /\ GivenUp' /\ OpenedFirst'
  BY <1>1, <1>2, <1>3, <1>4 DEF IncidentsIInv, Deliveries, Rows, GivenUp, OpenedFirst
<1>6. InTurn'
  <2> SUFFICES ASSUME NEW o \in Replicas, NEW p \in Pagers, NEW k \in IncidentKeys,
                      Closing(k, p) \in sending'[o].left
               PROVE  \/ Opening(k, p) \in sending'[o].left
                      \/ p \in sending'[o].failed \cup sending'[o].off
                      \/ Opening(k, p) \in tooOld \cup delivered' \cup sent'
    BY <1>2 DEF InTurn
  <2>0. Closing(k, p) \in sending[o].left =>
          \/ Opening(k, p) \in sending[o].left \/ p \in sending[o].failed \cup sending[o].off
          \/ Opening(k, p) \in tooOld \cup delivered \cup sent
    BY DEF IncidentsIInv, Deliveries, InTurn
  <2>1. CASE o # r
    BY <1>1, <1>3, <1>4, <2>0, <2>1
  <2>2. CASE o = r
    BY <1>2, <1>3, <1>4, <2>0, <2>2
  <2> QED BY <2>1, <2>2
<1>7. ASSUME ~beside' PROVE OneByOne'
  <2>1. OneByOne /\ OneActive' /\ \A o \in Replicas : o # r => sending[o].left = {}
    BY <1>1, <1>2, <1>7, OthersRest
  <2>2. Anew' /\ Answered'
    BY <1>1, <1>2, <1>3, <2>1 DEF OneByOne, Anew, Answered
  <2>p. \A y : Pending(y)' => Pending(y)
    BY <1>1, <1>2, <1>4 DEF Pending
  <2>3. NotFirst'
    <3> SUFFICES ASSUME NEW p \in Pagers, NEW k \in IncidentKeys,
                        Closing(k, p) \in delivered', Pending(Opening(k, p))'
                 PROVE  Opening(k, p) \in delivered'
      BY DEF NotFirst
    <3>1. CASE x # Closing(k, p)
      BY <1>3, <2>1, <2>p, <3>1 DEF OneByOne, NotFirst
    <3>2. CASE x = Closing(k, p)
      <4>1. Opening(k, p) \notin sending[r].left
        <5>1. x.what = "end" => [x EXCEPT !.what = "open"] \notin sending[r].left
          BY DEF Goes, NextRow
        <5>2. x.key = k /\ x.to = p /\ x.what = "end"
          BY <3>2 DEF Closing
        <5>3. [x EXCEPT !.what = "open"] = Opening(k, p)
          BY <5>2, RowIs
        <5> QED BY <5>1, <5>2, <5>3
      <4>2. p \notin sending[r].failed \cup sending[r].off
        BY <3>2, RowForm DEF Reaches, Skips
      <4>3. Opening(k, p) \in tooOld \cup delivered \cup sent
        BY <1>1, <3>2, <4>1, <4>2 DEF IncidentsIInv, Deliveries, InTurn
      <4>4. Opening(k, p) \notin tooOld \cup sent
        BY <1>1, <1>2, <1>4, <2>1, <4>1 DEF Pending
      <4> QED BY <1>3, <4>3, <4>4
    <3> QED BY <3>1, <3>2
  <2>4. OpenAgain'
    <3> SUFFICES ASSUME NEW p \in Pagers, NEW k \in IncidentKeys,
                        k \in page'[p], Closing(k, p) \in delivered'
                 PROVE  <<k, p>> \in lapsed'
      BY DEF OpenAgain
    <3>1. x # Closing(k, p) /\ Closing(k, p) \in delivered
      BY <1>3
    <3>2. CASE x = Opening(k, p)
      <4>1. Pending(Opening(k, p))
        BY <1>1, <3>2 DEF Pending
      <4>2. Opening(k, p) \in delivered
        BY <2>1, <3>1, <4>1 DEF OneByOne, NotFirst
      <4> QED BY <1>3, <3>1, <3>2, <4>2
    <3>3. CASE x # Opening(k, p)
      BY <1>3, <2>1, <3>1, <3>3 DEF OneByOne, OpenAgain
    <3> QED BY <3>2, <3>3
  <2> QED BY <2>1, <2>2, <2>3, <2>4 DEF OneByOne
<1> QED BY <1>1, <1>2, <1>5, <1>6, <1>7 DEF IncidentsIInv, Deliveries

\* The locals of a pass after a row.
LEMMA GoesIs ==
  ASSUME IncidentsIInv, NEW r \in Replicas, NEW x \in Row, NextRow(r, x), NEW s,
         s.pc = "send", s.left = sending[r].left \ {x}, sending[r].failed \subseteq s.failed,
         s.off = sending[r].off,
         s \in PassLocals, sending' = [sending EXCEPT ![r] = s],
         page' \in [Pagers -> SUBSET IncidentKeys],
         check' = check, incident' = incident, ring' = ring, tooOld' = tooOld, beside' = beside
  PROVE  Goes(r, x) /\ sending'[r] = s
<1>1. check \in [Replicas -> CheckLocals] /\ check[r] \in CheckLocals
  BY DEF IncidentsIInv, Shapes
<1>2. check' = [check EXCEPT ![r] = check[r]]
  BY <1>1
<1>3. Shapes' /\ Others(r) /\ sending'[r] = s
  BY <1>1, <1>2, PassStep
<1> QED BY <1>3 DEF Goes

LEMMA RowStepsIInv ==
  ASSUME IncidentsIInv, NEW r \in Replicas, NEW x \in Row,
         SkipRow(r, x) \/ MarkUnsent(r, x) \/ SendRow(r, x) \/ SendRowFails(r, x)
  PROVE  IncidentsIInv'
<1>1. /\ NextRow(r, x) /\ check' = check /\ incident' = incident /\ ring' = ring
      /\ tooOld' = tooOld /\ beside' = beside
  BY DEF SkipRow, MarkUnsent, SendRow, SendRowFails
<1>2. PICK old : old = sending[r] /\ old \in PassLocals /\ old.pc = "send"
  BY <1>1 DEF IncidentsIInv, Shapes, NextRow
<1>3. page \in [Pagers -> SUBSET IncidentKeys] /\ x.to \in Destinations
  BY RowIs DEF IncidentsIInv, Shapes
<1> DEFINE left == old.left \ {x}
           more == old.failed \cup {x.to}
           s == [old EXCEPT !.left = left]
           f == [old EXCEPT !.left = left, !.failed = more]
<1>4. left \in SUBSET Row /\ more \in SUBSET Destinations /\ old.failed \subseteq more
  BY <1>2, <1>3 DEF PassLocals
<1>5. left = sending[r].left \ {x} /\ x.to \in more
  BY <1>2
<1>6. SkipRow(r, x) \/ MarkUnsent(r, x) \/ SendRow(r, x) => sending' = [sending EXCEPT ![r] = s]
  BY <1>2 DEF SkipRow, MarkUnsent, SendRow
<1>7. SendRowFails(r, x) => sending' = [sending EXCEPT ![r] = f]
  <2>1. SendRowFails(r, x) => sending' = [sending EXCEPT ![r].left = left, ![r].failed = more]
    BY <1>2 DEF SendRowFails
  <2> HIDE DEF left, more
  <2> QED BY <1>2, <2>1 DEF IncidentsIInv, Shapes, PassLocals
<1> HIDE DEF left, more
<1>8. /\ s \in PassLocals /\ s.pc = "send" /\ s.left = left /\ s.failed = old.failed
      /\ f \in PassLocals /\ f.pc = "send" /\ f.left = left /\ f.failed = more
      /\ s.off = old.off /\ f.off = old.off
  BY <1>2, <1>4 DEF PassLocals
<1> HIDE DEF s, f
<1>9. CASE SkipRow(r, x)
  <2>1. page' = page /\ sent' = sent /\ delivered' = delivered /\ lapsed' = lapsed /\ Skips(r, x)
    BY <1>9 DEF SkipRow
  <2>2. Goes(r, x) /\ sending'[r] = s
    BY <1>1, <1>2, <1>3, <1>5, <1>6, <1>8, <1>9, <2>1, GoesIs
  <2>3. ReachesNot(r, x)
    BY <1>2, <1>8, <2>1, <2>2 DEF ReachesNot, Skips
  <2> QED BY <2>2, <2>3, ReachesNotIInv
<1>m. CASE MarkUnsent(r, x)
  <2>1. page' = page /\ delivered' = delivered /\ x.to \in sending[r].off
    BY <1>m DEF MarkUnsent
  <2>2. Goes(r, x)
    BY <1>1, <1>2, <1>3, <1>5, <1>6, <1>8, <1>m, <2>1, GoesIs
  <2>3. \/ sent' = sent /\ lapsed' = lapsed
        \/ /\ sent' = sent \cup {x}
           /\ lapsed' = IF x.what = "end" THEN lapsed \cup {<<x.key, x.to>>} ELSE lapsed
    BY <1>m DEF MarkUnsent
  <2>4. ReachesNot(r, x)
    BY <2>1, <2>3 DEF ReachesNot
  <2> QED BY <2>2, <2>4, ReachesNotIInv
<1>10. CASE SendRow(r, x)
  <2>1. Reaches(r, x) /\ Arrives(x)
    BY <1>10 DEF SendRow, Reaches
  <2>2. page' \in [Pagers -> SUBSET IncidentKeys]
    BY <1>3, <2>1, ArrivesIs
  <2>3. Goes(r, x)
    BY <1>1, <1>2, <1>5, <1>6, <1>8, <1>10, <2>2, GoesIs
  <2> QED BY <2>1, <2>3, ReachesIInv
<1>11. CASE SendRowFails(r, x) /\ Arrives(x)
  <2>1. Reaches(r, x)
    BY <1>11 DEF SendRowFails, Reaches
  <2>2. page' \in [Pagers -> SUBSET IncidentKeys]
    BY <1>3, <1>11, ArrivesIs
  <2>3. Goes(r, x)
    BY <1>1, <1>2, <1>4, <1>5, <1>7, <1>8, <1>11, <2>2, GoesIs
  <2> QED BY <2>1, <2>3, ReachesIInv
<1>12. CASE SendRowFails(r, x) /\ ~Arrives(x)
  <2>1. page' = page /\ sent' = sent /\ delivered' = delivered /\ lapsed' = lapsed
    BY <1>12 DEF SendRowFails
  <2>2. Goes(r, x) /\ sending'[r] = f
    BY <1>1, <1>2, <1>3, <1>4, <1>5, <1>7, <1>8, <1>12, <2>1, GoesIs
  <2>3. ReachesNot(r, x)
    BY <1>5, <1>8, <2>1, <2>2 DEF ReachesNot
  <2> QED BY <2>2, <2>3, ReachesNotIInv
<1> QED BY <1>9, <1>m, <1>10, <1>11, <1>12

LEMMA RowExpiresIInv ==
  ASSUME IncidentsIInv, NEW x \in Row, RowExpires(x)
  PROVE  IncidentsIInv'
<1>1. /\ x \in ring /\ tooOld' = tooOld \cup {x} /\ lapsed \subseteq lapsed'
      /\ incident' = incident /\ ring' = ring /\ sent' = sent /\ check' = check
      /\ sending' = sending /\ page' = page /\ delivered' = delivered /\ beside' = beside
  BY DEF RowExpires
<1>2. \A p \in Pagers, k \in IncidentKeys : x = Closing(k, p) => <<k, p>> \in lapsed'
  <2> SUFFICES ASSUME NEW p \in Pagers, NEW k \in IncidentKeys, x = Closing(k, p)
               PROVE  <<k, p>> \in lapsed'
    OBVIOUS
  <2>1. x.key = k /\ x.to = p /\ x.what = "end"
    BY DEF Closing
  <2>2. lapsed' = lapsed \cup {<<x.key, x.to>>}
    BY <2>1 DEF RowExpires
  <2> QED BY <2>1, <2>2
<1>3. Shapes' /\ Rows' /\ \A r \in Replicas : Seen(r)' /\ Known(r)'
  BY <1>1 DEF IncidentsIInv, Shapes, Rows, Seen, Known, Announces
<1>4. GivenUp' /\ OpenedFirst' /\ InTurn'
  BY <1>1, <1>2 DEF IncidentsIInv, Deliveries, GivenUp, OpenedFirst, InTurn
<1>5. ASSUME OneByOne PROVE OneByOne'
  <2>1. OneActive' /\ Anew' /\ Answered' /\ OpenAgain'
    BY <1>1, <1>5 DEF OneByOne, OneActive, Active, Anew, AnnouncesNew, Announces, Answered, OpenAgain
  <2>2. \A y : Pending(y)' => Pending(y)
    BY <1>1 DEF Pending
  <2>3. NotFirst'
    BY <1>1, <1>5, <2>2 DEF OneByOne, NotFirst
  <2> QED BY <2>1, <2>3 DEF OneByOne
<1> QED BY <1>1, <1>3, <1>4, <1>5 DEF IncidentsIInv, Deliveries

-----------------------------------------------------------------------------
(* Incidents: the theorems *)

LEMMA IncidentsInitIInv == IncidentsInit => IncidentsIInv
<1> SUFFICES ASSUME IncidentsInit PROVE IncidentsIInv
  OBVIOUS
<1>1. /\ incident = <<>> /\ ring = {} /\ sent = {} /\ tooOld = {} /\ delivered = {}
      /\ page = [p \in Pagers |-> {}] /\ check = [r \in Replicas |-> NoCheck]
      /\ sending = [r \in Replicas |-> NotSending]
  BY DEF IncidentsInit
<1>2. Shapes /\ \A r \in Replicas : check[r] = NoCheck /\ sending[r] = NotSending
  BY <1>1, LocalsType DEF Shapes
<1>3. \A r \in Replicas : Seen(r) /\ Known(r) /\ ~Active(r) /\ \A k : ~Announces(r, k)
  BY <1>1, <1>2, LocalsType DEF Seen, Known, Announces, Active
<1>4. Rows /\ GivenUp /\ OpenedFirst
  BY <1>1 DEF Rows, GivenUp, OpenedFirst
<1>5. InTurn /\ OneActive /\ Anew /\ Answered /\ NotFirst /\ OpenAgain
  BY <1>1, <1>2, <1>3, LocalsType
     DEF InTurn, OneActive, Anew, AnnouncesNew, Answered, NotFirst, OpenAgain
<1> QED BY <1>2, <1>3, <1>4, <1>5 DEF IncidentsIInv, Deliveries, OneByOne

LEMMA IncidentsNextIInv == IncidentsIInv /\ [IncidentsNext]_incidentVars => IncidentsIInv'
<1> SUFFICES ASSUME IncidentsIInv, [IncidentsNext]_incidentVars PROVE IncidentsIInv'
  OBVIOUS
<1>1. CASE UNCHANGED incidentVars
  <2>1. Shapes' /\ Rows' /\ Deliveries' /\ \A r \in Replicas : Seen(r)' /\ Known(r)'
    BY <1>1 DEF incidentVars, IncidentsIInv, Shapes, Rows, Deliveries, GivenUp, OpenedFirst, InTurn,
                Seen, Known, Announces
  <2>2. OneByOne => OneByOne'
    BY <1>1 DEF incidentVars, OneByOne, OneActive, Active, Anew, AnnouncesNew, Announces, Answered,
                NotFirst, Pending, OpenAgain
  <2> QED BY <1>1, <2>1, <2>2 DEF incidentVars, IncidentsIInv
<1>2. ASSUME NEW r \in Replicas,
             \/ CheckBegins(r) \/ GetLastOpenIncident(r) \/ WriteIncident(r) \/ CheckStatementFails(r)
             \/ EnqueueIncident(r) \/ EnqueueDisabled(r) \/ SendIncidents(r) \/ RetryIncidents(r)
             \/ PassEnds(r) \/ ResolveForMissingApps(r) \/ IncidentsRestart(r)
      PROVE  IncidentsIInv'
  BY <1>2, CheckBeginsIInv, GetLastOpenIncidentIInv, WriteIncidentIInv, CheckStatementFailsIInv,
     EnqueueIncidentIInv, EnqueueDisabledIInv, SendIncidentsIInv, RetryIncidentsIInv, PassEndsIInv,
     ResolveForMissingAppsIInv, IncidentsRestartIInv
<1>3. ASSUME NEW r \in Replicas, NEW x \in Row,
             SkipRow(r, x) \/ MarkUnsent(r, x) \/ SendRow(r, x) \/ SendRowFails(r, x)
      PROVE  IncidentsIInv'
  BY <1>3, RowStepsIInv
<1>4. ASSUME NEW x \in Row, RowExpires(x) PROVE IncidentsIInv'
  BY <1>4, RowExpiresIInv
<1> QED BY <1>1, <1>2, <1>3, <1>4 DEF IncidentsNext

\* The invariant of the incidents holds at every time: among it, that a pass sends
\* a closing only after its opening, that a closing which counts as sent was delivered
\* unless it is recorded that it was not, and that one replica works at a time unless
\* it is recorded that two did.
THEOREM IncidentsInvariance == IncidentsSpec => []IncidentsIInv
<1> QED BY IncidentsInitIInv, IncidentsNextIInv, PTL DEF IncidentsSpec

\* A page of an incident that is over is closed, or going to be, but for the reasons
\* PagesClose names: for any number of replicas, applications, destinations,
\* incidents and failures.
THEOREM PagesCloseSafety == IncidentsSpec => []PagesClose
<1>1. IncidentsIInv => PagesClose
  <2> SUFFICES ASSUME IncidentsIInv, NEW p \in Pagers, NEW k \in page[p], ~beside
               PROVE  \/ incident[k].open
                      \/ Closing(k, p) \in ring \ (sent \cup tooOld)
                      \/ \E r \in Replicas : Announces(r, k)
                      \/ <<k, p>> \in lapsed
    BY DEF PagesClose, Closing, Announces
  <2>1. k \in IncidentKeys
    BY DEF IncidentsIInv, Shapes
  <2>2. Opening(k, p) \in ring
    BY <2>1 DEF IncidentsIInv, Deliveries, OpenedFirst, Rows
  <2>3. Closing(k, p) \in tooOld \cup sent \cup delivered => <<k, p>> \in lapsed
    BY <2>1 DEF IncidentsIInv, Deliveries, GivenUp, OneByOne, OpenAgain
  <2>4. \/ incident[k].open \/ (\E r \in Replicas : Announces(r, k))
        \/ Closing(k, p) \in ring \/ <<k, p>> \in lapsed
    BY <2>1, <2>2 DEF IncidentsIInv, OneByOne, Answered
  <2> QED BY <2>2, <2>3, <2>4
<1> QED BY <1>1, IncidentsInvariance, PTL

-----------------------------------------------------------------------------
(* World evaluator: the invariant *)

CycleLocals ==
    [pc : {"idle", "begin", "query", "series", "points", "rules", "ruleSeries", "rulePoints"},
     to : Nat, last : [Queries -> Nat], marked : Nat, ruled : Nat, out : SUBSET Series,
     due : SUBSET Series, from : Nat, failed : SUBSET Queries]

Tables ==
    /\ clock \in Nat /\ StartTime <= clock /\ clock <= MaxClock
    /\ points \in [AllSeries -> [Steps -> 0..2]] /\ marker \in Nat
    /\ seen \in [Replicas -> SUBSET AllSeries] /\ cycle \in [Replicas -> CycleLocals]

Querying(r) == cycle[r].pc \in {"query", "series", "points"}
Storing(r) == cycle[r].pc \in {"series", "points"}
Ruling(r) == cycle[r].pc \in {"ruleSeries", "rulePoints"}

\* Where the rules of a cycle begin, before NotBefore.
RulesFrom(r) == IF cycle[r].marked > 0 THEN cycle[r].marked + 1 ELSE RulesTo(r) - Backfill

\* A cycle began no longer ago than its context lasts: two cycles at a time end at
\* steps that far from each other at most.
InTime(r) ==
    /\ Running(r) => /\ StartTime <= cycle[r].to + Lag
                     /\ cycle[r].to + Lag <= clock /\ clock <= cycle[r].to + Lag + Timeout
    /\ Ruling(r) => cycle[r].from = RulesFrom(r) /\ cycle[r].from <= RulesTo(r)

Stored(s, t) == points[s][t] > 0

\* What has labels, or counts as having them.
Labelled(s) == s \in labels \/ (s = Rule /\ unlabelled)

\* What has points has labels, what a replica has seen has them or is about to
\* have them, and what it is about to write has them.
HasLabels(r) ==
    /\ \A s \in seen[r] : \/ Labelled(s)
                          \/ cycle[r].pc = "series" /\ s \in cycle[r].due
                          \/ cycle[r].pc = "ruleSeries" /\ s = Rule
    /\ cycle[r].pc = "series" => \A s \in cycle[r].out : Labelled(s) \/ s \in cycle[r].due
    /\ cycle[r].pc = "points" => \A s \in cycle[r].out : Labelled(s)
    /\ cycle[r].pc = "rulePoints" => Labelled(Rule)
PointsLabelled == \A s \in AllSeries, t \in Steps : Stored(s, t) => Labelled(s)

\* One cycle at a time, which begins to write after all that is stored.
OneCycle == \A r, o \in Replicas : r # o /\ Running(r) => ~Running(o)
KnowsLast(r) ==
    /\ Querying(r) => \A s \in Series, t \in Steps :
                        Stored(s, t) => t < From(cycle[r].last[QueryOf[s]], cycle[r].to)
    /\ Running(r) => \A t \in Steps : Stored(Rule, t) => t <= cycle[r].ruled \/ t < RulesFrom(r)
Single == \A s \in AllSeries, t \in Steps : points[s][t] <= 1
Unshared == OneCycle /\ Single /\ \A r \in Replicas : KnowsLast(r)

\* A series has step n, or a later one; 0 stands for none.
Reached(s, n) == n = 0 \/ \E h \in Steps : Stored(s, h) /\ n <= h

\* The steps of a series have no gap.
Gapless(s) ==
    /\ \A t, u, v \in Steps : t < u /\ u < v /\ Stored(s, t) /\ Stored(s, v) => Stored(s, u)
    /\ ~Stored(s, 0)

\* The series of a query are stored together.
Alike == \A x, y \in Series : QueryOf[x] = QueryOf[y] => \A t \in Steps : Stored(x, t) <=> Stored(y, t)

\* What there is of a series neither begins after the step to nor ends before the
\* backfill from there: other cycles may have written it, beside this one.
Near(s, to) ==
    (\E t \in Steps : Stored(s, t)) =>
        /\ \E a \in Steps : Stored(s, a) /\ a <= to + 1
        /\ \E b \in Steps : Stored(s, b) /\ to <= b + 1 + Backfill

\* A cycle up to step to that found step last of a series, or none, leaves no gap.
Continues(s, last, to) ==
    \/ last > 0 /\ last \in Steps /\ Stored(s, last) /\ to <= last + 1 + Backfill
    \/ last = 0 /\ Near(s, to)

\* A cycle goes on where the series are.
GoesOn(r) ==
    /\ Querying(r) => \A s \in Series : Continues(s, cycle[r].last[QueryOf[s]], cycle[r].to)
    /\ Running(r) => Continues(Rule, cycle[r].ruled, RulesTo(r)) /\ cycle[r].marked <= cycle[r].ruled
    /\ Storing(r) => \A x, y \in Series : QueryOf[x] = QueryOf[y] =>
                       (x \in cycle[r].out <=> y \in cycle[r].out)

\* A cycle none of whose queries failed comes to its rules with all series stored.
Complete(r) ==
    cycle[r].failed = {} =>
        /\ Storing(r) => \A s \in Series : s \in cycle[r].out \/ cycle[r].to <= cycle[r].last[QueryOf[s]]
        /\ cycle[r].pc = "rules" => \A s \in Series : Reached(s, cycle[r].to)

\* No insert was stored in part, and no outage was longer than the backfill.
Intact == ~torn /\ ~outage
Untorn ==
    /\ \A s \in AllSeries : Gapless(s)
    /\ Alike /\ Reached(Rule, marker) /\ partial = {}
    /\ \A r \in Replicas : GoesOn(r) /\ Complete(r)

EvaluatorIInv ==
    /\ Tables /\ PointsLabelled
    /\ \A r \in Replicas : InTime(r) /\ HasLabels(r)
    /\ ~overlap => Unshared
    /\ Intact => Untorn

HIDE IncidentsAssumption
USE EvaluatorAssumption

-----------------------------------------------------------------------------
(* World evaluator: the steps of a series *)

\* (the constants of the evaluator, for the provers)
LEMMA EvaluatorNumbers ==
  /\ Backfill \in Nat /\ Margin \in Nat /\ Lag \in Nat /\ Lookahead \in Nat /\ Timeout \in Nat
  /\ MaxClock \in Nat /\ MaxTroubles \in Nat
  /\ StartTime \in Nat /\ StartTime > Backfill + Lag + Lookahead /\ StartTime <= MaxClock
  /\ Margin >= Lag + Lookahead /\ Timeout <= Backfill + 1
  /\ QueryOf \in [Series -> Queries] /\ Rule \notin Series
  OBVIOUS

\* The last step of a series is one it has, and no step it has is later.
LEMMA LastIs ==
  ASSUME Tables, NEW s \in AllSeries
  PROVE  /\ LastOf(s) \in Steps /\ LastOf(s) \in Nat
         /\ LastOf(s) > 0 => Stored(s, LastOf(s))
         /\ \A t \in Steps : Stored(s, t) => t <= LastOf(s)
<1> DEFINE has == {t \in Steps : points[s][t] > 0}
<1>1. has \in SUBSET (0..MaxClock) /\ 0 \in Steps /\ \A t \in Steps : t \in Nat
  BY EvaluatorNumbers DEF Steps
<1>2. CASE has = {}
  <2>1. LastOf(s) = 0
    BY <1>2 DEF LastOf
  <2> QED BY <1>1, <1>2, <2>1 DEF Stored
<1>3. CASE has # {}
  <2>1. \E m \in has : \A u \in has : u <= m
    <3> HIDE DEF has
    <3> QED BY <1>1, <1>3, EvaluatorNumbers, LargestExists
  <2>2. LastOf(s) = CHOOSE t \in has : \A u \in has : u <= t
    BY <1>3 DEF LastOf
  <2>3. LastOf(s) \in has /\ \A u \in has : u <= LastOf(s)
    <3> HIDE DEF has
    <3> QED BY <2>1, <2>2
  <2> QED BY <1>1, <2>3 DEF Stored
<1> QED BY <1>2, <1>3

\* What lastPerQuery returns bounds the steps of all series of the query; one of
\* them has it.
LEMMA LastPerQueryIs ==
  ASSUME Tables, NEW q \in Queries
  PROVE  /\ LastPerQuery(q) \in Nat
         /\ \A s \in Series : QueryOf[s] = q => LastOf(s) <= LastPerQuery(q)
         /\ LastPerQuery(q) = 0 \/ \E s \in Series : QueryOf[s] = q /\ LastPerQuery(q) = LastOf(s)
<1> DEFINE of == {x \in Series : QueryOf[x] = q}
           lasts == {LastOf(s) : s \in of}
<1>1. \A s \in Series : LastOf(s) \in 0..MaxClock
  BY LastIs DEF AllSeries, Steps
<1>2. lasts \in SUBSET (0..MaxClock)
  BY <1>1
<1>3. \A s \in Series : QueryOf[s] = q => LastOf(s) \in lasts
  OBVIOUS
<1>4. \A l \in lasts : \E s \in Series : QueryOf[s] = q /\ l = LastOf(s)
  OBVIOUS
<1>5. LastPerQuery(q) = IF lasts = {} THEN 0 ELSE CHOOSE t \in lasts : \A u \in lasts : u <= t
  BY DEF LastPerQuery
<1> HIDE DEF lasts
<1>6. CASE lasts = {}
  BY <1>3, <1>5, <1>6
<1>7. CASE lasts # {}
  <2>1. \E m \in lasts : \A u \in lasts : u <= m
    BY <1>2, <1>7, EvaluatorNumbers, LargestExists
  <2>2. LastPerQuery(q) \in lasts /\ \A u \in lasts : u <= LastPerQuery(q)
    BY <1>5, <1>7, <2>1
  <2>3. LastPerQuery(q) \in 0..MaxClock
    BY <1>2, <2>2
  <2>4. LastPerQuery(q) \in Nat
    BY <2>3, EvaluatorNumbers
  <2> QED BY <1>3, <1>4, <2>2, <2>4
<1> QED BY <1>6, <1>7

\* The first step of a series is one it has, if it is not MaxClock.
LEMMA FirstIs ==
  ASSUME Tables, NEW s \in AllSeries
  PROVE  FirstOf(s) \in Steps /\ (FirstOf(s) # MaxClock => Stored(s, FirstOf(s)))
<1> DEFINE has == {u \in Steps : points[s][u] > 0} \cup {MaxClock}
<1>1. has \subseteq Nat /\ has # {} /\ MaxClock \in Steps
  BY EvaluatorNumbers DEF Steps
<1>2. \E m \in has : \A u \in has : m <= u
  <2> HIDE DEF has
  <2> QED BY <1>1, SmallestExists
<1>3. FirstOf(s) = CHOOSE m \in has : \A u \in has : m <= u
  BY DEF FirstOf
<1>4. FirstOf(s) \in has
  <2> HIDE DEF has
  <2> QED BY <1>2, <1>3
<1> QED BY <1>1, <1>4 DEF Stored

\* The steps from..to of s are stored once more, those of other series that are
\* not in W stay.
Adds(s, from, to) ==
    \A t \in Steps :
        /\ from <= t /\ t <= to => points'[s][t] = IF points[s][t] = 0 THEN 1 ELSE 2
        /\ ~(from <= t /\ t <= to) => points'[s][t] = points[s][t]

LEMMA AddsIs ==
  ASSUME Tables, NEW s \in AllSeries, NEW from \in Nat, NEW to \in Nat, Adds(s, from, to)
  PROVE  /\ \A t \in Steps : Stored(s, t)' <=> Stored(s, t) \/ (from <= t /\ t <= to)
         /\ \A t \in Steps : points'[s][t] \in 0..2
         /\ (\A t \in Steps : Stored(s, t) => t < from) =>
              \A t \in Steps : points[s][t] <= 1 => points'[s][t] <= 1
<1>1. \A t \in Steps : points[s][t] \in 0..2
  BY DEF Tables
<1>2. ASSUME NEW t \in Steps
      PROVE  /\ Stored(s, t)' <=> Stored(s, t) \/ (from <= t /\ t <= to)
             /\ points'[s][t] \in 0..2
             /\ (Stored(s, t) => t < from) => (points[s][t] <= 1 => points'[s][t] <= 1)
  <2>1. t \in Nat
    BY EvaluatorNumbers DEF Steps
  <2>2. CASE from <= t /\ t <= to
    <3>1. points'[s][t] = IF points[s][t] = 0 THEN 1 ELSE 2
      BY <2>2 DEF Adds
    <3> QED BY <1>1, <2>1, <2>2, <3>1 DEF Stored
  <2>3. CASE ~(from <= t /\ t <= to)
    <3>1. points'[s][t] = points[s][t]
      BY <2>3 DEF Adds
    <3> QED BY <1>1, <2>1, <2>3, <3>1 DEF Stored
  <2> QED BY <2>2, <2>3
<1> QED BY <1>2

\* Where the missing steps begin.
LEMMA FromIs ==
  ASSUME NEW last \in Nat, NEW to \in Nat, to > Backfill
  PROVE  /\ From(last, to) \in Nat /\ From(last, to) > last /\ From(last, to) > 0
         /\ From(last, to) + Backfill >= to
         /\ From(last, to) = last + 1 \/ From(last, to) + Backfill = to
         /\ to <= last + 1 + Backfill => From(last, to) = last + 1
         /\ last = 0 => From(last, to) + Backfill = to
  BY EvaluatorNumbers DEF From

\* A cycle that leaves no gap behind leaves none.
LEMMA GaplessGrows ==
  ASSUME Tables, NEW s \in AllSeries, NEW last \in Nat, NEW to \in Steps, to > Backfill,
         NEW from, from = From(last, to), Adds(s, from, to), Gapless(s), Continues(s, last, to)
  PROVE  Gapless(s)'
<1>0. to \in Nat /\ from \in Nat /\ from > 0 /\ 0 \in Steps /\ \A t \in Steps : t \in Nat
  BY FromIs, EvaluatorNumbers DEF Steps
<1>1. \A t \in Steps : Stored(s, t)' <=> Stored(s, t) \/ (from <= t /\ t <= to)
  BY <1>0, AddsIs
<1>2. ~Stored(s, 0)'
  BY <1>0, <1>1 DEF Gapless
<1>3. CASE to < from
  <2>1. ASSUME NEW t \in Steps PROVE Stored(s, t)' <=> Stored(s, t)
    <3>1. t \in Nat /\ to \in Nat /\ from \in Nat
      BY <1>0
    <3>2. ~(from <= t /\ t <= to)
      BY <1>3, <3>1
    <3> QED BY <1>1, <3>2
  <2> QED BY <1>2, <2>1 DEF Gapless
<1>4. CASE from <= to /\ \A t \in Steps : ~Stored(s, t)
  <2>1. \A t \in Steps : Stored(s, t)' <=> from <= t /\ t <= to
    BY <1>1, <1>4
  <2>2. ASSUME NEW t \in Steps, NEW u \in Steps, NEW v \in Steps,
               t < u, u < v, Stored(s, t)', Stored(s, v)'
        PROVE  Stored(s, u)'
    <3>1. from <= t /\ v <= to /\ t \in Nat /\ u \in Nat /\ v \in Nat
      BY <1>0, <2>1, <2>2
    <3>2. from <= u /\ u <= to
      BY <1>0, <2>2, <3>1
    <3> QED BY <2>1, <3>2
  <2> QED BY <1>2, <2>2 DEF Gapless
<1>5. CASE from <= to /\ \E t \in Steps : Stored(s, t)
  <2>1. PICK a, h \in Steps : Stored(s, a) /\ a <= to + 1 /\ Stored(s, h) /\ from <= h + 1
    <3>1. CASE last > 0 /\ last \in Steps /\ Stored(s, last) /\ to <= last + 1 + Backfill
      <4>1. from = last + 1
        BY <1>0, <3>1, FromIs
      <4> QED BY <1>0, <1>5, <3>1, <4>1
    <3>2. CASE last = 0 /\ Near(s, to)
      <4>1. from + Backfill = to
        BY <1>0, <3>2, FromIs
      <4>2. PICK a, b \in Steps : Stored(s, a) /\ a <= to + 1 /\ Stored(s, b) /\ to <= b + 1 + Backfill
        BY <1>5, <3>2 DEF Near
      <4>3. from <= b + 1
        BY <1>0, <4>1, <4>2, EvaluatorNumbers
      <4> QED BY <4>2, <4>3
    <3> QED BY <3>1, <3>2 DEF Continues
  <2>2. ASSUME NEW t \in Steps, NEW u \in Steps, NEW v \in Steps,
               t < u, u < v, Stored(s, t)', Stored(s, v)'
        PROVE  Stored(s, u)'
    <3> SUFFICES ASSUME ~(from <= u /\ u <= to) PROVE Stored(s, u)
      BY <1>1
    <3>n. t \in Nat /\ u \in Nat /\ v \in Nat /\ h \in Nat /\ a \in Nat
      BY <1>0
    <3>g. \A x, y \in Steps : x < u /\ u < y /\ Stored(s, x) /\ Stored(s, y) => Stored(s, u)
      BY DEF Gapless
    <3>1. CASE u < from
      <4>1. Stored(s, t)
        BY <1>0, <1>1, <2>2, <3>1, <3>n
      <4>2. u = h \/ u < h
        BY <1>0, <2>1, <3>1, <3>n
      <4> QED BY <2>1, <2>2, <3>g, <4>1, <4>2
    <3>2. CASE to < u
      <4>1. Stored(s, v)
        BY <1>0, <1>1, <2>2, <3>2, <3>n
      <4>2. u = a \/ a < u
        BY <1>0, <2>1, <3>2, <3>n
      <4> QED BY <2>1, <2>2, <3>g, <4>1, <4>2
    <3> QED BY <1>0, <3>1, <3>2, <3>n
  <2> QED BY <1>2, <2>2 DEF Gapless
<1> QED BY <1>0, <1>3, <1>4, <1>5

\* A step that was reached is one that is stored, or before such a one.
LEMMA ContinuesReached ==
  ASSUME NEW s, NEW last, NEW to, Continues(s, last, to), last \in Nat
  PROVE  Reached(s, last)
<1>1. last <= last
  OBVIOUS
<1> QED BY <1>1 DEF Continues, Reached

-----------------------------------------------------------------------------
(* World evaluator: its steps *)

\* What a step of r leaves alone of the other replicas.
OtherCycles(r) == \A o \in Replicas : o # r => cycle'[o] = cycle[o] /\ seen'[o] = seen[o]

\* A step of r, to the locals c and the seriesCache sc.
LEMMA CycleStep ==
  ASSUME EvaluatorIInv, NEW r \in Replicas, NEW c \in CycleLocals, NEW sc \in SUBSET AllSeries,
         cycle' = [cycle EXCEPT ![r] = c], seen' = [seen EXCEPT ![r] = sc], clock' = clock,
         points' \in [AllSeries -> [Steps -> 0..2]], marker' \in Nat
  PROVE  Tables' /\ OtherCycles(r) /\ cycle'[r] = c /\ seen'[r] = sc
<1>1. cycle \in [Replicas -> CycleLocals] /\ seen \in [Replicas -> SUBSET AllSeries]
  BY DEF EvaluatorIInv, Tables
<1>2. /\ cycle' \in [Replicas -> CycleLocals] /\ cycle'[r] = c
      /\ \A o \in Replicas : o # r => cycle'[o] = cycle[o]
  BY <1>1
<1>3. /\ seen' \in [Replicas -> SUBSET AllSeries] /\ seen'[r] = sc
      /\ \A o \in Replicas : o # r => seen'[o] = seen[o]
  BY <1>1
<1> QED BY <1>2, <1>3 DEF EvaluatorIInv, Tables, OtherCycles

\* A step that stores no points keeps what is said of the other replicas.
LEMMA QuietStep ==
  ASSUME EvaluatorIInv, NEW r \in Replicas, OtherCycles(r), Tables', clock' = clock,
         points' = points, marker' = marker, Intact' => Intact,
         labels \subseteq labels', unlabelled => unlabelled',
         InTime(r)', HasLabels(r)',
         ~overlap' => /\ ~overlap /\ KnowsLast(r)'
                      /\ Running(r)' => Running(r) \/ \A o \in Replicas : ~Running(o),
         Intact' => GoesOn(r)' /\ Complete(r)' /\ partial' = {}
  PROVE  EvaluatorIInv'
<1>1. \A s \in AllSeries, t \in Steps : Stored(s, t)' <=> Stored(s, t)
  BY DEF Stored
<1>2. \A s, n : Reached(s, n)' <=> Reached(s, n)
  BY DEF Reached, Stored
<1>3. \A s : Labelled(s) => Labelled(s)'
  BY DEF Labelled
<1>4. PointsLabelled'
  BY <1>1, <1>3 DEF EvaluatorIInv, PointsLabelled
<1>5. ASSUME NEW o \in Replicas PROVE InTime(o)' /\ HasLabels(o)'
  <2>1. CASE o = r
    BY <2>1
  <2>2. CASE o # r
    <3>1. cycle'[o] = cycle[o] /\ seen'[o] = seen[o] /\ InTime(o) /\ HasLabels(o)
      BY <2>2 DEF OtherCycles, EvaluatorIInv
    <3>2. InTime(o)'
      BY <3>1 DEF InTime, Running, Ruling, RulesFrom, RulesTo
    <3>3. HasLabels(o)'
      BY <1>3, <3>1 DEF HasLabels
    <3> QED BY <3>2, <3>3
  <2> QED BY <2>1, <2>2
<1>6. ASSUME ~overlap' PROVE Unshared'
  <2>1. Unshared
    BY <1>6 DEF EvaluatorIInv
  <2>2. \A o \in Replicas : o # r => (Running(o)' <=> Running(o))
    BY DEF OtherCycles, Running
  <2>3. OneCycle'
    BY <1>6, <2>1, <2>2 DEF Unshared, OneCycle
  <2>4. Single'
    BY <2>1 DEF Unshared, Single
  <2>5. ASSUME NEW o \in Replicas PROVE KnowsLast(o)'
    <3>1. CASE o = r
      BY <1>6, <3>1
    <3>2. CASE o # r
      <4>1. cycle'[o] = cycle[o] /\ KnowsLast(o)
        BY <2>1, <3>2 DEF OtherCycles, Unshared
      <4> QED BY <4>1 DEF KnowsLast, Querying, Running, Stored, RulesFrom, RulesTo
    <3> QED BY <3>1, <3>2
  <2> QED BY <2>3, <2>4, <2>5 DEF Unshared
<1>7. ASSUME Intact' PROVE Untorn'
  <2>1. Untorn
    BY <1>7 DEF EvaluatorIInv
  <2>2. \A s \in AllSeries : Gapless(s)'
    BY <2>1 DEF Untorn, Gapless, Stored
  <2>3. Alike' /\ Reached(Rule, marker)' /\ partial' = {}
    BY <1>2, <1>7, <2>1 DEF Untorn, Alike, Stored
  <2>4. ASSUME NEW o \in Replicas PROVE GoesOn(o)' /\ Complete(o)'
    <3>1. CASE o = r
      BY <1>7, <3>1
    <3>2. CASE o # r
      <4>1. cycle'[o] = cycle[o] /\ GoesOn(o) /\ Complete(o)
        BY <2>1, <3>2 DEF OtherCycles, Untorn
      <4>2. \A s, last, to : Continues(s, last, to)' <=> Continues(s, last, to)
        BY DEF Continues, Near, Stored
      <4>3. GoesOn(o)'
        BY <4>1, <4>2 DEF GoesOn, Querying, Running, Storing, RulesTo
      <4>4. Complete(o)'
        BY <1>2, <4>1 DEF Complete, Storing
      <4> QED BY <4>3, <4>4
    <3> QED BY <3>1, <3>2
  <2> QED BY <2>2, <2>3, <2>4 DEF Untorn
<1> QED BY <1>4, <1>5, <1>6, <1>7 DEF EvaluatorIInv

LEMMA NoCycleType ==
  ASSUME NEW n \in Nat
  PROVE  /\ NoCycle \in CycleLocals /\ NoCycle.pc = "idle"
         /\ [NoCycle EXCEPT !.to = n] \in CycleLocals /\ [NoCycle EXCEPT !.to = n].pc = "idle"
<1>1. [q \in Queries |-> 0] \in [Queries -> Nat]
  OBVIOUS
<1>2. NoCycle \in CycleLocals /\ NoCycle.pc = "idle"
  BY <1>1 DEF NoCycle, CycleLocals
<1> QED BY <1>2 DEF CycleLocals

\* Nothing is said of a cycle that is over, or has not begun.
LEMMA IdleSays ==
  ASSUME NEW r \in Replicas, cycle'[r].pc \in {"idle", "begin"}, \A s \in seen'[r] : Labelled(s)'
  PROVE  /\ InTime(r)' /\ HasLabels(r)' /\ KnowsLast(r)' /\ GoesOn(r)' /\ Complete(r)'
         /\ ~Running(r)'
<1>1. ~Running(r)' /\ ~Querying(r)' /\ ~Storing(r)' /\ ~Ruling(r)'
  BY DEF Running, Querying, Storing, Ruling
<1> QED BY <1>1 DEF InTime, HasLabels, KnowsLast, GoesOn, Complete

\* A cycle ends, or is lost, without a word to points.
LEMMA CycleEnds ==
  ASSUME EvaluatorIInv, NEW r \in Replicas, NEW c \in CycleLocals, c.pc \in {"idle", "begin"},
         NEW sc \in SUBSET AllSeries,
         cycle' = [cycle EXCEPT ![r] = c], seen' = [seen EXCEPT ![r] = sc], clock' = clock,
         points' = points, marker' = marker, torn' = torn, outage' = outage, overlap' = overlap,
         partial' = partial,
         labels \subseteq labels', unlabelled => unlabelled', \A s \in sc : Labelled(s)'
  PROVE  EvaluatorIInv'
<1>1. points' \in [AllSeries -> [Steps -> 0..2]] /\ marker' \in Nat
  BY DEF EvaluatorIInv, Tables
<1>2. Tables' /\ OtherCycles(r) /\ cycle'[r] = c /\ seen'[r] = sc
  BY <1>1, CycleStep
<1>3. /\ InTime(r)' /\ HasLabels(r)' /\ KnowsLast(r)' /\ GoesOn(r)' /\ Complete(r)'
      /\ ~Running(r)'
  BY <1>2, IdleSays
<1>4. Intact' <=> Intact
  BY DEF Intact
<1>5. Intact => partial' = {}
  BY DEF EvaluatorIInv, Untorn
<1> QED BY <1>2, <1>3, <1>4, <1>5, QuietStep

\* Where runProject leaves a cycle, and the seriesCache it keeps.
LEMMA EndedIs ==
  ASSUME EvaluatorIInv, NEW r \in Replicas, NEW to, Ended(r, to)
  PROVE  \E c \in CycleLocals : c.pc = "idle" /\ cycle' = [cycle EXCEPT ![r] = c]
<1>1. cycle[r].to \in Nat
  <2>1. cycle[r] \in CycleLocals
    BY DEF EvaluatorIInv, Tables
  <2> QED BY <2>1 DEF CycleLocals
<1>2. PICK c : c = [NoCycle EXCEPT !.to = cycle[r].to]
  OBVIOUS
<1>3. c \in CycleLocals /\ c.pc = "idle"
  BY <1>1, <1>2, NoCycleType
<1> QED BY <1>2, <1>3 DEF Ended

LEMMA SameSeen ==
  ASSUME EvaluatorIInv, NEW r \in Replicas
  PROVE  seen = [seen EXCEPT ![r] = seen[r]] /\ seen[r] \in SUBSET AllSeries
  BY DEF EvaluatorIInv, Tables

\* The steps of time and of the primary lock.
LEMMA LockStepsIInv ==
  ASSUME EvaluatorIInv,
         TimePasses \/ LosePrimary \/ (\E r \in Replicas : Elect(r)) \/ UNCHANGED evaluatorVars
  PROVE  EvaluatorIInv'
<1>1. /\ points' = points /\ labels' = labels /\ marker' = marker /\ seen' = seen /\ cycle' = cycle
      /\ overlap' = overlap /\ torn' = torn /\ unlabelled' = unlabelled /\ partial' = partial
      /\ outage' = outage
  BY DEF TimePasses, LosePrimary, Elect, evaluatorVars
<1>2. \/ clock' = clock
      \/ /\ clock < MaxClock /\ clock' = clock + 1
         /\ \A r \in Replicas : Running(r) => clock < cycle[r].to + Lag + Timeout
  BY DEF TimePasses, LosePrimary, Elect, evaluatorVars
<1>3. clock' \in Nat /\ StartTime <= clock' /\ clock' <= MaxClock
  BY <1>2, EvaluatorNumbers DEF EvaluatorIInv, Tables
<1>4. Tables' /\ PointsLabelled'
  BY <1>1, <1>3 DEF EvaluatorIInv, Tables, PointsLabelled, Stored, Labelled
<1>5. ASSUME NEW r \in Replicas PROVE InTime(r)' /\ HasLabels(r)'
  <2>1. InTime(r) /\ HasLabels(r) /\ cycle[r].to \in Nat /\ clock \in Nat
    BY DEF EvaluatorIInv, Tables, CycleLocals
  <2>2. Running(r)' => /\ StartTime <= cycle[r].to + Lag
                       /\ cycle[r].to + Lag <= clock' /\ clock' <= cycle[r].to + Lag + Timeout
    <3> SUFFICES ASSUME Running(r)' PROVE /\ StartTime <= cycle[r].to + Lag
                       /\ cycle[r].to + Lag <= clock' /\ clock' <= cycle[r].to + Lag + Timeout
      OBVIOUS
    <3>1. Running(r)
      BY <1>1 DEF Running
    <3> QED BY <1>2, <2>1, <3>1, EvaluatorNumbers DEF InTime
  <2>3. InTime(r)'
    BY <1>1, <2>1, <2>2 DEF InTime, Ruling, RulesFrom, RulesTo
  <2>4. HasLabels(r)'
    BY <1>1, <2>1 DEF HasLabels, Labelled
  <2> QED BY <2>3, <2>4
<1>6. Unshared => Unshared'
  BY <1>1 DEF Unshared, OneCycle, Running, Single, KnowsLast, Querying, Stored, RulesFrom, RulesTo
<1>7. Untorn => Untorn'
  <2>1. \A s \in AllSeries : Gapless(s) => Gapless(s)'
    BY <1>1 DEF Gapless, Stored
  <2>2. \A s, n : Reached(s, n)' <=> Reached(s, n)
    BY <1>1 DEF Reached, Stored
  <2>3. Alike => Alike'
    BY <1>1 DEF Alike, Stored
  <2>4. \A s, last, to : Continues(s, last, to)' <=> Continues(s, last, to)
    BY <1>1 DEF Continues, Near, Stored
  <2>5. \A r \in Replicas : (GoesOn(r) => GoesOn(r)') /\ (Complete(r) => Complete(r)')
    BY <1>1, <2>2, <2>4 DEF GoesOn, Complete, Querying, Running, Storing, RulesTo
  <2> QED BY <1>1, <2>1, <2>2, <2>3, <2>5 DEF Untorn
<1>8. Intact' <=> Intact
  BY <1>1 DEF Intact
<1> QED BY <1>1, <1>4, <1>5, <1>6, <1>7, <1>8 DEF EvaluatorIInv

\* The turn of the project comes near; or a cycle ends, or does not begin, and stores
\* nothing: the seriesCache is dropped, or has nothing but what is labelled.
LEMMA FailuresIInv ==
  ASSUME EvaluatorIInv, NEW r \in Replicas,
         Decide(r) \/ BeginFails(r) \/ NamesFail(r) \/ LoadFails(r) \/ EvaluatorRestarts(r)
  PROVE  EvaluatorIInv'
<1>1. /\ points' = points /\ labels' = labels /\ marker' = marker /\ clock' = clock
      /\ overlap' = overlap /\ torn' = torn /\ unlabelled' = unlabelled /\ partial' = partial
      /\ outage' = outage
  BY DEF Decide, BeginFails, NamesFail, LoadFails, EvaluatorRestarts
<1>2. PICK c \in CycleLocals : c.pc \in {"idle", "begin"} /\ cycle' = [cycle EXCEPT ![r] = c]
  <2>1. CASE BeginFails(r)
    <3>1. clock - Lag \in Nat
      BY EvaluatorNumbers DEF EvaluatorIInv, Tables
    <3>2. PICK c : c = [NoCycle EXCEPT !.to = clock - Lag]
      OBVIOUS
    <3>3. c \in CycleLocals /\ c.pc = "idle"
      BY <3>1, <3>2, NoCycleType
    <3> QED BY <2>1, <3>2, <3>3 DEF BeginFails
  <2>2. CASE NamesFail(r) \/ LoadFails(r)
    <3>1. PICK to : Ended(r, to)
      BY <2>2 DEF NamesFail, LoadFails
    <3> QED BY <3>1, EndedIs
  <2>3. CASE EvaluatorRestarts(r)
    BY <2>3, NoCycleType DEF EvaluatorRestarts
  <2>4. CASE Decide(r)
    <3>1. PICK me : me = cycle[r] /\ me \in CycleLocals
      BY DEF EvaluatorIInv, Tables
    <3>2. PICK c : c = [me EXCEPT !.pc = "begin"]
      OBVIOUS
    <3>3. c \in CycleLocals /\ c.pc = "begin"
      BY <3>1, <3>2 DEF CycleLocals
    <3>4. cycle' = [cycle EXCEPT ![r] = c]
      BY <2>4, <3>1, <3>2 DEF Decide
    <3> QED BY <3>3, <3>4
  <2> QED BY <2>1, <2>2, <2>3, <2>4
<1>3. CASE seen' = [seen EXCEPT ![r] = {}]
  <2>1. {} \in SUBSET AllSeries
    OBVIOUS
  <2> QED BY <1>1, <1>2, <1>3, <2>1, CycleEnds
<1>4. CASE seen' = seen /\ cycle[r].pc \in {"idle", "begin", "rules"}
  <2>1. seen' = [seen EXCEPT ![r] = seen[r]] /\ seen[r] \in SUBSET AllSeries
    BY <1>4, SameSeen
  <2>2. \A s \in seen[r] : Labelled(s)'
    BY <1>1, <1>4 DEF EvaluatorIInv, HasLabels, Labelled
  <2> QED BY <1>1, <1>2, <2>1, <2>2, CycleEnds
<1> QED BY <1>3, <1>4 DEF Decide, BeginFails, NamesFail, LoadFails, EvaluatorRestarts, Drop

\* What a cycle reads when it begins.
LEMMA BeginIInv ==
  ASSUME EvaluatorIInv, NEW r \in Replicas, Begin(r)
  PROVE  EvaluatorIInv'
<1>1. /\ cycle[r].pc = "begin" /\ clock' = clock
      /\ points' = points /\ labels' = labels /\ marker' = marker /\ seen' = seen
      /\ torn' = torn /\ unlabelled' = unlabelled /\ partial' = partial
      /\ overlap' = (overlap \/ \E o \in Replicas : Running(o))
      /\ ~outage' => ~outage /\ \A s \in AllSeries :
                        ~(LastOf(s) > 0 /\ LastOf(s) + 1 + Backfill + Behind(s) < clock)
  BY DEF Begin
<1>2. Tables /\ clock \in Nat /\ marker \in Nat /\ points \in [AllSeries -> [Steps -> 0..2]]
  BY DEF EvaluatorIInv, Tables
<1> DEFINE to == clock - Lag
           last == [q \in Queries |-> Found(LastPerQuery(q))]
           ruled == Found(LastOf(Rule))
           marked == Found(marker)
           c == [NoCycle EXCEPT !.pc = "query", !.to = to, !.marked = marked, !.last = last,
                                !.ruled = ruled]
<1>3. cycle' = [cycle EXCEPT ![r] = c]
  BY DEF Begin
<1>4. /\ to \in Nat /\ to + Lag = clock /\ StartTime <= to + Lag
      /\ to > Backfill + Lookahead /\ to > Backfill
  BY <1>2, EvaluatorNumbers DEF Tables
<1>f. \A n \in Nat : \/ Found(n) = n /\ n + Backfill + Margin >= clock
                     \/ Found(n) = 0 /\ n + Backfill + Margin < clock
  BY <1>2, EvaluatorNumbers DEF Found
<1>5. last \in [Queries -> Nat] /\ \A s \in Series : last[QueryOf[s]] = Found(LastPerQuery(QueryOf[s]))
  BY <1>2, <1>f, LastPerQueryIs, EvaluatorNumbers
<1>6. ruled \in Nat /\ marked \in Nat /\ Rule \in AllSeries /\ LastOf(Rule) \in Nat
  <2>1. Rule \in AllSeries
    BY DEF AllSeries
  <2>2. LastOf(Rule) \in Nat
    BY <1>2, <2>1, LastIs
  <2> QED BY <1>2, <1>f, <2>1, <2>2
<1>p. PICK To, Last, Ruled, Marked : To = to /\ Last = last /\ Ruled = ruled /\ Marked = marked
  OBVIOUS
<1>q. /\ To + Lag = clock /\ Ruled = Found(LastOf(Rule)) /\ Marked = Found(marker)
      /\ \A s \in Series : Last[QueryOf[s]] = Found(LastPerQuery(QueryOf[s]))
  BY <1>4, <1>5, <1>p
<1> HIDE DEF to, last, ruled, marked
<1>7. /\ c \in CycleLocals /\ c.pc = "query" /\ c.to = To /\ c.marked = Marked /\ c.last = Last
      /\ c.ruled = Ruled
  <2>1. NoCycle \in CycleLocals
    BY NoCycleType
  <2> QED BY <1>2, <1>4, <1>5, <1>6, <1>p, <2>1 DEF CycleLocals
<1> HIDE DEF c
<1>8. Tables' /\ OtherCycles(r) /\ cycle'[r] = c /\ seen'[r] = seen[r]
  BY <1>1, <1>2, <1>3, <1>7, SameSeen, CycleStep
<1>9. Running(r)' /\ Querying(r)' /\ ~Storing(r)' /\ ~Ruling(r)'
  BY <1>7, <1>8 DEF Running, Querying, Storing, Ruling
<1>n. /\ To \in Nat /\ To > Backfill + Lookahead /\ To > Backfill /\ StartTime <= To + Lag
      /\ Ruled \in Nat /\ Marked \in Nat /\ \A s \in Series : Last[QueryOf[s]] \in Nat
  BY <1>4, <1>5, <1>6, <1>p, EvaluatorNumbers
<1>10. InTime(r)'
  <2>1. To + Lag <= clock /\ clock <= To + Lag + Timeout
    BY <1>2, <1>q, <1>n, EvaluatorNumbers
  <2> QED BY <1>1, <1>7, <1>8, <1>9, <1>n, <2>1 DEF InTime
<1>11. HasLabels(r)'
  <2>1. \A s \in seen[r] : Labelled(s)
    BY <1>1 DEF EvaluatorIInv, HasLabels
  <2> QED BY <1>1, <1>7, <1>8, <2>1 DEF HasLabels, Labelled
<1>12. KnowsLast(r)'
  <2>1. ASSUME NEW s \in Series, NEW t \in Steps, Stored(s, t) PROVE t < From(Last[QueryOf[s]], To)
    <3>1. s \in AllSeries /\ QueryOf[s] \in Queries
      BY EvaluatorNumbers DEF AllSeries
    <3>2. LastOf(s) \in Nat /\ t <= LastOf(s)
      BY <1>2, <2>1, <3>1, LastIs
    <3>3. PICK lpq : lpq = LastPerQuery(QueryOf[s])
      OBVIOUS
    <3>4. lpq \in Nat /\ LastOf(s) <= lpq
      BY <1>2, <3>1, <3>3, LastPerQueryIs
    <3>5. t \in Nat /\ t <= lpq
      BY <3>2, <3>4, EvaluatorNumbers DEF Steps
    <3>6. PICK l, f : l = Last[QueryOf[s]] /\ f = From(l, To)
      OBVIOUS
    <3>7. f \in Nat /\ f > l /\ f + Backfill >= To /\ l \in Nat
      BY <1>n, <3>6, FromIs
    <3>8. l = lpq \/ lpq + Backfill + Margin < To + Lag
      BY <1>f, <1>q, <3>3, <3>4, <3>6
    <3>9. t < f
      BY <1>n, <3>4, <3>5, <3>7, <3>8, EvaluatorNumbers
    <3> QED BY <3>6, <3>9
  <2>2. ASSUME NEW t \in Steps, Stored(Rule, t)
        PROVE  t <= Ruled \/ t < IF Marked > 0 THEN Marked + 1 ELSE To - Lookahead - Backfill
    <3>1. t \in Nat /\ t <= LastOf(Rule)
      BY <1>2, <1>6, <2>2, LastIs, EvaluatorNumbers DEF Steps
    <3>2. Ruled = LastOf(Rule) \/ LastOf(Rule) + Backfill + Margin < To + Lag
      BY <1>6, <1>f, <1>q
    <3>3. CASE Marked > 0
      <4>1. Marked + Backfill + Margin >= To + Lag
        BY <1>2, <1>f, <1>q, <3>3
      <4> QED BY <1>6, <1>n, <3>1, <3>2, <3>3, <4>1, EvaluatorNumbers
    <3>4. CASE ~(Marked > 0)
      BY <1>6, <1>n, <3>1, <3>2, <3>4, EvaluatorNumbers
    <3> QED BY <3>3, <3>4
  <2>3. RulesFrom(r)' = IF Marked > 0 THEN Marked + 1 ELSE To - Lookahead - Backfill
    BY <1>7, <1>8 DEF RulesFrom, RulesTo
  <2>4. \A t \in Steps : Stored(Rule, t) => t <= Ruled \/ t < RulesFrom(r)'
    BY <2>2, <2>3
  <2>5. \A s, t : Stored(s, t)' <=> Stored(s, t)
    BY <1>1 DEF Stored
  <2>6. \A s \in Series, t \in Steps : Stored(s, t)' => t < From(cycle'[r].last[QueryOf[s]], cycle'[r].to)
    BY <1>7, <1>8, <2>1, <2>5
  <2>7. \A t \in Steps : Stored(Rule, t)' => t <= cycle'[r].ruled \/ t < RulesFrom(r)'
    BY <1>7, <1>8, <2>4, <2>5
  <2> QED BY <2>6, <2>7 DEF KnowsLast, From
<1>13. ASSUME Intact' PROVE Intact /\ GoesOn(r)' /\ Complete(r)' /\ partial' = {}
  <2>0. Intact
    BY <1>1, <1>13 DEF Intact
  <2>1. Untorn
    BY <2>0 DEF EvaluatorIInv
  <2>2. \A s, l, n : Continues(s, l, n)' <=> Continues(s, l, n)
    BY <1>1 DEF Continues, Near, Stored
  <2>3. \A s \in AllSeries : LastOf(s) > 0 => ~(LastOf(s) + 1 + Backfill + Behind(s) < clock)
    BY <1>1, <1>13 DEF Intact
  <2>4. ASSUME NEW s \in Series PROVE Continues(s, Last[QueryOf[s]], To)
    <3>1. s \in AllSeries /\ QueryOf[s] \in Queries /\ \A x \in Series : x \in AllSeries /\ x # Rule
      BY EvaluatorNumbers DEF AllSeries
    <3>2. PICK lpq, l : lpq = LastPerQuery(QueryOf[s]) /\ l = Last[QueryOf[s]]
      OBVIOUS
    <3>3. lpq \in Nat /\ l \in Nat
      BY <1>2, <1>n, <3>1, <3>2, LastPerQueryIs
    <3>4. CASE lpq = 0
      <4>1. LastOf(s) \in Nat /\ \A t \in Steps : Stored(s, t) => t <= LastOf(s)
        BY <1>2, <3>1, LastIs
      <4>4. LastOf(s) <= lpq
        BY <1>2, <3>1, <3>2, LastPerQueryIs
      <4>5. ~Stored(s, 0) /\ \A t \in Steps : t \in Nat
        BY <2>1, <3>1, EvaluatorNumbers DEF Untorn, Gapless, Steps
      <4>2. ASSUME NEW t \in Steps, Stored(s, t) PROVE FALSE
        <5>1. t = 0
          BY <3>4, <4>1, <4>2, <4>4, <4>5
        <5> QED BY <4>2, <4>5, <5>1
      <4>3. l = 0
        BY <1>f, <1>q, <3>2, <3>3, <3>4
      <4> QED BY <3>2, <4>2, <4>3 DEF Continues, Near
    <3>5. CASE lpq # 0
      <4>1. PICK x \in Series : QueryOf[x] = QueryOf[s] /\ lpq = LastOf(x)
        BY <1>2, <3>1, <3>2, <3>5, LastPerQueryIs
      <4>2. lpq > 0
        BY <3>3, <3>5
      <4>3. lpq \in Steps /\ Stored(x, lpq)
        BY <1>2, <3>1, <4>1, <4>2, LastIs
      <4>4. Stored(s, lpq)
        BY <2>1, <4>1, <4>3 DEF Untorn, Alike
      <4>5. Behind(x) = Lag
        BY <3>1 DEF Behind
      <4>6. ~(lpq + 1 + Backfill + Lag < clock)
        BY <2>3, <3>1, <4>1, <4>2, <4>5
      <4>7. To <= lpq + 1 + Backfill
        BY <1>n, <1>q, <3>3, <4>6, EvaluatorNumbers
      <4>8. CASE l = lpq
        BY <3>2, <4>2, <4>3, <4>4, <4>7, <4>8 DEF Continues
      <4>9. CASE l = 0 /\ lpq + Backfill + Margin < clock
        <5>1. lpq <= To + 1
          BY <1>n, <1>q, <3>3, <4>9, EvaluatorNumbers
        <5> QED BY <3>2, <4>3, <4>4, <4>7, <4>9, <5>1 DEF Continues, Near
      <4> QED BY <1>f, <1>q, <3>2, <3>3, <4>8, <4>9
    <3> QED BY <3>2, <3>4, <3>5
  <2>5. Continues(Rule, Ruled, To - Lookahead) /\ Marked <= Ruled
    <3>1. PICK m : m = LastOf(Rule)
      OBVIOUS
    <3>2. /\ m \in Nat /\ m \in Steps /\ (m > 0 => Stored(Rule, m))
          /\ \A t \in Steps : Stored(Rule, t) => t <= m
      BY <1>2, <1>6, <3>1, LastIs
    <3>3. \A t \in Steps : t \in Nat
      BY EvaluatorNumbers DEF Steps
    <3>4. \/ Ruled = m /\ m + Backfill + Margin >= clock
          \/ Ruled = 0 /\ m + Backfill + Margin < clock
      BY <1>f, <1>q, <3>1, <3>2
    <3>5. Marked <= Ruled
      <4>1. CASE Marked = 0
        BY <1>n, <4>1
      <4>2. CASE Marked # 0
        <5>1. Marked = marker /\ marker + Backfill + Margin >= clock
          BY <1>2, <1>f, <1>q, <4>2
        <5>2. PICK h \in Steps : Stored(Rule, h) /\ marker <= h
          BY <2>1, <4>2, <5>1 DEF Untorn, Reached
        <5>3. marker <= m
          BY <1>2, <3>2, <3>3, <5>2
        <5> QED BY <1>2, <3>2, <3>4, <5>1, <5>3, EvaluatorNumbers
      <4> QED BY <4>1, <4>2
    <3>6. CASE m = 0
      <4>1. \A t \in Steps : ~Stored(Rule, t)
        BY <1>6, <2>1, <3>2, <3>3, <3>6 DEF Untorn, Gapless
      <4>2. Ruled = 0
        BY <3>4, <3>6
      <4> QED BY <3>5, <4>1, <4>2 DEF Continues, Near
    <3>7. CASE m # 0
      <4>1. m > 0 /\ Stored(Rule, m)
        BY <3>2, <3>7
      <4>2. Behind(Rule) = Lag + Lookahead
        BY DEF Behind
      <4>3. ~(m + 1 + Backfill + (Lag + Lookahead) < clock)
        BY <1>6, <2>3, <3>1, <4>1, <4>2
      <4>4. To - Lookahead <= m + 1 + Backfill
        BY <1>n, <1>q, <3>2, <4>3, EvaluatorNumbers
      <4>5. CASE Ruled = m
        BY <3>2, <3>5, <4>1, <4>4, <4>5 DEF Continues
      <4>6. CASE Ruled = 0 /\ m + Backfill + Margin < clock
        <5>1. m <= To - Lookahead + 1
          BY <1>n, <1>q, <3>2, <4>6, EvaluatorNumbers
        <5> QED BY <3>2, <3>5, <4>1, <4>4, <4>6, <5>1 DEF Continues, Near
      <4> QED BY <3>4, <4>5, <4>6
    <3> QED BY <3>6, <3>7
  <2>6. RulesTo(r)' = To - Lookahead
    BY <1>7, <1>8 DEF RulesTo
  <2>7. GoesOn(r)'
    <3>1. \A s \in Series : Continues(s, cycle[r].last[QueryOf[s]], cycle[r].to)'
      BY <1>7, <1>8, <2>2, <2>4
    <3>2. Continues(Rule, cycle[r].ruled, RulesTo(r))' /\ cycle'[r].marked <= cycle'[r].ruled
      BY <1>7, <1>8, <2>2, <2>5, <2>6
    <3> QED BY <1>9, <3>1, <3>2 DEF GoesOn
  <2>8. Complete(r)'
    BY <1>7, <1>8, <1>9 DEF Complete
  <2> QED BY <1>1, <2>0, <2>1, <2>7, <2>8 DEF Untorn
<1>14. ~overlap' => ~overlap /\ \A o \in Replicas : ~Running(o)
  BY <1>1
<1> QED BY <1>1, <1>8, <1>10, <1>11, <1>12, <1>13, <1>14, QuietStep

LEMMA EvaluateIInv ==
  ASSUME EvaluatorIInv, NEW r \in Replicas, Evaluate(r)
  PROVE  EvaluatorIInv'
<1>0. PICK me : me = cycle[r] /\ me \in CycleLocals
  BY DEF EvaluatorIInv, Tables
<1>q. cycle[r].pc = "query"
  BY ZenonT(60) DEF Evaluate
<1>u. /\ cycle[r].pc = "query" /\ clock' = clock /\ overlap' = overlap
      /\ points' = points /\ labels' = labels /\ marker' = marker
      /\ torn' = torn /\ unlabelled' = unlabelled /\ partial' = partial /\ outage' = outage
  <2>1. UNCHANGED <<clock, primary, points, labels, marker, status, overlap, torn, unlabelled,
                    partial, outage>>
    BY ZenonT(60) DEF Evaluate
  <2> QED BY <1>q, <2>1
<1>1. /\ me.pc = "query" /\ clock' = clock /\ overlap' = overlap
      /\ points' = points /\ labels' = labels /\ marker' = marker
      /\ torn' = torn /\ unlabelled' = unlabelled /\ partial' = partial /\ outage' = outage
  BY <1>0, <1>u
<1> DEFINE tasks == {q \in Queries : From(cycle[r].last[q], cycle[r].to) <= cycle[r].to}
           out(f) == {s \in Series : QueryOf[s] \in tasks \ f}
           due(f, g) == {s \in out(f) : s \notin seen[r] \/ QueryOf[s] \in g}
           pc(f, g) == IF out(f) = {} THEN "rules" ELSE IF due(f, g) = {} THEN "points" ELSE "series"
<1>2. PICK failed, refresh \in SUBSET Queries :
        /\ seen' = [seen EXCEPT ![r] = @ \cup out(failed)]
        /\ cycle' = [cycle EXCEPT ![r].out = out(failed), ![r].due = due(failed, refresh),
                                  ![r].failed = failed, ![r].pc = pc(failed, refresh)]
  BY ZenonT(60) DEF Evaluate
<1>3. PICK O : O = out(failed)
  OBVIOUS
<1>4. PICK D : D = due(failed, refresh) /\ D \subseteq O /\ \A s \in O : s \in seen[r] \/ s \in D
  <2>1. PICK D : D = due(failed, refresh)
    OBVIOUS
  <2>2. D = {s \in O : s \notin seen[r] \/ QueryOf[s] \in refresh}
    BY <1>3, <2>1, Zenon
  <2>3. D \subseteq O /\ \A s \in O : s \in seen[r] \/ s \in D
    BY <2>2
  <2> HIDE DEF tasks, out, due, pc
  <2> QED BY <2>1, <2>3
<1>5. PICK p : /\ p = pc(failed, refresh) /\ p \in {"rules", "points", "series"}
               /\ p = "rules" => O = {}
               /\ p = "points" => O \subseteq seen[r]
  BY <1>3, <1>4
<1> DEFINE c == [me EXCEPT !.out = O, !.due = D, !.failed = failed, !.pc = p]
<1>6. O \in SUBSET Series /\ \A s \in Series : s \in O <=> QueryOf[s] \in tasks \ failed
  BY <1>3
<1>7. \A q \in Queries : q \in tasks \/ me.to <= me.last[q]
  <2> SUFFICES ASSUME NEW q \in Queries, ~(From(me.last[q], me.to) <= me.to)
               PROVE  me.to <= me.last[q]
    BY <1>0
  <2>1. me.to \in Nat /\ me.last[q] \in Nat
    BY <1>0, SMTT(60) DEF CycleLocals
  <2> QED BY <2>1, EvaluatorNumbers DEF From
<1>s. seen' = [seen EXCEPT ![r] = seen[r] \cup O]
  BY <1>2, <1>3, ZenonT(60)
<1>c. cycle' = [cycle EXCEPT ![r].out = O, ![r].due = D, ![r].failed = failed, ![r].pc = p]
  BY <1>2, <1>3, <1>4, <1>5, ZenonT(60)
<1> HIDE DEF tasks, out, due, pc
<1>8. cycle' = [cycle EXCEPT ![r] = c]
  BY <1>0, <1>c DEF EvaluatorIInv, Tables
<1>9. /\ c \in CycleLocals /\ c.out = O /\ c.due = D /\ c.failed = failed /\ c.pc = p
      /\ c.to = me.to /\ c.last = me.last /\ c.marked = me.marked /\ c.ruled = me.ruled
  BY <1>0, <1>4, <1>5, <1>6 DEF CycleLocals
<1> HIDE DEF c
<1>10. Tables' /\ OtherCycles(r) /\ cycle'[r] = c /\ seen'[r] = seen[r] \cup O
  <2>1. points' \in [AllSeries -> [Steps -> 0..2]] /\ marker' \in Nat
    BY <1>1 DEF EvaluatorIInv, Tables
  <2>2. PICK sc : sc = seen[r] \cup O
    OBVIOUS
  <2>3. sc \in SUBSET AllSeries
    BY <1>6, <2>2, SameSeen DEF AllSeries
  <2>4. Tables' /\ OtherCycles(r) /\ cycle'[r] = c /\ seen'[r] = sc
    BY <1>1, <1>8, <1>9, <1>s, <2>1, <2>2, <2>3, CycleStep, ZenonT(60)
  <2> QED BY <2>2, <2>4
<1>11. Running(r) /\ Querying(r) /\ Running(r)' /\ ~Ruling(r)' /\ (Storing(r)' <=> p # "rules")
  BY <1>0, <1>1, <1>5, <1>9, <1>10 DEF Running, Querying, Storing, Ruling
<1>12. InTime(r)'
  BY <1>0, <1>1, <1>9, <1>10, <1>11 DEF InTime, EvaluatorIInv
<1>13. HasLabels(r)'
  <2>1. \A s \in seen[r] : Labelled(s)'
    BY <1>0, <1>1 DEF EvaluatorIInv, HasLabels, Labelled
  <2>2. p = "rules" => O = {}
    BY <1>5
  <2>3. \A s \in O : Labelled(s)' \/ (p = "series" /\ s \in D)
    BY <1>4, <1>5, <2>1
  <2>4. /\ \A s \in seen'[r] : Labelled(s)' \/ (cycle'[r].pc = "series" /\ s \in cycle'[r].due)
        /\ \A s \in cycle'[r].out : Labelled(s)' \/ (cycle'[r].pc = "series" /\ s \in cycle'[r].due)
        /\ cycle'[r].pc # "rulePoints"
    BY <1>5, <1>9, <1>10, <2>1, <2>3
  <2> QED BY <2>4 DEF HasLabels
<1>14. KnowsLast(r) => KnowsLast(r)'
  BY <1>0, <1>1, <1>9, <1>10, <1>11 DEF KnowsLast, Stored, RulesFrom, RulesTo
<1>i. Intact' <=> Intact
  BY <1>1 DEF Intact
<1>15. ASSUME Intact PROVE GoesOn(r)' /\ Complete(r)' /\ partial' = {}
  <2>1. Untorn /\ GoesOn(r)
    BY <1>15 DEF EvaluatorIInv, Untorn
  <2>2. \A s, n : Reached(s, n)' <=> Reached(s, n)
    BY <1>1 DEF Reached, Stored
  <2>3. GoesOn(r)'
    <3>1. \A s, last, to : Continues(s, last, to)' <=> Continues(s, last, to)
      BY <1>1 DEF Continues, Near, Stored
    <3>2. RulesTo(r)' = RulesTo(r)
      BY <1>0, <1>9, <1>10 DEF RulesTo
    <3> QED BY <1>0, <1>6, <1>9, <1>10, <1>11, <2>1, <3>1, <3>2 DEF GoesOn
  <2>4. Complete(r)'
    <3> SUFFICES ASSUME failed = {}
                 PROVE  /\ \A s \in Series : s \in O \/ me.to <= me.last[QueryOf[s]]
                        /\ p = "rules" => \A s \in Series : Reached(s, me.to)
      BY <1>9, <1>10, <1>11, <2>2 DEF Complete
    <3>1. \A s \in Series : s \in O \/ me.to <= me.last[QueryOf[s]]
      BY <1>6, <1>7, EvaluatorNumbers
    <3>2. ASSUME NEW s \in Series, p = "rules" PROVE Reached(s, me.to)
      <4>2. me.to \in Nat /\ me.last[QueryOf[s]] \in Nat
        BY <1>0, EvaluatorNumbers DEF CycleLocals
      <4>1. me.to <= me.last[QueryOf[s]] /\ Reached(s, me.last[QueryOf[s]])
        <5>1. me.to <= me.last[QueryOf[s]]
          BY <1>5, <3>1, <3>2
        <5>2. Continues(s, me.last[QueryOf[s]], me.to)
          BY <1>0, <1>11, <2>1 DEF GoesOn
        <5> QED BY <4>2, <5>1, <5>2, ContinuesReached
      <4>3. \A h \in Steps : h \in Nat
        BY EvaluatorNumbers DEF Steps
      <4> QED BY <4>1, <4>2, <4>3 DEF Reached
    <3> QED BY <3>1, <3>2
  <2> QED BY <1>1, <2>1, <2>3, <2>4 DEF Untorn
<1>16. ~overlap => KnowsLast(r)
  BY DEF EvaluatorIInv, Unshared
<1> QED BY <1>1, <1>10, <1>11, <1>12, <1>13, <1>14, <1>i, <1>15, <1>16, QuietStep

\* The cycle of r as c leaves it: at another stage, with other series at hand.
AtStage(r, c, p, out, due) ==
    c = [cycle[r] EXCEPT !.pc = p, !.out = out, !.due = due]

\* A step to the next stage of a cycle.
LEMMA NextStage ==
  ASSUME EvaluatorIInv, NEW r \in Replicas, NEW p,
         p \in {"idle", "query", "series", "points", "rules", "ruleSeries", "rulePoints"},
         NEW out \in SUBSET Series, NEW due \in SUBSET Series,
         NEW c, AtStage(r, c, p, out, due),
         cycle' = [cycle EXCEPT ![r] = c], seen' = seen, clock' = clock,
         points' \in [AllSeries -> [Steps -> 0..2]], marker' \in Nat
  PROVE  /\ Tables' /\ OtherCycles(r) /\ seen'[r] = seen[r] /\ cycle'[r] \in CycleLocals
         /\ cycle'[r].pc = p /\ cycle'[r].to = cycle[r].to /\ cycle'[r].last = cycle[r].last
         /\ cycle'[r].marked = cycle[r].marked /\ cycle'[r].ruled = cycle[r].ruled
         /\ cycle'[r].out = out /\ cycle'[r].due = due
         /\ cycle'[r].from = cycle[r].from /\ cycle'[r].failed = cycle[r].failed
         /\ RulesTo(r)' = RulesTo(r) /\ RulesFrom(r)' = RulesFrom(r)
<1>1. PICK me : me = cycle[r] /\ me \in CycleLocals
  BY DEF EvaluatorIInv, Tables
<1>2. c = [me EXCEPT !.pc = p, !.out = out, !.due = due]
  BY <1>1 DEF AtStage
<1>3. /\ c \in CycleLocals /\ c.pc = p /\ c.to = me.to /\ c.last = me.last /\ c.marked = me.marked
      /\ c.ruled = me.ruled /\ c.out = out /\ c.due = due /\ c.from = me.from
      /\ c.failed = me.failed
  BY <1>1, <1>2 DEF CycleLocals
<1>4. cycle' = [cycle EXCEPT ![r] = c]
  OBVIOUS
<1>5. Tables' /\ OtherCycles(r) /\ cycle'[r] = c /\ seen'[r] = seen[r]
  BY <1>3, <1>4, SameSeen, CycleStep, ZenonT(60)
<1>6. RulesTo(r)' = RulesTo(r)
  BY <1>1, <1>3, <1>5 DEF RulesTo
<1>7. RulesFrom(r)' = RulesFrom(r)
  BY <1>1, <1>3, <1>5, <1>6 DEF RulesFrom
<1> QED BY <1>1, <1>3, <1>5, <1>6, <1>7

\* A cycle is where it was, for all that is said of the steps it goes on after.
LEMMA SameKnowledge ==
  ASSUME NEW r \in Replicas, points' = points, cycle'[r].last = cycle[r].last,
         cycle'[r].to = cycle[r].to, cycle'[r].marked = cycle[r].marked,
         cycle'[r].ruled = cycle[r].ruled, Running(r), Querying(r)' => Querying(r)
  PROVE  /\ KnowsLast(r) => KnowsLast(r)'
         /\ GoesOn(r) /\ (Storing(r)' => Storing(r) /\ cycle'[r].out = cycle[r].out) => GoesOn(r)'
<1>1. \A s, last, to : Continues(s, last, to)' <=> Continues(s, last, to)
  BY DEF Continues, Near, Stored
<1>2. RulesTo(r)' = RulesTo(r)
  BY DEF RulesTo
<1>3. RulesFrom(r)' = RulesFrom(r)
  BY <1>2 DEF RulesFrom
<1>4. KnowsLast(r) => KnowsLast(r)'
  BY <1>3 DEF KnowsLast, Stored
<1>5. ASSUME GoesOn(r), Storing(r)' => Storing(r) /\ cycle'[r].out = cycle[r].out PROVE GoesOn(r)'
  BY <1>1, <1>2, <1>5 DEF GoesOn
<1> QED BY <1>4, <1>5

LEMMA WriteSeriesIInv ==
  ASSUME EvaluatorIInv, NEW r \in Replicas, WriteSeries(r)
  PROVE  EvaluatorIInv'
<1>0. PICK me, none : me = cycle[r] /\ me \in CycleLocals /\ none = {}
  BY DEF EvaluatorIInv, Tables
<1>1. /\ cycle[r].pc = "series" /\ labels' = labels \cup cycle[r].due
      /\ clock' = clock /\ points' = points /\ marker' = marker /\ seen' = seen
      /\ overlap' = overlap /\ torn' = torn /\ unlabelled' = unlabelled /\ partial' = partial
      /\ outage' = outage
  BY DEF WriteSeries
<1>2. points' \in [AllSeries -> [Steps -> 0..2]] /\ marker' \in Nat
  BY <1>1 DEF EvaluatorIInv, Tables
<1>p. PICK out : out = me.out /\ out \in SUBSET Series
  BY <1>0 DEF CycleLocals
<1>q. PICK c : AtStage(r, c, "points", out, none) /\ cycle' = [cycle EXCEPT ![r] = c]
  <2>1. [me EXCEPT !.pc = "points", !.due = none]
          = [me EXCEPT !.pc = "points", !.out = out, !.due = none]
    BY <1>0, <1>p DEF CycleLocals
  <2>2. cycle' = [cycle EXCEPT ![r] = [@ EXCEPT !.pc = "points", !.due = none]]
    BY <1>0 DEF WriteSeries
  <2> QED BY <1>0, <2>1, <2>2 DEF AtStage
<1>3. /\ Tables' /\ OtherCycles(r) /\ seen'[r] = seen[r]
      /\ cycle'[r].pc = "points" /\ cycle'[r].to = cycle[r].to /\ cycle'[r].last = cycle[r].last
      /\ cycle'[r].marked = cycle[r].marked /\ cycle'[r].ruled = cycle[r].ruled
      /\ cycle'[r].out = cycle[r].out /\ cycle'[r].failed = cycle[r].failed
  <2>1. none \in SUBSET Series
    BY <1>0
  <2>2. out = cycle[r].out
    BY <1>0, <1>p
  <2>3. seen' = seen /\ clock' = clock
    BY <1>1
  <2>4. /\ Tables' /\ OtherCycles(r) /\ seen'[r] = seen[r]
        /\ cycle'[r].pc = "points" /\ cycle'[r].to = cycle[r].to /\ cycle'[r].last = cycle[r].last
        /\ cycle'[r].marked = cycle[r].marked /\ cycle'[r].ruled = cycle[r].ruled
        /\ cycle'[r].out = out /\ cycle'[r].failed = cycle[r].failed
    BY <1>2, <1>p, <1>q, <2>1, <2>3, NextStage, ZenonT(120)
  <2> QED BY <2>2, <2>4
<1>4. /\ Running(r) /\ Querying(r) /\ Storing(r)
      /\ Running(r)' /\ Querying(r)' /\ Storing(r)' /\ ~Ruling(r)'
  BY <1>1, <1>3 DEF Running, Querying, Storing, Ruling
<1>5. InTime(r)'
  BY <1>1, <1>3, <1>4 DEF EvaluatorIInv, InTime
<1>6. HasLabels(r)'
  <2>1. /\ \A s \in seen[r] : Labelled(s) \/ s \in cycle[r].due
        /\ \A s \in cycle[r].out : Labelled(s) \/ s \in cycle[r].due
    BY <1>1 DEF EvaluatorIInv, HasLabels
  <2>2. \A s : Labelled(s) \/ s \in cycle[r].due => Labelled(s)'
    BY <1>1 DEF Labelled
  <2> QED BY <1>3, <2>1, <2>2 DEF HasLabels
<1>7. KnowsLast(r) => KnowsLast(r)'
  BY <1>1, <1>3, <1>4, SameKnowledge
<1>8. ~overlap => KnowsLast(r)
  BY DEF EvaluatorIInv, Unshared
<1>i. Intact' <=> Intact
  BY <1>1 DEF Intact
<1>9. ASSUME Intact PROVE GoesOn(r)' /\ Complete(r)' /\ partial' = {}
  <2>1. GoesOn(r) /\ Complete(r) /\ partial = {}
    BY <1>9 DEF EvaluatorIInv, Untorn
  <2>3. GoesOn(r)'
    BY <1>1, <1>3, <1>4, <2>1, SameKnowledge
  <2>4. Complete(r)'
    BY <1>3, <1>4, <2>1 DEF Complete
  <2> QED BY <1>1, <2>1, <2>3, <2>4
<1>10. labels \subseteq labels'
  BY <1>1
<1> QED BY <1>1, <1>3, <1>4, <1>5, <1>6, <1>7, <1>8, <1>i, <1>9, <1>10, QuietStep

LEMMA WriteRuleSeriesIInv ==
  ASSUME EvaluatorIInv, NEW r \in Replicas, WriteRuleSeries(r)
  PROVE  EvaluatorIInv'
<1>0. PICK me : me = cycle[r] /\ me \in CycleLocals
  BY DEF EvaluatorIInv, Tables
<1>1. /\ cycle[r].pc = "ruleSeries" /\ labels' = labels \cup {Rule}
      /\ clock' = clock /\ points' = points /\ marker' = marker /\ seen' = seen
      /\ overlap' = overlap /\ torn' = torn /\ unlabelled' = unlabelled /\ partial' = partial
      /\ outage' = outage
  BY DEF WriteRuleSeries
<1>2. points' \in [AllSeries -> [Steps -> 0..2]] /\ marker' \in Nat
  BY <1>1 DEF EvaluatorIInv, Tables
<1>p. PICK out, due \in SUBSET Series : out = me.out /\ due = me.due
  BY <1>0 DEF CycleLocals
<1>q. PICK c : AtStage(r, c, "rulePoints", out, due) /\ cycle' = [cycle EXCEPT ![r] = c]
  <2>1. [me EXCEPT !.pc = "rulePoints"]
          = [me EXCEPT !.pc = "rulePoints", !.out = out, !.due = due]
    BY <1>0, <1>p DEF CycleLocals
  <2>2. cycle' = [cycle EXCEPT ![r] = [@ EXCEPT !.pc = "rulePoints"]]
    BY DEF WriteRuleSeries
  <2> QED BY <1>0, <2>1, <2>2 DEF AtStage
<1>3. /\ Tables' /\ OtherCycles(r) /\ seen'[r] = seen[r]
      /\ cycle'[r].pc = "rulePoints" /\ cycle'[r].to = cycle[r].to /\ cycle'[r].last = cycle[r].last
      /\ cycle'[r].marked = cycle[r].marked /\ cycle'[r].ruled = cycle[r].ruled
      /\ cycle'[r].from = cycle[r].from
      /\ RulesTo(r)' = RulesTo(r) /\ RulesFrom(r)' = RulesFrom(r)
  <2>1. seen' = seen /\ clock' = clock
    BY <1>1
  <2> QED BY <1>2, <1>p, <1>q, <2>1, NextStage
<1>4. /\ Running(r) /\ ~Querying(r) /\ Ruling(r)
      /\ Running(r)' /\ ~Querying(r)' /\ ~Storing(r)' /\ Ruling(r)'
  BY <1>1, <1>3 DEF Running, Querying, Storing, Ruling
<1>5. InTime(r)'
  BY <1>1, <1>3, <1>4 DEF EvaluatorIInv, InTime
<1>6. HasLabels(r)'
  <2>1. \A s \in seen[r] : Labelled(s) \/ s = Rule
    BY <1>1 DEF EvaluatorIInv, HasLabels
  <2>2. \A s : Labelled(s) \/ s = Rule => Labelled(s)'
    BY <1>1 DEF Labelled
  <2> QED BY <1>3, <2>1, <2>2 DEF HasLabels
<1>7. KnowsLast(r) => KnowsLast(r)'
  BY <1>1, <1>3, <1>4, SameKnowledge
<1>8. ~overlap => KnowsLast(r)
  BY DEF EvaluatorIInv, Unshared
<1>i. Intact' <=> Intact
  BY <1>1 DEF Intact
<1>9. ASSUME Intact PROVE GoesOn(r)' /\ Complete(r)' /\ partial' = {}
  <2>1. GoesOn(r) /\ partial = {}
    BY <1>9 DEF EvaluatorIInv, Untorn
  <2>3. GoesOn(r)'
    BY <1>1, <1>3, <1>4, <2>1, SameKnowledge
  <2>4. Complete(r)'
    BY <1>3, <1>4 DEF Complete
  <2> QED BY <1>1, <2>1, <2>3, <2>4
<1>10. labels \subseteq labels'
  BY <1>1
<1> QED BY <1>1, <1>3, <1>4, <1>5, <1>6, <1>7, <1>8, <1>i, <1>9, <1>10, QuietStep

\* No step is computed before its points, by a cycle that has stored them all.
LEMMA NoneMissing ==
  ASSUME Tables, NEW s \in Series, Gapless(s), NEW to \in Nat, to > 0, Reached(s, to),
         NEW t \in Steps, t <= to, points[s][t] = 0, FirstOf(s) < t
  PROVE  FALSE
<1>1. s \in AllSeries
  BY DEF AllSeries
<1>2. PICK h \in Steps : Stored(s, h) /\ to <= h
  BY DEF Reached
<1>4. t \in Nat /\ h \in Nat /\ t <= MaxClock
  BY EvaluatorNumbers DEF Steps
<1>3. FirstOf(s) \in Steps /\ Stored(s, FirstOf(s))
  <2>1. FirstOf(s) # MaxClock
    BY <1>4, EvaluatorNumbers
  <2> QED BY <1>1, <2>1, FirstIs
<1>5. t = h \/ t < h
  BY <1>2, <1>4
<1>6. Stored(s, t)
  BY <1>2, <1>3, <1>5 DEF Gapless
<1> QED BY <1>6 DEF Stored

LEMMA ComputeRulesIInv ==
  ASSUME EvaluatorIInv, NEW r \in Replicas, ComputeRules(r)
  PROVE  EvaluatorIInv'
<1>0. PICK me : me = cycle[r] /\ me \in CycleLocals
  BY DEF EvaluatorIInv, Tables
<1> DEFINE from == RulesFrom(r)
           missing == {t \in from..RulesTo(r) : \E s \in Series : points[s][t] = 0 /\ FirstOf(s) < t}
<1>1. /\ me.pc = "rules" /\ clock' = clock /\ overlap' = overlap
      /\ points' = points /\ labels' = labels /\ marker' = marker
      /\ torn' = torn /\ unlabelled' = unlabelled /\ outage' = outage
  BY <1>0 DEF ComputeRules
<1>2. \A s \in seen[r] : Labelled(s)
  BY <1>0, <1>1 DEF EvaluatorIInv, HasLabels
<1>3. CASE from > RulesTo(r)
  <2>1. Ended(r, RulesTo(r)) /\ seen' = seen /\ partial' = partial
    BY <1>3 DEF ComputeRules, RulesFrom
  <2>2. PICK c \in CycleLocals : c.pc = "idle" /\ cycle' = [cycle EXCEPT ![r] = c]
    BY <2>1, EndedIs
  <2>3. seen' = [seen EXCEPT ![r] = seen[r]] /\ seen[r] \in SUBSET AllSeries
    BY <2>1, SameSeen
  <2>4. \A s \in seen[r] : Labelled(s)'
    BY <1>1, <1>2 DEF Labelled
  <2> QED BY <1>1, <2>1, <2>2, <2>3, <2>4, CycleEnds
<1>4. CASE ~(from > RulesTo(r))
  <2>1. /\ seen' = [seen EXCEPT ![r] = @ \cup {Rule}]
        /\ partial' = IF cycle[r].failed = {} THEN partial \cup missing ELSE partial
        /\ \E due \in BOOLEAN :
              /\ Rule \in seen[r] \/ due
              /\ cycle' = [cycle EXCEPT ![r].from = from,
                                        ![r].pc = IF due THEN "ruleSeries" ELSE "rulePoints"]
    BY <1>4 DEF ComputeRules, RulesFrom
  <2>2. /\ me.to \in Nat /\ me.marked \in Nat /\ StartTime <= me.to + Lag /\ me.to + Lag <= MaxClock
        /\ RulesTo(r) = me.to - Lookahead
    <3>1. Running(r)
      BY <1>0, <1>1 DEF Running
    <3>2. /\ me.to \in Nat /\ me.marked \in Nat /\ StartTime <= me.to + Lag /\ me.to + Lag <= clock
          /\ clock \in Nat /\ clock <= MaxClock
      BY <1>0, <3>1 DEF EvaluatorIInv, InTime, CycleLocals, Tables
    <3> QED BY <1>0, <3>2, EvaluatorNumbers DEF RulesTo
  <2>3. from \in Nat /\ from <= RulesTo(r)
    <3>1. CASE me.marked > 0
      <4>1. from = me.marked + 1
        BY <1>0, <3>1 DEF RulesFrom
      <4> QED BY <1>4, <2>2, <3>1, <4>1, EvaluatorNumbers
    <3>2. CASE ~(me.marked > 0)
      <4>1. from = me.to - Lookahead - Backfill
        BY <1>0, <2>2, <3>2 DEF RulesFrom
      <4> QED BY <2>2, <4>1, EvaluatorNumbers
    <3> QED BY <3>1, <3>2
  <2>4. PICK p : /\ p \in {"rulePoints", "ruleSeries"} /\ (p = "rulePoints" => Rule \in seen[r])
                 /\ cycle' = [cycle EXCEPT ![r].from = from, ![r].pc = p]
    BY <2>1
  <2>5. Intact /\ me.failed = {} => missing = {}
    <3> SUFFICES ASSUME Intact, me.failed = {}, NEW t \in from..RulesTo(r), NEW s \in Series,
                        points[s][t] = 0, FirstOf(s) < t
                 PROVE  FALSE
      OBVIOUS
    <3>1. Gapless(s) /\ Reached(s, me.to)
      BY <1>0, <1>1 DEF EvaluatorIInv, Untorn, Complete, AllSeries
    <3> HIDE DEF from
    <3>2. t \in Steps /\ t <= me.to /\ me.to > 0
      BY <2>2, <2>3, EvaluatorNumbers DEF Steps
    <3> QED BY <2>2, <3>1, <3>2, NoneMissing DEF EvaluatorIInv
  <2>6. Intact => partial' = {}
    <3>1. Intact => partial = {}
      BY DEF EvaluatorIInv, Untorn
    <3> HIDE DEF missing
    <3> QED BY <1>0, <2>1, <2>5, <3>1
  <2>f. from = RulesFrom(r)
    OBVIOUS
  <2> HIDE DEF from, missing
  <2> DEFINE c == [me EXCEPT !.from = from, !.pc = p]
  <2>7. cycle' = [cycle EXCEPT ![r] = c]
    BY <1>0, <2>4 DEF EvaluatorIInv, Tables
  <2>8. /\ c \in CycleLocals /\ c.pc = p /\ c.from = from /\ c.to = me.to /\ c.marked = me.marked
        /\ c.ruled = me.ruled
    BY <1>0, <2>3, <2>4 DEF CycleLocals
  <2> HIDE DEF c
  <2>9. PICK sc : sc = seen[r] \cup {Rule}
    OBVIOUS
  <2>10. sc \in SUBSET AllSeries /\ seen' = [seen EXCEPT ![r] = sc]
    BY <2>1, <2>9, SameSeen DEF AllSeries
  <2>11. Tables' /\ OtherCycles(r) /\ cycle'[r] = c /\ seen'[r] = sc
    <3>1. points' \in [AllSeries -> [Steps -> 0..2]] /\ marker' \in Nat
      BY <1>1 DEF EvaluatorIInv, Tables
    <3> QED BY <1>1, <2>7, <2>8, <2>10, <3>1, CycleStep
  <2>12. Running(r) /\ Running(r)' /\ ~Querying(r)' /\ ~Storing(r)' /\ Ruling(r)'
    BY <1>0, <1>1, <2>4, <2>8, <2>11 DEF Running, Querying, Storing, Ruling
  <2>r. RulesTo(r)' = RulesTo(r) /\ RulesFrom(r)' = RulesFrom(r)
    <3>1. RulesTo(r)' = RulesTo(r)
      BY <1>0, <2>8, <2>11 DEF RulesTo
    <3> QED BY <1>0, <2>8, <2>11, <3>1 DEF RulesFrom
  <2>13. InTime(r)'
    <3>1. InTime(r)
      BY DEF EvaluatorIInv
    <3> QED BY <1>0, <1>1, <2>3, <2>8, <2>11, <2>12, <2>f, <2>r, <3>1 DEF InTime
  <2>14. HasLabels(r)'
    <3>1. \A s : Labelled(s)' <=> Labelled(s)
      BY <1>1 DEF Labelled
    <3>2. \A s \in sc : Labelled(s)' \/ (p = "ruleSeries" /\ s = Rule)
      BY <1>2, <2>4, <2>9, <3>1
    <3>3. p = "rulePoints" => Labelled(Rule)'
      BY <1>2, <2>4, <3>1
    <3> QED BY <2>4, <2>8, <2>11, <3>2, <3>3 DEF HasLabels
  <2>15. ~overlap => KnowsLast(r)'
    <3>1. ~overlap => KnowsLast(r)
      BY DEF EvaluatorIInv, Unshared
    <3> QED BY <1>0, <1>1, <2>8, <2>11, <2>12, <2>r, <3>1 DEF KnowsLast, Stored
  <2>16. ASSUME Intact PROVE GoesOn(r)' /\ Complete(r)'
    <3>1. GoesOn(r)
      BY <2>16 DEF EvaluatorIInv, Untorn
    <3>2. \A s, last, to : Continues(s, last, to)' <=> Continues(s, last, to)
      BY <1>1 DEF Continues, Near, Stored
    <3>5. GoesOn(r)'
      BY <1>0, <2>8, <2>11, <2>12, <2>r, <3>1, <3>2 DEF GoesOn
    <3>6. Complete(r)'
      BY <2>4, <2>8, <2>11, <2>12 DEF Complete
    <3> QED BY <3>5, <3>6
  <2>i. Intact' <=> Intact
    BY <1>1 DEF Intact
  <2> QED BY <1>1, <2>6, <2>11, <2>12, <2>13, <2>14, <2>15, <2>16, <2>i, QuietStep
<1> QED BY <1>3, <1>4

-----------------------------------------------------------------------------
(* World evaluator: the inserts of points *)

\* Up to which step a cycle stores a series.
UpTo(r, s) == IF s = Rule THEN RulesTo(r) ELSE cycle[r].to

\* The steps a cycle gives to a series that had none.
Founds(r, s) ==
    \/ \A t \in Steps : ~Stored(s, t)'
    \/ \E a, b \in Steps : /\ Stored(s, a)' /\ a + Backfill = UpTo(r, s)
                          /\ Stored(s, b)' /\ b = UpTo(r, s)

\* What another cycle goes on after stays, and what is new is near to it.
LEMMA NearGrows ==
  ASSUME EvaluatorIInv, NEW r \in Replicas, NEW o \in Replicas, Running(r), Running(o),
         NEW s \in AllSeries, NEW last \in Nat, NEW to, to = UpTo(o, s),
         \A t \in Steps : Stored(s, t) => Stored(s, t)',
         (\A t \in Steps : ~Stored(s, t)) => Founds(r, s), Continues(s, last, to)
  PROVE  Continues(s, last, to)'
<1>1. CASE last > 0
  BY <1>1 DEF Continues
<1>2. CASE ~(last > 0)
  <2>1. last = 0 /\ Near(s, to)
    BY <1>2 DEF Continues
  <2>2. CASE \E t \in Steps : Stored(s, t)
    <3>1. PICK a, b \in Steps : Stored(s, a) /\ a <= to + 1 /\ Stored(s, b) /\ to <= b + 1 + Backfill
      BY <2>1, <2>2 DEF Near
    <3> QED BY <2>1, <3>1 DEF Continues, Near
  <2>3. CASE \A t \in Steps : ~Stored(s, t)
    <3>1. CASE \A t \in Steps : ~Stored(s, t)'
      BY <2>1, <3>1 DEF Continues, Near
    <3>2. CASE ~\A t \in Steps : ~Stored(s, t)'
      <4>1. PICK a, b \in Steps : /\ Stored(s, a)' /\ a + Backfill = UpTo(r, s)
                                  /\ Stored(s, b)' /\ b = UpTo(r, s)
        BY <2>3, <3>2 DEF Founds
      <4>2. /\ cycle[r].to \in Nat /\ cycle[o].to \in Nat /\ clock \in Nat
            /\ StartTime <= cycle[r].to + Lag /\ StartTime <= cycle[o].to + Lag
            /\ cycle[r].to + Lag <= clock /\ clock <= cycle[r].to + Lag + Timeout
            /\ cycle[o].to + Lag <= clock /\ clock <= cycle[o].to + Lag + Timeout
        <5>1. cycle[r] \in CycleLocals /\ cycle[o] \in CycleLocals /\ clock \in Nat
          BY DEF EvaluatorIInv, Tables
        <5>2. InTime(r) /\ InTime(o)
          BY DEF EvaluatorIInv
        <5> QED BY <5>1, <5>2 DEF CycleLocals, InTime
      <4>3. UpTo(r, s) \in Nat /\ to \in Nat
        BY <4>2, EvaluatorNumbers DEF UpTo, RulesTo
      <4>4. UpTo(r, s) <= to + Timeout /\ to <= UpTo(r, s) + Timeout
        <5>1. CASE s = Rule
          BY <4>2, <5>1, EvaluatorNumbers DEF UpTo, RulesTo
        <5>2. CASE s # Rule
          BY <4>2, <5>2, EvaluatorNumbers DEF UpTo
        <5> QED BY <5>1, <5>2
      <4>5. a \in Nat /\ b \in Nat
        BY <4>1, EvaluatorNumbers DEF Steps
      <4>6. a <= to + 1 /\ to <= b + 1 + Backfill
        BY <4>1, <4>3, <4>4, <4>5, EvaluatorNumbers
      <4> QED BY <2>1, <4>1, <4>6 DEF Continues, Near
    <3> QED BY <3>1, <3>2
  <2> QED BY <2>2, <2>3
<1> QED BY <1>1, <1>2

\* A step that stores points, of series that have labels, and tears nothing unless
\* it says so.
LEMMA GrowStep ==
  ASSUME EvaluatorIInv, NEW r \in Replicas, OtherCycles(r), Tables', Running(r), clock' = clock,
         labels' = labels, unlabelled' = unlabelled, overlap' = overlap, partial' = partial,
         torn => torn', outage' = outage, InTime(r)', HasLabels(r)',
         \A s \in AllSeries, t \in Steps : /\ Stored(s, t) => Stored(s, t)'
                                           /\ Stored(s, t)' => Stored(s, t) \/ Labelled(s),
         ~overlap => KnowsLast(r)' /\ Single',
         Intact' => /\ \A s \in AllSeries : /\ Gapless(s)'
                                            /\ (\A t \in Steps : ~Stored(s, t)) => Founds(r, s)
                    /\ Alike' /\ Reached(Rule, marker)' /\ GoesOn(r)' /\ Complete(r)'
  PROVE  EvaluatorIInv'
<1>1. \A s : Labelled(s)' <=> Labelled(s)
  BY DEF Labelled
<1>2. \A s \in AllSeries : \A n : Reached(s, n) => Reached(s, n)'
  BY DEF Reached
<1>3. PointsLabelled'
  BY <1>1 DEF EvaluatorIInv, PointsLabelled
<1>4. ASSUME NEW o \in Replicas PROVE InTime(o)' /\ HasLabels(o)'
  <2>1. CASE o = r
    BY <2>1
  <2>2. CASE o # r
    <3>1. cycle'[o] = cycle[o] /\ seen'[o] = seen[o] /\ InTime(o) /\ HasLabels(o)
      BY <2>2 DEF OtherCycles, EvaluatorIInv
    <3>2. InTime(o)'
      BY <3>1 DEF InTime, Running, Ruling, RulesFrom, RulesTo
    <3>3. HasLabels(o)'
      BY <1>1, <3>1 DEF HasLabels
    <3> QED BY <3>2, <3>3
  <2> QED BY <2>1, <2>2
<1>5. ASSUME ~overlap' PROVE Unshared'
  <2>1. Unshared
    BY <1>5 DEF EvaluatorIInv
  <2>2. ASSUME NEW o \in Replicas, o # r PROVE ~Running(o)'
    <3>1. ~Running(o) /\ cycle'[o] = cycle[o]
      BY <2>1, <2>2 DEF Unshared, OneCycle, OtherCycles
    <3> QED BY <3>1 DEF Running
  <2>3. OneCycle'
    BY <2>2 DEF OneCycle
  <2>4. ASSUME NEW o \in Replicas PROVE KnowsLast(o)'
    <3>1. CASE o = r
      BY <1>5, <3>1
    <3>2. CASE o # r
      <4>1. ~Running(o)' /\ ~Querying(o)'
        BY <2>2, <3>2 DEF Running, Querying
      <4> QED BY <4>1 DEF KnowsLast
    <3> QED BY <3>1, <3>2
  <2> QED BY <1>5, <2>3, <2>4 DEF Unshared
<1>6. ASSUME Intact' PROVE Untorn'
  <2>1. Untorn
    BY <1>6 DEF EvaluatorIInv, Intact
  <2>2. ASSUME NEW o \in Replicas PROVE GoesOn(o)' /\ Complete(o)'
    <3>1. CASE o = r
      BY <1>6, <3>1
    <3>2. CASE o # r
      <4>1. cycle'[o] = cycle[o] /\ GoesOn(o) /\ Complete(o) /\ cycle[o] \in CycleLocals
        BY <2>1, <3>2 DEF OtherCycles, Untorn, EvaluatorIInv, Tables
      <4>2. Rule \in AllSeries /\ \A s \in Series : s \in AllSeries /\ s # Rule
        BY EvaluatorNumbers DEF AllSeries
      <4>3. ASSUME NEW s \in Series, Querying(o)
            PROVE  Continues(s, cycle[o].last[QueryOf[s]], cycle[o].to)'
        <5>1. PICK last, to : last = cycle[o].last[QueryOf[s]] /\ to = cycle[o].to
          OBVIOUS
        <5>2. last \in Nat /\ to = UpTo(o, s) /\ Running(o) /\ Continues(s, last, to)
          BY <4>1, <4>2, <4>3, <5>1, EvaluatorNumbers DEF CycleLocals, UpTo, Running, Querying, GoesOn
        <5>3. Continues(s, last, to)'
          BY <1>6, <4>2, <5>2, NearGrows
        <5> QED BY <4>1, <5>1, <5>3
      <4>4. ASSUME Running(o) PROVE Continues(Rule, cycle[o].ruled, RulesTo(o))'
        <5>1. PICK last, to : last = cycle[o].ruled /\ to = RulesTo(o)
          OBVIOUS
        <5>2. last \in Nat /\ to = UpTo(o, Rule) /\ Continues(Rule, last, to)
          BY <4>1, <4>4, <5>1 DEF CycleLocals, UpTo, GoesOn
        <5>3. Continues(Rule, last, to)'
          BY <1>6, <4>2, <4>4, <5>2, NearGrows
        <5>4. RulesTo(o)' = RulesTo(o)
          BY <4>1 DEF RulesTo
        <5> QED BY <4>1, <5>1, <5>3, <5>4
      <4>5. GoesOn(o)'
        BY <4>1, <4>3, <4>4 DEF GoesOn, Querying, Running, Storing
      <4>6. Complete(o)'
        BY <1>2, <4>1, <4>2 DEF Complete, Storing
      <4> QED BY <4>5, <4>6
    <3> QED BY <3>1, <3>2
  <2> QED BY <1>6, <2>1, <2>2 DEF Untorn
<1> QED BY <1>3, <1>4, <1>5, <1>6 DEF EvaluatorIInv

\* What Inserted stores.
LEMMA InsertedIs ==
  ASSUME NEW ss, NEW from, NEW to, NEW s \in AllSeries, NEW t \in Steps, NEW v,
         v = Inserted(ss, from, to)[s][t]
  PROVE  /\ s \in ss /\ from <= t /\ t <= to => v = IF points[s][t] = 0 THEN 1 ELSE 2
         /\ ~(s \in ss /\ from <= t /\ t <= to) => v = points[s][t]
  BY DEF Inserted

LEMMA InsertedType ==
  ASSUME Tables, NEW ss, NEW from, NEW to
  PROVE  Inserted(ss, from, to) \in [AllSeries -> [Steps -> 0..2]]
<1>1. \A s \in AllSeries, t \in Steps : points[s][t] \in 0..2
  BY DEF Tables
<1> QED BY <1>1 DEF Inserted

\* Where the missing steps of a query begin.
LEMMA QueryFromIs ==
  ASSUME EvaluatorIInv, NEW r \in Replicas, Querying(r), NEW s \in Series,
         NEW from, from = From(cycle[r].last[QueryOf[s]], cycle[r].to)
  PROVE  /\ cycle[r].to \in Nat /\ cycle[r].to \in Steps /\ cycle[r].to > Backfill
         /\ cycle[r].last[QueryOf[s]] \in Nat /\ from \in Nat /\ cycle[r].last[QueryOf[s]] < from
         /\ cycle[r].last[QueryOf[s]] = 0 => from + Backfill = cycle[r].to
         /\ cycle[r].to <= cycle[r].last[QueryOf[s]] + 1 + Backfill =>
              from = cycle[r].last[QueryOf[s]] + 1
         /\ Intact => Continues(s, cycle[r].last[QueryOf[s]], cycle[r].to)
<1> DEFINE to == cycle[r].to
           last == cycle[r].last[QueryOf[s]]
<1>1. to \in Nat /\ last \in Nat
  <2>1. cycle[r] \in CycleLocals /\ QueryOf[s] \in Queries
    BY EvaluatorNumbers DEF EvaluatorIInv, Tables
  <2> QED BY <2>1 DEF CycleLocals
<1>2. StartTime <= to + Lag /\ to + Lag <= clock /\ clock \in Nat /\ clock <= MaxClock
  BY DEF EvaluatorIInv, InTime, Running, Querying, Tables
<1>3. to > Backfill /\ to \in Steps
  BY <1>1, <1>2, EvaluatorNumbers DEF Steps
<1>4. Intact => Continues(s, last, to)
  BY DEF EvaluatorIInv, Untorn, GoesOn
<1>5. from = From(last, to)
  OBVIOUS
<1> HIDE DEF to, last
<1>6. /\ from \in Nat /\ last < from
      /\ last = 0 => from + Backfill = to
      /\ to <= last + 1 + Backfill => from = last + 1
  BY <1>1, <1>3, <1>5, FromIs
<1> QED BY <1>1, <1>3, <1>4, <1>6 DEF to, last

\* The insert of the points of the queries' series ss.
LEMMA InsertedOfIs ==
  ASSUME EvaluatorIInv, NEW r \in Replicas, cycle[r].pc = "points",
         NEW ss \in SUBSET cycle[r].out, points' = InsertedOf(r, ss)
  PROVE  /\ points' \in [AllSeries -> [Steps -> 0..2]]
         /\ ss \subseteq Series /\ cycle[r].out \subseteq Series
         /\ \A s \in ss : Adds(s, From(cycle[r].last[QueryOf[s]], cycle[r].to), cycle[r].to)
         /\ \A s \in AllSeries : s \notin ss => points'[s] = points[s]
<1>1. cycle[r].out \subseteq Series
  <2>1. cycle[r] \in CycleLocals
    BY DEF EvaluatorIInv, Tables
  <2> QED BY <2>1 DEF CycleLocals
<1>2. ASSUME NEW s \in ss
      PROVE  /\ s \in AllSeries /\ points'[s] \in [Steps -> 0..2]
             /\ Adds(s, From(cycle[r].last[QueryOf[s]], cycle[r].to), cycle[r].to)
  <2>1. PICK from, to : from = From(cycle[r].last[QueryOf[s]], cycle[r].to) /\ to = cycle[r].to
    OBVIOUS
  <2>2. s \in AllSeries
    BY <1>1 DEF AllSeries
  <2>3. points'[s] = Inserted({s}, from, to)[s]
    BY <2>1, <2>2 DEF InsertedOf
  <2>4. points'[s] \in [Steps -> 0..2]
    BY <2>2, <2>3, InsertedType DEF EvaluatorIInv
  <2>5. Adds(s, from, to)
    <3> SUFFICES ASSUME NEW t \in Steps
                 PROVE  /\ from <= t /\ t <= to => points'[s][t] = IF points[s][t] = 0 THEN 1 ELSE 2
                        /\ ~(from <= t /\ t <= to) => points'[s][t] = points[s][t]
      BY DEF Adds
    <3>1. PICK v : v = points'[s][t]
      OBVIOUS
    <3>2. PICK one : one = {s}
      OBVIOUS
    <3>3. v = Inserted(one, from, to)[s][t] /\ s \in one
      BY <2>3, <3>1, <3>2
    <3>4. /\ from <= t /\ t <= to => v = IF points[s][t] = 0 THEN 1 ELSE 2
          /\ ~(from <= t /\ t <= to) => v = points[s][t]
      BY <2>2, <3>3, InsertedIs
    <3> QED BY <3>1, <3>4
  <2> QED BY <2>1, <2>2, <2>4, <2>5
<1>3. \A s \in AllSeries : s \notin ss => points'[s] = points[s]
  BY DEF InsertedOf
<1>4. points' \in [AllSeries -> [Steps -> 0..2]]
  <2>1. \A s \in AllSeries : points[s] \in [Steps -> 0..2]
    BY DEF EvaluatorIInv, Tables
  <2>2. \A s \in AllSeries : points'[s] \in [Steps -> 0..2]
    BY <1>2, <1>3, <2>1
  <2>3. points' = [s \in AllSeries |-> points'[s]]
    BY DEF InsertedOf
  <2> QED BY <2>2, <2>3
<1> QED BY <1>1, <1>2, <1>3, <1>4

LEMMA StoreQueries ==
  ASSUME EvaluatorIInv, NEW r \in Replicas, cycle[r].pc = "points",
         NEW ss \in SUBSET cycle[r].out, points' = InsertedOf(r, ss), marker' = marker,
         NEW to, to = cycle[r].to
  PROVE  /\ points' \in [AllSeries -> [Steps -> 0..2]]
         /\ \A s \in AllSeries, t \in Steps : /\ Stored(s, t) => Stored(s, t)'
                                              /\ Stored(s, t)' => Stored(s, t) \/ Labelled(s)
         /\ points'[Rule] = points[Rule]
         /\ ~overlap => Single'
         /\ Intact /\ (ss = {} \/ ss = cycle[r].out) =>
              /\ \A s \in AllSeries : /\ Gapless(s)'
                                      /\ (\A t \in Steps : ~Stored(s, t)) => Founds(r, s)
              /\ Alike' /\ Reached(Rule, marker)'
         /\ Intact /\ ss = cycle[r].out /\ cycle[r].failed = {} =>
              \A s \in Series : Reached(s, to)'
<1>1. /\ points' \in [AllSeries -> [Steps -> 0..2]]
      /\ ss \subseteq Series /\ cycle[r].out \subseteq Series
      /\ \A s \in ss : Adds(s, From(cycle[r].last[QueryOf[s]], cycle[r].to), cycle[r].to)
      /\ \A s \in AllSeries : s \notin ss => points'[s] = points[s]
  BY InsertedOfIs
<1>2. Tables /\ Querying(r) /\ Storing(r) /\ (\A s \in Series : s \in AllSeries) /\ Rule \in AllSeries
  BY DEF EvaluatorIInv, Querying, Storing, AllSeries
<1>3. to = cycle[r].to
  OBVIOUS
<1> DEFINE from(s) == From(cycle[r].last[QueryOf[s]], cycle[r].to)
<1>4. ASSUME NEW s \in Series, NEW last, last = cycle[r].last[QueryOf[s]]
      PROVE  /\ to \in Nat /\ to \in Steps /\ to > Backfill /\ last \in Nat
             /\ from(s) \in Nat /\ from(s) = From(last, to) /\ last < from(s)
             /\ last = 0 => from(s) + Backfill = to
             /\ to <= last + 1 + Backfill => from(s) = last + 1
             /\ Intact => Continues(s, last, to)
  <2>1. PICK f : f = From(cycle[r].last[QueryOf[s]], cycle[r].to)
    OBVIOUS
  <2>2. f = from(s) /\ f = From(last, to) /\ last = cycle[r].last[QueryOf[s]]
    BY <1>3, <1>4, <2>1
  <2> HIDE DEF from
  <2>3. /\ cycle[r].to \in Nat /\ cycle[r].to \in Steps /\ cycle[r].to > Backfill
        /\ cycle[r].last[QueryOf[s]] \in Nat /\ f \in Nat /\ cycle[r].last[QueryOf[s]] < f
        /\ cycle[r].last[QueryOf[s]] = 0 => f + Backfill = cycle[r].to
        /\ cycle[r].to <= cycle[r].last[QueryOf[s]] + 1 + Backfill => f = cycle[r].last[QueryOf[s]] + 1
        /\ Intact => Continues(s, cycle[r].last[QueryOf[s]], cycle[r].to)
    BY <1>2, <2>1, QueryFromIs
  <2> QED BY <1>3, <2>2, <2>3
<1>5. \A s \in ss : Adds(s, from(s), to)
  BY <1>1, <1>3
<1> HIDE DEF from
<1>n. (\A s \in Series : from(s) \in Nat) /\ (ss # {} => to \in Nat /\ to \in Steps)
  <2>1. ASSUME NEW s \in Series PROVE from(s) \in Nat /\ to \in Nat /\ to \in Steps
    <3>1. PICK last : last = cycle[r].last[QueryOf[s]]
      OBVIOUS
    <3> QED BY <1>4, <3>1
  <2> QED BY <1>1, <2>1
<1>6. ASSUME NEW s \in ss
      PROVE  /\ \A t \in Steps : Stored(s, t)' <=> Stored(s, t) \/ (from(s) <= t /\ t <= to)
             /\ (\A t \in Steps : Stored(s, t) => t < from(s)) =>
                  \A t \in Steps : points[s][t] <= 1 => points'[s][t] <= 1
  BY <1>1, <1>2, <1>5, <1>n, AddsIs
<1>7. \A s \in AllSeries, t \in Steps : s \notin ss => (Stored(s, t)' <=> Stored(s, t))
  BY <1>1 DEF Stored
<1>8. \A s \in AllSeries, t \in Steps : /\ Stored(s, t) => Stored(s, t)'
                                        /\ Stored(s, t)' => Stored(s, t) \/ Labelled(s)
  <2>1. \A s \in ss : Labelled(s)
    BY DEF EvaluatorIInv, HasLabels
  <2> QED BY <1>6, <1>7, <2>1
<1>9. points'[Rule] = points[Rule]
  BY <1>1, <1>2, EvaluatorNumbers
<1>10. ASSUME ~overlap PROVE Single'
  <2>1. Single /\ KnowsLast(r)
    BY <1>10 DEF EvaluatorIInv, Unshared
  <2>2. ASSUME NEW s \in ss, NEW t \in Steps PROVE points'[s][t] <= 1
    <3>3. \A u \in Steps : Stored(s, u) => u < from(s)
      BY <1>1, <1>2, <2>1 DEF KnowsLast, from
    <3>4. points[s][t] <= 1
      BY <1>1, <1>2, <2>1 DEF Single
    <3> QED BY <1>6, <3>3, <3>4
  <2> QED BY <1>1, <2>1, <2>2 DEF Single
<1>11. ASSUME Intact, ss = {} \/ ss = cycle[r].out
       PROVE  /\ \A s \in AllSeries : /\ Gapless(s)'
                                      /\ (\A t \in Steps : ~Stored(s, t)) => Founds(r, s)
              /\ Alike' /\ Reached(Rule, marker)'
  <2>1. Untorn /\ GoesOn(r)
    BY <1>11 DEF EvaluatorIInv, Untorn
  <2>2. ASSUME NEW s \in AllSeries
        PROVE  Gapless(s)' /\ ((\A t \in Steps : ~Stored(s, t)) => Founds(r, s))
    <3>1. Gapless(s)
      BY <2>1 DEF Untorn
    <3>2. CASE s \in ss
      <4>1. PICK last, f : last = cycle[r].last[QueryOf[s]] /\ f = from(s)
        OBVIOUS
      <4>2. /\ to \in Nat /\ to \in Steps /\ to > Backfill /\ last \in Nat /\ f \in Nat
            /\ f = From(last, to) /\ last < f /\ (last = 0 => f + Backfill = to)
            /\ Continues(s, last, to)
        BY <1>1, <1>4, <1>11, <3>2, <4>1
      <4>3. Adds(s, f, to)
        BY <1>5, <3>2, <4>1
      <4>4. Gapless(s)'
        BY <1>2, <3>1, <4>2, <4>3, GaplessGrows
      <4>5. ASSUME \A t \in Steps : ~Stored(s, t) PROVE Founds(r, s)
        <5>1. last = 0 /\ f + Backfill = to
          BY <4>2, <4>5 DEF Continues
        <5>2. f \in Steps /\ f <= to
          BY <4>2, <5>1, EvaluatorNumbers DEF Steps
        <5>0. \A t \in Steps : f <= t /\ t <= to => Stored(s, t)'
          BY <1>6, <3>2, <4>1
        <5>5. f <= f /\ to <= to
          BY <4>2
        <5>3. Stored(s, f)' /\ Stored(s, to)'
          BY <4>2, <5>0, <5>2, <5>5
        <5>4. UpTo(r, s) = to
          BY <1>1, <1>3, <3>2, EvaluatorNumbers DEF UpTo
        <5> QED BY <4>2, <5>1, <5>2, <5>3, <5>4 DEF Founds
      <4> QED BY <4>4, <4>5
    <3>3. CASE s \notin ss
      <4>1. \A t \in Steps : Stored(s, t)' <=> Stored(s, t)
        BY <1>7, <3>3
      <4>2. 0 \in Steps
        BY EvaluatorNumbers DEF Steps
      <4> QED BY <3>1, <4>1, <4>2 DEF Gapless, Founds
    <3> QED BY <3>2, <3>3
  <2>3. ASSUME NEW x \in Series, NEW y \in Series, QueryOf[x] = QueryOf[y], NEW t \in Steps
        PROVE  Stored(x, t)' <=> Stored(y, t)'
    <3>1. x \in ss <=> y \in ss
      BY <1>2, <1>11, <2>1, <2>3 DEF GoesOn
    <3>2. from(x) = from(y)
      BY <2>3 DEF from
    <3>3. Stored(x, t) <=> Stored(y, t)
      BY <2>1, <2>3 DEF Untorn, Alike
    <3> QED BY <1>2, <1>6, <1>7, <3>1, <3>2, <3>3
  <2>4. Reached(Rule, marker)'
    BY <1>2, <1>8, <2>1 DEF Untorn, Reached
  <2> QED BY <2>2, <2>3, <2>4 DEF Alike
<1>12. ASSUME Intact, ss = cycle[r].out, cycle[r].failed = {}, NEW s \in Series
       PROVE  Reached(s, to)'
  <2>1. GoesOn(r) /\ Complete(r)
    BY <1>12 DEF EvaluatorIInv, Untorn
  <2>2. PICK last : last = cycle[r].last[QueryOf[s]]
    OBVIOUS
  <2>3. /\ to \in Nat /\ to \in Steps /\ to > Backfill /\ last \in Nat /\ from(s) \in Nat
        /\ (last = 0 => from(s) + Backfill = to)
        /\ (to <= last + 1 + Backfill => from(s) = last + 1)
        /\ Continues(s, last, to)
    BY <1>4, <1>12, <2>2
  <2>4. CASE s \in ss /\ from(s) <= to
    <3>1. Stored(s, to)' /\ to <= to
      BY <1>6, <2>3, <2>4
    <3> QED BY <2>3, <3>1 DEF Reached
  <2>5. CASE to <= last
    <3>1. last \in Steps /\ Stored(s, last)
      BY <2>3, <2>5, EvaluatorNumbers DEF Continues
    <3> QED BY <1>2, <1>8, <2>5, <3>1 DEF Reached
  <2>6. CASE s \in ss /\ ~(from(s) <= to)
    <3>1. to <= last
      BY <2>3, <2>6, EvaluatorNumbers DEF Continues
    <3> QED BY <2>5, <3>1
  <2>7. s \in cycle[r].out \/ cycle[r].to <= cycle[r].last[QueryOf[s]]
    BY <1>2, <1>12, <2>1 DEF Complete
  <2> QED BY <1>3, <1>12, <2>2, <2>4, <2>5, <2>6, <2>7
<1> QED BY <1>1, <1>3, <1>8, <1>9, <1>10, <1>11, <1>12

LEMMA WritePointsIInv ==
  ASSUME EvaluatorIInv, NEW r \in Replicas, WritePoints(r)
  PROVE  EvaluatorIInv'
<1>0. PICK to, out, none, me : /\ to = cycle[r].to /\ out = cycle[r].out /\ none = {}
                               /\ me = cycle[r] /\ me \in CycleLocals
  BY DEF EvaluatorIInv, Tables
<1>1. /\ cycle[r].pc = "points" /\ points' = InsertedOf(r, out)
      /\ clock' = clock /\ labels' = labels /\ marker' = marker /\ seen' = seen
      /\ overlap' = overlap /\ torn' = torn /\ unlabelled' = unlabelled /\ partial' = partial
      /\ outage' = outage
  BY <1>0 DEF WritePoints
<1>2. /\ points' \in [AllSeries -> [Steps -> 0..2]]
      /\ \A s \in AllSeries, t \in Steps : /\ Stored(s, t) => Stored(s, t)'
                                           /\ Stored(s, t)' => Stored(s, t) \/ Labelled(s)
      /\ points'[Rule] = points[Rule]
      /\ ~overlap => Single'
      /\ Intact => /\ \A s \in AllSeries : /\ Gapless(s)'
                                           /\ (\A t \in Steps : ~Stored(s, t)) => Founds(r, s)
                   /\ Alike' /\ Reached(Rule, marker)'
      /\ Intact /\ cycle[r].failed = {} => \A s \in Series : Reached(s, to)'
  <2>1. out \in SUBSET cycle[r].out
    BY <1>0
  <2> QED BY <1>0, <1>1, <2>1, StoreQueries
<1>p. PICK due : due = me.due /\ due \in SUBSET Series
  BY <1>0 DEF CycleLocals
<1>q. PICK c : AtStage(r, c, "rules", none, due) /\ cycle' = [cycle EXCEPT ![r] = c]
  <2>1. [me EXCEPT !.pc = "rules", !.out = none]
          = [me EXCEPT !.pc = "rules", !.out = none, !.due = due]
    BY <1>0, <1>p DEF CycleLocals
  <2>2. cycle' = [cycle EXCEPT ![r] = [@ EXCEPT !.pc = "rules", !.out = none]]
    BY <1>0 DEF WritePoints
  <2> QED BY <1>0, <2>1, <2>2 DEF AtStage
<1>3. /\ Tables' /\ OtherCycles(r) /\ seen'[r] = seen[r]
      /\ cycle'[r].pc = "rules" /\ cycle'[r].to = cycle[r].to
      /\ cycle'[r].marked = cycle[r].marked /\ cycle'[r].ruled = cycle[r].ruled
      /\ cycle'[r].failed = cycle[r].failed
      /\ RulesTo(r)' = RulesTo(r) /\ RulesFrom(r)' = RulesFrom(r)
  <2>1. marker' \in Nat /\ none \in SUBSET Series
    BY <1>0, <1>1 DEF EvaluatorIInv, Tables
  <2>2. seen' = seen /\ clock' = clock
    BY <1>1
  <2> QED BY <1>2, <1>p, <1>q, <2>1, <2>2, NextStage
<1>4. Running(r) /\ Running(r)' /\ ~Querying(r)' /\ ~Storing(r)' /\ ~Ruling(r)'
  BY <1>1, <1>3 DEF Running, Querying, Storing, Ruling
<1>5. InTime(r)'
  BY <1>1, <1>3, <1>4 DEF EvaluatorIInv, InTime
<1>6. HasLabels(r)'
  <2>1. \A s \in seen[r] : Labelled(s)'
    BY <1>1 DEF EvaluatorIInv, HasLabels, Labelled
  <2> QED BY <1>3, <2>1 DEF HasLabels
<1>7. ~overlap => KnowsLast(r)'
  <2>1. ~overlap => KnowsLast(r)
    BY DEF EvaluatorIInv, Unshared
  <2> QED BY <1>2, <1>3, <1>4, <2>1 DEF KnowsLast, Stored
<1>i. Intact' <=> Intact
  BY <1>1 DEF Intact
<1>8. ASSUME Intact PROVE GoesOn(r)' /\ Complete(r)'
  <2>1. GoesOn(r)
    BY <1>8 DEF EvaluatorIInv, Untorn
  <2>2. \A last, n : Continues(Rule, last, n)' <=> Continues(Rule, last, n)
    BY <1>2 DEF Continues, Near, Stored
  <2>3. GoesOn(r)'
    BY <1>3, <1>4, <2>1, <2>2 DEF GoesOn
  <2>4. Complete(r)'
    BY <1>0, <1>2, <1>3, <1>4, <1>8 DEF Complete
  <2> QED BY <2>3, <2>4
<1> QED BY <1>1, <1>2, <1>3, <1>4, <1>5, <1>6, <1>7, <1>8, <1>i, GrowStep

LEMMA WriteFailsIInv ==
  ASSUME EvaluatorIInv, NEW r \in Replicas, WriteFails(r)
  PROVE  EvaluatorIInv'
<1>1. /\ cycle[r].pc \in {"series", "points"} /\ Ended(r, cycle[r].to)
      /\ seen' = [seen EXCEPT ![r] = {}]
      /\ clock' = clock /\ marker' = marker
      /\ overlap' = overlap /\ unlabelled' = unlabelled /\ partial' = partial /\ outage' = outage
  BY DEF WriteFails, Drop
<1>2. PICK c \in CycleLocals : c.pc = "idle" /\ cycle' = [cycle EXCEPT ![r] = c]
  BY <1>1, EndedIs
<1>3. PICK none \in SUBSET AllSeries : none = {}
  OBVIOUS
<1>4. seen' = [seen EXCEPT ![r] = none] /\ \A s \in none : Labelled(s)'
  BY <1>1, <1>3
<1>5. CASE cycle[r].pc = "series"
  <2>1. labels \subseteq labels' /\ points' = points /\ torn' = torn
    BY <1>5 DEF WriteFails
  <2> QED BY <1>1, <1>2, <1>4, <2>1, CycleEnds
<1>6. CASE cycle[r].pc = "points"
  <2>1. PICK ss \in SUBSET cycle[r].out :
          points' = InsertedOf(r, ss) /\ torn' = (torn \/ ss \notin {{}, cycle[r].out})
    BY <1>6 DEF WriteFails
  <2>2. labels' = labels
    BY <1>6 DEF WriteFails
  <2>3. (torn => torn') /\ (Intact' => Intact /\ (ss = {} \/ ss = cycle[r].out))
    BY <1>1, <2>1 DEF Intact
  <2>4. PICK to : to = cycle[r].to
    OBVIOUS
  <2>5. /\ points' \in [AllSeries -> [Steps -> 0..2]]
        /\ \A s \in AllSeries, t \in Steps : /\ Stored(s, t) => Stored(s, t)'
                                             /\ Stored(s, t)' => Stored(s, t) \/ Labelled(s)
        /\ ~overlap => Single'
        /\ Intact /\ (ss = {} \/ ss = cycle[r].out) =>
             /\ \A s \in AllSeries : /\ Gapless(s)'
                                     /\ (\A t \in Steps : ~Stored(s, t)) => Founds(r, s)
             /\ Alike' /\ Reached(Rule, marker)'
    BY <1>1, <1>6, <2>1, <2>4, StoreQueries
  <2>6. Tables' /\ OtherCycles(r) /\ cycle'[r] = c /\ seen'[r] = none
    <3>1. marker' \in Nat
      BY <1>1 DEF EvaluatorIInv, Tables
    <3> QED BY <1>1, <1>2, <1>4, <2>5, <3>1, CycleStep
  <2>7. InTime(r)' /\ HasLabels(r)' /\ KnowsLast(r)' /\ GoesOn(r)' /\ Complete(r)'
    BY <1>2, <1>4, <2>6, IdleSays
  <2>8. Running(r)
    BY <1>6 DEF Running
  <2> QED BY <1>1, <2>2, <2>3, <2>5, <2>6, <2>7, <2>8, GrowStep
<1> QED BY <1>1, <1>5, <1>6

\* The insert of the points of the rules.
LEMMA StoreRules ==
  ASSUME EvaluatorIInv, NEW r \in Replicas, cycle[r].pc = "rulePoints",
         NEW ss, ss = {Rule}, NEW from, from = NotBefore(r), NEW to, to = RulesTo(r),
         points' = Inserted(ss, from, to)
  PROVE  /\ points' \in [AllSeries -> [Steps -> 0..2]] /\ to \in Nat
         /\ \A s \in AllSeries, t \in Steps : /\ Stored(s, t) => Stored(s, t)'
                                              /\ Stored(s, t)' => Stored(s, t) \/ Labelled(s)
         /\ ~overlap => Single'
         /\ Intact => /\ \A s \in AllSeries : /\ Gapless(s)'
                                              /\ (\A t \in Steps : ~Stored(s, t)) => Founds(r, s)
                      /\ Alike' /\ Reached(Rule, to)'
<1>1. /\ Tables /\ Running(r) /\ Ruling(r) /\ Labelled(Rule) /\ Rule \in AllSeries
      /\ \A t \in Steps : t \in Nat
  BY EvaluatorNumbers DEF EvaluatorIInv, Running, Ruling, HasLabels, AllSeries, Steps
<1>2. PICK me : me = cycle[r] /\ me \in CycleLocals
  BY DEF EvaluatorIInv, Tables
<1>3. /\ me.to \in Nat /\ me.from \in Nat /\ me.ruled \in Nat /\ me.marked \in Nat
      /\ me.from = RulesFrom(r) /\ me.from <= to
      /\ StartTime <= me.to + Lag /\ me.to + Lag <= clock /\ clock \in Nat /\ clock <= MaxClock
  BY <1>1, <1>2 DEF CycleLocals, EvaluatorIInv, InTime, Tables
<1>4. /\ to \in Nat /\ to = me.to - Lookahead /\ to > Backfill /\ to \in Steps
  BY <1>2, <1>3, EvaluatorNumbers DEF RulesTo, Steps
<1>5. from = IF me.ruled + 1 > me.from THEN me.ruled + 1 ELSE me.from
  BY <1>2 DEF NotBefore
<1>6. from \in Nat /\ me.ruled < from /\ me.from <= from
  BY <1>3, <1>5
<1>7. /\ Adds(Rule, from, to)
      /\ \A s \in AllSeries, t \in Steps : s # Rule => points'[s][t] = points[s][t]
  <2>1. ASSUME NEW s \in AllSeries, NEW t \in Steps
        PROVE  /\ s = Rule /\ from <= t /\ t <= to => points'[s][t] = IF points[s][t] = 0 THEN 1 ELSE 2
               /\ ~(s = Rule /\ from <= t /\ t <= to) => points'[s][t] = points[s][t]
    <3>1. PICK v : v = points'[s][t]
      OBVIOUS
    <3>2. v = Inserted(ss, from, to)[s][t] /\ (s \in ss <=> s = Rule)
      BY <3>1
    <3>3. /\ s \in ss /\ from <= t /\ t <= to => v = IF points[s][t] = 0 THEN 1 ELSE 2
          /\ ~(s \in ss /\ from <= t /\ t <= to) => v = points[s][t]
      BY <3>2, InsertedIs
    <3> QED BY <3>1, <3>2, <3>3
  <2>2. Adds(Rule, from, to)
    BY <1>1, <2>1 DEF Adds
  <2> QED BY <2>1, <2>2
<1>8. /\ \A t \in Steps : Stored(Rule, t)' <=> Stored(Rule, t) \/ (from <= t /\ t <= to)
      /\ (\A t \in Steps : Stored(Rule, t) => t < from) =>
           \A t \in Steps : points[Rule][t] <= 1 => points'[Rule][t] <= 1
  BY <1>1, <1>4, <1>6, <1>7, AddsIs
<1>9. \A s \in AllSeries, t \in Steps : s # Rule => (Stored(s, t)' <=> Stored(s, t))
  BY <1>7 DEF Stored
<1>10. points' \in [AllSeries -> [Steps -> 0..2]]
  BY <1>1, InsertedType
<1>11. \A s \in AllSeries, t \in Steps : /\ Stored(s, t) => Stored(s, t)'
                                         /\ Stored(s, t)' => Stored(s, t) \/ Labelled(s)
  BY <1>1, <1>8, <1>9
<1>12. ASSUME ~overlap PROVE Single'
  <2>1. Single /\ KnowsLast(r)
    BY <1>12 DEF EvaluatorIInv, Unshared
  <2>2. \A t \in Steps : Stored(Rule, t) => t <= me.ruled \/ t < me.from
    BY <1>1, <1>2, <1>3, <2>1 DEF KnowsLast
  <2>3. \A t \in Steps : Stored(Rule, t) => t < from
    BY <1>1, <1>3, <1>6, <2>2
  <2>4. \A t \in Steps : points'[Rule][t] <= 1
    BY <1>1, <1>8, <2>1, <2>3 DEF Single
  <2> QED BY <1>7, <2>1, <2>4 DEF Single
<1>13. ASSUME Intact
       PROVE  /\ \A s \in AllSeries : /\ Gapless(s)'
                                      /\ (\A t \in Steps : ~Stored(s, t)) => Founds(r, s)
              /\ Alike' /\ Reached(Rule, to)'
  <2>1. Untorn /\ GoesOn(r)
    BY <1>13 DEF EvaluatorIInv, Untorn
  <2>2. Continues(Rule, me.ruled, to) /\ me.marked <= me.ruled
    BY <1>1, <1>2, <2>1 DEF GoesOn
  <2>3. /\ from = From(me.ruled, to) /\ (me.ruled = 0 => from + Backfill = to)
        /\ (me.ruled > 0 => from = me.ruled + 1)
    <3>1. me.from = IF me.marked > 0 THEN me.marked + 1 ELSE to - Backfill
      BY <1>2, <1>3 DEF RulesFrom
    <3>2. CASE me.ruled = 0
      <4>1. me.from = to - Backfill /\ from = to - Backfill
        BY <1>3, <1>4, <1>5, <2>2, <3>1, <3>2, EvaluatorNumbers
      <4> QED BY <1>3, <1>4, <3>2, <4>1, EvaluatorNumbers DEF From
    <3>3. CASE me.ruled # 0
      <4>1. to <= me.ruled + 1 + Backfill
        BY <2>2, <3>3 DEF Continues
      <4>2. me.from <= me.ruled + 1
        BY <1>3, <1>4, <2>2, <3>1, <4>1, EvaluatorNumbers
      <4>3. from = me.ruled + 1
        BY <1>3, <1>5, <4>2
      <4>4. From(me.ruled, to) = me.ruled + 1
        BY <1>3, <1>4, <4>1, FromIs
      <4> QED BY <3>3, <4>3, <4>4
    <3> QED BY <3>2, <3>3
  <2>4. \A s \in Series : s \in AllSeries /\ s # Rule
    BY EvaluatorNumbers DEF AllSeries
  <2>5. PICK ruled : ruled = me.ruled
    OBVIOUS
  <2>6. ASSUME NEW s \in AllSeries
        PROVE  Gapless(s)' /\ ((\A t \in Steps : ~Stored(s, t)) => Founds(r, s))
    <3>1. Gapless(s)
      BY <2>1 DEF Untorn
    <3>2. CASE s = Rule
      <4>1. Gapless(s)'
        BY <1>1, <1>3, <1>4, <1>7, <2>2, <2>3, <2>5, <3>1, <3>2, GaplessGrows
      <4>2. ASSUME \A t \in Steps : ~Stored(s, t) PROVE Founds(r, s)
        <5>1. from + Backfill = to
          BY <2>2, <2>3, <3>2, <4>2 DEF Continues
        <5>2. from \in Steps /\ from <= to
          BY <1>4, <1>6, <5>1, EvaluatorNumbers DEF Steps
        <5>3. Stored(s, from)' /\ Stored(s, to)'
          BY <1>4, <1>6, <1>8, <3>2, <5>2
        <5>4. UpTo(r, s) = to
          BY <3>2 DEF UpTo
        <5> QED BY <1>4, <5>1, <5>2, <5>3, <5>4 DEF Founds
      <4> QED BY <4>1, <4>2
    <3>3. CASE s # Rule
      <4>1. \A t \in Steps : Stored(s, t)' <=> Stored(s, t)
        BY <1>9, <3>3
      <4>2. 0 \in Steps
        BY EvaluatorNumbers DEF Steps
      <4> QED BY <3>1, <4>1, <4>2 DEF Gapless, Founds
    <3> QED BY <3>2, <3>3
  <2>7. Alike'
    BY <1>9, <2>1, <2>4 DEF Untorn, Alike
  <2>8. Reached(Rule, to)'
    <3>1. CASE from <= to
      <4>1. Stored(Rule, to)' /\ to <= to
        BY <1>4, <1>8, <3>1
      <4> QED BY <1>4, <4>1 DEF Reached
    <3>2. CASE ~(from <= to)
      <4>1. me.ruled > 0 /\ to <= me.ruled
        BY <1>3, <1>4, <1>6, <2>3, <3>2, EvaluatorNumbers
      <4>2. me.ruled \in Steps /\ Stored(Rule, me.ruled)
        BY <1>3, <2>2, <4>1 DEF Continues
      <4> QED BY <1>1, <1>11, <4>1, <4>2 DEF Reached
    <3> QED BY <3>1, <3>2
  <2> QED BY <2>6, <2>7, <2>8
<1>14. to \in Nat
  BY <1>4
<1> QED BY <1>10, <1>11, <1>12, <1>13, <1>14

\* The later of two steps was reached if both were.
LEMMA LaterReached ==
  ASSUME NEW s, NEW a \in Nat, NEW b \in Nat
  PROVE  Later2(a, b) \in Nat /\ (Later2(a, b) = a \/ Later2(a, b) = b)
  BY DEF Later2

\* The rules are written, or their write fails after some of its effect: the rows
\* and the marker apart, but a marker without its rows is torn.
LEMMA RulesEnd ==
  ASSUME EvaluatorIInv, NEW r \in Replicas, cycle[r].pc = "rulePoints",
         NEW rows \in Booleans, NEW mark \in Booleans,
         points' = IF rows THEN Inserted({Rule}, NotBefore(r), RulesTo(r)) ELSE points,
         marker' = IF mark THEN Later2(marker, RulesTo(r)) ELSE marker,
         torn => torn', ~torn' => ~torn /\ (mark => rows), Ended(r, RulesTo(r)), clock' = clock, seen' = seen,
         labels' = labels, unlabelled' = unlabelled, overlap' = overlap, partial' = partial,
         outage' = outage
  PROVE  EvaluatorIInv'
<1>1. PICK c \in CycleLocals : c.pc = "idle" /\ cycle' = [cycle EXCEPT ![r] = c]
  BY EndedIs
<1>2. seen' = [seen EXCEPT ![r] = seen[r]] /\ seen[r] \in SUBSET AllSeries
  BY SameSeen
<1>3. Tables /\ marker \in Nat /\ Running(r) /\ \A s \in seen[r] : Labelled(s)'
  BY DEF EvaluatorIInv, Tables, Running, HasLabels, Labelled
<1>4. PICK ss, from, to : ss = {Rule} /\ from = NotBefore(r) /\ to = RulesTo(r)
  OBVIOUS
<1>5. (torn => torn') /\ (Intact' => Intact /\ (mark => rows))
  BY DEF Intact
<1>6. \A s \in AllSeries : \A n : Reached(s, n) /\ (\A t \in Steps : Stored(s, t) => Stored(s, t)') => Reached(s, n)'
  BY DEF Reached
<1>7. Rule \in AllSeries
  BY DEF AllSeries
<1>8. to \in Nat
  <2>1. cycle[r] \in CycleLocals /\ StartTime <= cycle[r].to + Lag
    BY <1>3 DEF EvaluatorIInv, InTime, Tables
  <2>2. cycle[r].to \in Nat
    BY <2>1 DEF CycleLocals
  <2> QED BY <1>4, <2>1, <2>2, EvaluatorNumbers DEF RulesTo
<1>9. /\ points' \in [AllSeries -> [Steps -> 0..2]]
      /\ \A s \in AllSeries, t \in Steps : /\ Stored(s, t) => Stored(s, t)'
                                           /\ Stored(s, t)' => Stored(s, t) \/ Labelled(s)
      /\ ~overlap => Single'
      /\ Intact => /\ \A s \in AllSeries : /\ Gapless(s)'
                                           /\ (\A t \in Steps : ~Stored(s, t)) => Founds(r, s)
                   /\ Alike' /\ (rows => Reached(Rule, to)')
  <2>1. CASE rows
    <3>1. points' = Inserted(ss, from, to)
      BY <1>4, <2>1
    <3> QED BY <1>4, <2>1, <3>1, StoreRules
  <2>2. CASE ~rows
    <3>1. points' = points
      BY <2>2
    <3>2. points' \in [AllSeries -> [Steps -> 0..2]]
      BY <1>3, <3>1 DEF Tables
    <3>3. ~overlap => Single'
      BY <3>1 DEF EvaluatorIInv, Unshared, Single
    <3>4. Intact => \A s \in AllSeries : Gapless(s)'
      BY <3>1 DEF EvaluatorIInv, Untorn, Gapless, Stored
    <3>5. Intact => Alike'
      BY <3>1 DEF EvaluatorIInv, Untorn, Alike, Stored
    <3>6. \A s, t : Stored(s, t)' <=> Stored(s, t)
      BY <3>1 DEF Stored
    <3>7. \A s \in AllSeries : (\A t \in Steps : ~Stored(s, t)) => Founds(r, s)
      BY <3>6 DEF Founds
    <3> QED BY <2>2, <3>2, <3>3, <3>4, <3>5, <3>6, <3>7
  <2> QED BY <2>1, <2>2
<1>10. marker' \in Nat /\ (marker' = marker \/ (mark /\ marker' = to))
  <2>1. marker' = IF mark THEN Later2(marker, to) ELSE marker
    BY <1>4
  <2> QED BY <1>3, <1>8, <2>1, LaterReached
<1>11. Intact' => Reached(Rule, marker)'
  <2>1. PICK m : m = marker'
    OBVIOUS
  <2>2. Intact => Reached(Rule, marker)
    BY DEF EvaluatorIInv, Untorn
  <2>3. Intact' => Reached(Rule, m)'
    BY <1>5, <1>6, <1>7, <1>9, <1>10, <2>1, <2>2
  <2> QED BY <2>1, <2>3 DEF Reached
<1>12. Tables' /\ OtherCycles(r) /\ cycle'[r] = c /\ seen'[r] = seen[r]
  BY <1>1, <1>2, <1>9, <1>10, CycleStep
<1>13. InTime(r)' /\ HasLabels(r)' /\ KnowsLast(r)' /\ GoesOn(r)' /\ Complete(r)'
  BY <1>1, <1>3, <1>12, IdleSays
<1> QED BY <1>3, <1>5, <1>9, <1>11, <1>12, <1>13, GrowStep

LEMMA WriteRulesIInv ==
  ASSUME EvaluatorIInv, NEW r \in Replicas, WriteRules(r)
  PROVE  EvaluatorIInv'
<1>1. PICK yes \in Booleans : yes = TRUE
  BY DEF Booleans
<1>2. /\ cycle[r].pc = "rulePoints"
      /\ points' = IF yes THEN Inserted({Rule}, NotBefore(r), RulesTo(r)) ELSE points
      /\ marker' = IF yes THEN Later2(marker, RulesTo(r)) ELSE marker
      /\ Ended(r, RulesTo(r)) /\ clock' = clock /\ seen' = seen /\ torn' = torn
      /\ labels' = labels /\ unlabelled' = unlabelled /\ overlap' = overlap /\ partial' = partial
      /\ outage' = outage
  BY <1>1 DEF WriteRules
<1>3. (torn => torn') /\ (~torn' => ~torn /\ (yes => yes))
  BY <1>2
<1> QED BY <1>2, <1>3, RulesEnd

LEMMA WriteRulesFailsIInv ==
  ASSUME EvaluatorIInv, NEW r \in Replicas, WriteRulesFails(r)
  PROVE  EvaluatorIInv'
<1>1. /\ cycle[r].pc \in {"ruleSeries", "rulePoints"} /\ Ended(r, RulesTo(r))
      /\ clock' = clock /\ seen' = seen /\ overlap' = overlap /\ partial' = partial
      /\ outage' = outage
  BY DEF WriteRulesFails
<1>2. CASE cycle[r].pc = "ruleSeries"
  <2>1. /\ labels' \in {labels, labels \cup {Rule}}
        /\ unlabelled' = (unlabelled \/ Rule \notin labels')
        /\ points' = points /\ marker' = marker /\ torn' = torn
    BY <1>2 DEF WriteRulesFails
  <2>2. labels \subseteq labels' /\ (unlabelled => unlabelled')
    BY <2>1
  <2>3. PICK c \in CycleLocals : c.pc \in {"idle", "begin"} /\ cycle' = [cycle EXCEPT ![r] = c]
    BY <1>1, EndedIs
  <2>4. seen' = [seen EXCEPT ![r] = seen[r]] /\ seen[r] \in SUBSET AllSeries
    BY <1>1, SameSeen
  <2>5. \A s \in seen[r] : Labelled(s)'
    <3>1. \A s \in seen[r] : Labelled(s) \/ s = Rule
      BY <1>2 DEF EvaluatorIInv, HasLabels
    <3>2. Labelled(Rule)'
      BY <2>1 DEF Labelled
    <3>3. \A s : Labelled(s) => Labelled(s)'
      BY <2>2 DEF Labelled
    <3> QED BY <3>1, <3>2, <3>3
  <2> QED BY <1>1, <2>1, <2>2, <2>3, <2>4, <2>5, CycleEnds
<1>3. CASE cycle[r].pc = "rulePoints"
  <2>1. PICK rows, mark \in Booleans :
          /\ points' = IF rows THEN Inserted({Rule}, NotBefore(r), RulesTo(r)) ELSE points
          /\ marker' = IF mark THEN Later2(marker, RulesTo(r)) ELSE marker
          /\ torn' = (torn \/ (mark /\ ~rows))
    BY <1>3 DEF WriteRulesFails, Booleans
  <2>2. labels' = labels /\ unlabelled' = unlabelled
    BY <1>3 DEF WriteRulesFails
  <2>3. (torn => torn') /\ (~torn' => ~torn /\ (mark => rows))
    BY <2>1
  <2> QED BY <1>1, <1>3, <2>1, <2>2, <2>3, RulesEnd
<1> QED BY <1>1, <1>2, <1>3

-----------------------------------------------------------------------------
(* World evaluator: the theorems *)

LEMMA EvaluatorInitIInv == EvaluatorInit => EvaluatorIInv
<1> SUFFICES ASSUME EvaluatorInit PROVE EvaluatorIInv
  OBVIOUS
<1>1. /\ clock = StartTime /\ points = [s \in AllSeries |-> [t \in Steps |-> 0]] /\ marker = 0
      /\ seen = [r \in Replicas |-> {}] /\ cycle = [r \in Replicas |-> NoCycle] /\ partial = {}
  BY DEF EvaluatorInit
<1>2. NoCycle \in CycleLocals /\ NoCycle.pc = "idle"
  BY NoCycleType
<1>3. \A s \in AllSeries, t \in Steps : points[s][t] = 0 /\ ~Stored(s, t)
  BY <1>1 DEF Stored
<1>4. Tables
  <2>1. points \in [AllSeries -> [Steps -> 0..2]]
    BY <1>1
  <2> QED BY <1>1, <1>2, <2>1, EvaluatorNumbers DEF Tables
<1>5. ASSUME NEW r \in Replicas
      PROVE  seen[r] = {} /\ cycle[r].pc = "idle"
  BY <1>1, <1>2
<1>6. ASSUME NEW r \in Replicas PROVE ~Running(r) /\ ~Querying(r) /\ ~Storing(r) /\ ~Ruling(r)
  <2>1. cycle[r].pc = "idle"
    BY <1>5
  <2> QED BY <2>1 DEF Running, Querying, Storing, Ruling
<1>7. ASSUME NEW r \in Replicas
      PROVE  InTime(r) /\ HasLabels(r) /\ KnowsLast(r) /\ GoesOn(r) /\ Complete(r)
  <2>1. cycle[r].pc = "idle" /\ seen[r] = {}
    BY <1>5
  <2>2. ~Running(r) /\ ~Querying(r) /\ ~Storing(r) /\ ~Ruling(r)
    BY <1>6
  <2> QED BY <2>1, <2>2 DEF InTime, HasLabels, KnowsLast, GoesOn, Complete
<1>8. PointsLabelled /\ OneCycle /\ Single
  BY <1>3, <1>6 DEF PointsLabelled, OneCycle, Single
<1>9. (\A s \in AllSeries : Gapless(s)) /\ Reached(Rule, marker)
  BY <1>1, <1>3, EvaluatorNumbers DEF Gapless, Reached, Steps
<1>0. 0 \in Steps
  BY EvaluatorNumbers DEF Steps
<1>10. Alike
  BY <1>3 DEF Alike, AllSeries
<1> QED BY <1>1, <1>4, <1>7, <1>8, <1>9, <1>10 DEF EvaluatorIInv, Unshared, Untorn

LEMMA EvaluatorNextIInv == EvaluatorIInv /\ [EvaluatorNext]_evaluatorVars => EvaluatorIInv'
<1> SUFFICES ASSUME EvaluatorIInv, [EvaluatorNext]_evaluatorVars PROVE EvaluatorIInv'
  OBVIOUS
<1>1. CASE TimePasses \/ LosePrimary \/ (\E r \in Replicas : Elect(r)) \/ UNCHANGED evaluatorVars
  BY <1>1, LockStepsIInv
<1>2. ASSUME NEW r \in Replicas,
             \/ Decide(r) \/ Begin(r) \/ BeginFails(r) \/ NamesFail(r) \/ Evaluate(r)
             \/ WriteSeries(r) \/ WritePoints(r) \/ WriteFails(r)
             \/ ComputeRules(r) \/ LoadFails(r) \/ WriteRuleSeries(r) \/ WriteRules(r)
             \/ WriteRulesFails(r) \/ EvaluatorRestarts(r)
      PROVE  EvaluatorIInv'
  BY <1>2, BeginIInv, FailuresIInv, EvaluateIInv, WriteSeriesIInv, WritePointsIInv, WriteFailsIInv,
     ComputeRulesIInv, WriteRuleSeriesIInv, WriteRulesIInv, WriteRulesFailsIInv
<1> QED BY <1>1, <1>2 DEF EvaluatorNext

\* The invariant of the world evaluator holds at every time.
THEOREM EvaluatorInvariance == EvaluatorSpec => []EvaluatorIInv
<1> QED BY EvaluatorInitIInv, EvaluatorNextIInv, PTL DEF EvaluatorSpec

\* A series has every step between its first and its last one exactly once, for any
\* queries, failures, crashes and changes of the primary, however long it runs: twice
\* only if two cycles ran beside each other, never only if an insert was stored in
\* part or an outage was longer than the backfill.
THEOREM EachStepOnceSafety == EvaluatorSpec => []EachStepOnce
<1>1. EvaluatorIInv => EachStepOnce
  <2> SUFFICES ASSUME EvaluatorIInv, NEW s \in AllSeries, NEW t \in FirstOf(s)..LastOf(s)
               PROVE  /\ points[s][t] > 1 => overlap
                      /\ points[s][t] = 0 => torn \/ outage
    BY DEF EachStepOnce
  <2>1. Tables
    BY DEF EvaluatorIInv
  <2>2. /\ LastOf(s) \in Steps /\ (LastOf(s) > 0 => Stored(s, LastOf(s)))
        /\ FirstOf(s) \in Steps /\ (FirstOf(s) # MaxClock => Stored(s, FirstOf(s)))
    BY <2>1, LastIs, FirstIs
  <2>3. /\ FirstOf(s) \in Nat /\ LastOf(s) \in Nat /\ LastOf(s) <= MaxClock
        /\ t \in Nat /\ t \in Steps /\ FirstOf(s) <= t /\ t <= LastOf(s) /\ MaxClock > 0
    BY <2>2, EvaluatorNumbers DEF Steps
  <2>4. points[s][t] \in 0..2
    BY <2>1, <2>3 DEF Tables
  <2>5. points[s][t] > 1 => overlap
    <3>1. ~overlap => points[s][t] <= 1
      BY <2>3 DEF EvaluatorIInv, Unshared, Single
    <3> QED BY <2>4, <3>1
  <2>6. ASSUME points[s][t] = 0, ~torn, ~outage PROVE FALSE
    <3>1. Gapless(s)
      BY <2>6 DEF EvaluatorIInv, Intact, Untorn
    <3>2. ~Stored(s, t)
      BY <2>6 DEF Stored
    <3>3. Stored(s, FirstOf(s))
      <4>1. CASE FirstOf(s) = MaxClock
        <5>1. FirstOf(s) = LastOf(s) /\ LastOf(s) > 0
          BY <2>3, <4>1, EvaluatorNumbers
        <5> QED BY <2>2, <5>1
      <4> QED BY <2>2, <4>1
    <3>4. FirstOf(s) < t
      BY <2>3, <3>2, <3>3
    <3>5. LastOf(s) > 0 /\ Stored(s, LastOf(s))
      BY <2>2, <2>3, <3>4
    <3>6. t < LastOf(s)
      <4>1. t # LastOf(s)
        BY <3>2, <3>5
      <4> QED BY <2>3, <4>1
    <3> QED BY <2>2, <2>3, <3>1, <3>2, <3>3, <3>4, <3>5, <3>6 DEF Gapless
  <2> QED BY <2>5, <2>6
<1> QED BY <1>1, EvaluatorInvariance, PTL

\* What has points has labels, except a rule whose labels failed to be written and
\* count as written.
THEOREM LabelsFirstSafety == EvaluatorSpec => []LabelsFirst
<1>1. EvaluatorIInv => LabelsFirst
  <2> SUFFICES ASSUME EvaluatorIInv, NEW s \in AllSeries, LastOf(s) > 0 PROVE Labelled(s)
    BY DEF LabelsFirst, Labelled
  <2>3. LastOf(s) \in Steps /\ Stored(s, LastOf(s))
    BY LastIs DEF EvaluatorIInv
  <2> QED BY <2>3 DEF EvaluatorIInv, PointsLabelled
<1> QED BY <1>1, EvaluatorInvariance, PTL

\* The rules of a step are computed when every series has it, unless a query failed
\* in that cycle, an insert was stored in part before or an outage was longer than the
\* backfill.
THEOREM RulesWholeSafety == EvaluatorSpec => []RulesWhole
<1>1. EvaluatorIInv => RulesWhole
  BY DEF EvaluatorIInv, Intact, Untorn, RulesWhole
<1> QED BY <1>1, EvaluatorInvariance, PTL
=============================================================================
