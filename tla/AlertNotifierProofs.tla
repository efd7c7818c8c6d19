------------------------ MODULE AlertNotifierProofs ------------------------
(***************************************************************************)
(* Proofs about AlertNotifier for any number of replicas, destinations,    *)
(* alerts, requests and faults.                                            *)
(*                                                                         *)
(* The argument is about what a pass over the outbox has in its hands: it  *)
(* works on rows it read at its start, while other threads put rows, mark  *)
(* them and read them again.                                               *)
(***************************************************************************)
EXTENDS AlertNotifier, TLAPS

USE NotifierAssumption

-----------------------------------------------------------------------------
(* The parts of the invariant *)

Notes == {"overlap", "no client", "no thread", "not recorded"}
Booleans == BOOLEAN
Histories == [by : {"watcher", "api"}, delivered : Nat, reply : Booleans, notes : SUBSET Notes]

\* The two tables of rows go together.
Rows ==
    /\ outbox \in Seq(Notification) /\ hist \in Seq(Histories)
    /\ Len(hist) = Len(outbox)
    /\ \A i \in Ids : outbox[i].id = i

\* The ids a pass has still to send.
ToSend(p) == {n.id : n \in thread[p].todo}

\* The row of id i is in the hands of p after a send.
Marks(p, i) == thread[p].pc = "mark" /\ thread[p].cur.id = i

Told(i) == hist[i].delivered > 0
Clean(i) == hist[i].notes \cap {"overlap", "not recorded"} = {}

\* What a pass holds are rows of the table, each once, but for what was written
\* to them since they were read.
RowOf(n) == n \in Notification /\ n.id \in Ids /\ SameKey(outbox[n.id], n)

Holds(p) ==
    /\ ~Sending(p) => thread[p].todo = {}
    /\ \A n \in thread[p].todo : RowOf(n)
    /\ \A m, n \in thread[p].todo : m.id = n.id => m = n
    /\ thread[p].pc = "mark" =>
         /\ RowOf(thread[p].cur) /\ thread[p].cur.id \notin ToSend(p)
         /\ Told(thread[p].cur.id) \/ "no client" \in hist[thread[p].cur.id].notes
         /\ \/ thread[p].cur.dest \notin Slacks \/ thread[p].cur.key = Posted
            \/ "no client" \in hist[thread[p].cur.id].notes

\* Two passes at once have noted all that either holds.
Noted ==
    \A p, q \in Threads :
        p # q /\ Sending(p) /\ Sending(q) => \A i \in Held(p) : "overlap" \in hist[i].notes

\* What was told is told no more: it is marked, or about to be.
Once ==
    \A i \in Ids : Told(i) /\ Clean(i) =>
        /\ hist[i].delivered = 1
        /\ outbox[i].sent \/ \E p \in Threads : Marks(p, i)
        /\ \A p \in Threads : i \notin ToSend(p)

\* i was put before n, about an earlier moment of the same alert.
Earlier(i, n) ==
    /\ i < n.id /\ outbox[i].alert = n.alert /\ outbox[i].dest = n.dest
    /\ outbox[i].ts < n.ts

Settled(i) == Told(i) \/ outbox[i].sent \/ Expired(outbox[i])

\* A pass that has to send n has what comes before it too, unless it is settled
\* or nothing is sent there.
Ordered ==
    \A p \in Threads : \A n \in thread[p].todo : \A i \in Ids :
        Earlier(i, n) => Settled(i) \/ i \in ToSend(p) \/ n.dest \notin thread[p].clients

\* What is still to be sent after a later one was told, is sent for a reason.
Late ==
    \A i, j \in Ids : Earlier(i, outbox[j]) /\ Told(j) =>
        \A p \in Threads : i \in ToSend(p) => hist[i].notes # {}

Unique(i) == \A k \in Ids : SameKey(outbox[i], outbox[k]) => k = i

\* The key of a message in Slack is kept as soon as the message is marked.
KeyKept ==
    \A i \in Ids :
        /\ outbox[i].dest \in Slacks /\ Told(i) /\ hist[i].notes = {} /\ Unique(i)
        => outbox[i].key = Posted \/ \E p \in Threads : Marks(p, i) /\ thread[p].cur.key = Posted

\* A thread that goes on as the primary's.
Working(p) == thread[p].pc \in {"lock", "send", "mark"} \/ (thread[p].pc = "put" /\ p[2] = "watcher")

\* Nobody but the primary works, until a primary has lost its lock.
PrimaryWorks == ~lost => \A p \in Threads : Working(p) => p[1] = primary

\* sendLock
OneSends == \A p, q \in Threads : p # q /\ p[1] = q[1] /\ Sending(p) => ~Sending(q)

\* What a thread is about to put.
Puts(p) ==
    thread[p].pc = "put" =>
        /\ p[2] \in {"watcher", "api"}
        /\ thread[p].alert \in Alerts /\ thread[p].sev \in Severities
        /\ thread[p].left # <<>>

Locals ==
    [pc : {"idle", "put", "lock", "send", "mark"}, alert : Alerts \cup {None},
     sev : Severities \cup {None}, resolved : Booleans, ts : 0..MaxTime,
     left : Seq(Destinations), todo : SUBSET Notification, clients : SUBSET Destinations,
     cur : Notification \cup {None}]

Simple ==
    /\ primary \in up \cup {None} /\ up \subseteq Replicas
    /\ now \in 1..MaxTime /\ checked \in [Replicas -> 0..MaxTime]
    /\ route \in Routes /\ severity \in Severities /\ clients \subseteq Destinations
    /\ alerts \in [Alerts -> [state : {"none", "firing", "resolved"},
                              sev : Severities \cup {None}]]
    /\ \A a \in Alerts : alerts[a].state = "firing" => alerts[a].sev \in Severities
    /\ pages \subseteq Pagers \X Keys
    /\ lost \in BOOLEAN /\ requests \in 0..MaxRequests /\ faults \in 0..MaxFaults
    /\ thread \in [Threads -> Locals]

\* What the steps of passes depend on.
Passes ==
    /\ Rows /\ \A p \in Threads : Holds(p)
    /\ Noted /\ Once /\ NoneDropped
    /\ Ordered /\ InOrder /\ Late /\ KeyKept /\ Threaded

\* What their control depends on.
Control == (\A p \in Threads : Puts(p)) /\ PrimaryWorks /\ OneSends

IInv == Simple /\ Control /\ Passes

-----------------------------------------------------------------------------
(* What the operators of the model do to a row, a history and a thread *)

LEMMA RowFacts ==
  ASSUME Rows
  PROVE  /\ Len(outbox) \in Nat /\ Ids = 1..Len(outbox) /\ DOMAIN hist = Ids
         /\ \A i \in Ids : outbox[i] \in Notification /\ hist[i] \in Histories
  BY DEF Rows, Ids

\* A function on the first n numbers is a sequence.
LEMMA IsSequence ==
  ASSUME NEW S, NEW n \in Nat, NEW f \in [1..n -> S]
  PROVE  f \in Seq(S) /\ Len(f) = n
  OBVIOUS

\* What is left of the destinations after the first one.
LEMMA HeadAndTail ==
  ASSUME NEW S, NEW s \in Seq(S), s # <<>>
  PROVE  /\ Head(s) \in S
         /\ Len(s) > 1 => Tail(s) \in Seq(S) /\ Tail(s) # <<>>
<1>1. Head(s) \in S
  OBVIOUS
<1>2. ASSUME Len(s) > 1 PROVE Tail(s) \in Seq(S) /\ Len(Tail(s)) = Len(s) - 1
  BY <1>2
<1>3. Len(s) \in Nat /\ Len(<<>>) = 0
  OBVIOUS
<1>4. ASSUME Len(s) > 1 PROVE Tail(s) # <<>>
  <2> DEFINE t == Tail(s)
  <2>1. Len(t) = Len(s) - 1
    BY <1>2, <1>4
  <2> HIDE DEF t
  <2>z. PICK l, z : l = Len(s) /\ z = Len(<<>>)
    OBVIOUS
  <2>l. l \in Nat /\ z = 0 /\ l > 1 /\ Len(t) = l - 1
    BY <2>z, <2>1, <1>3, <1>4
  <2>2. Len(t) # Len(<<>>)
    BY <2>z, <2>l, SMTT(60)
  <2>3. t # <<>>
    BY <2>2
  <2> QED BY <2>3 DEF t
<1> QED BY <1>1, <1>2, <1>4

LEMMA IdleType ==
  /\ Idle \in Locals /\ Idle.pc = "idle" /\ Idle.todo = {}
  /\ [Idle EXCEPT !.pc = "lock"] \in Locals
  /\ [Idle EXCEPT !.pc = "lock"].pc = "lock" /\ [Idle EXCEPT !.pc = "lock"].todo = {}
<1>1. <<>> \in Seq(Destinations) /\ 0 \in 0..MaxTime
  OBVIOUS
<1>2. FALSE \in Booleans
  BY DEF Booleans
<1> QED BY <1>1, <1>2 DEF Idle, Locals

LEMMA LoopType ==
  ASSUME NEW t \in Locals
  PROVE  /\ Loop(t) \in Locals /\ Loop(t).todo = t.todo
         /\ Loop(t).pc = IF t.todo = {} THEN "idle" ELSE "send"
         /\ t.todo # {} => Loop(t).clients = t.clients
  BY IdleType DEF Loop, Locals

\* A history that was given a note.
LEMMA NoteEffect ==
  ASSUME Rows, NEW ids, NEW what \in Notes
  PROVE  /\ Note(ids, what) \in Seq(Histories) /\ Len(Note(ids, what)) = Len(outbox)
         /\ \A i \in Ids :
              /\ Note(ids, what)[i].delivered = hist[i].delivered
              /\ Note(ids, what)[i].reply = hist[i].reply
              /\ i \in ids => Note(ids, what)[i].notes = hist[i].notes \cup {what}
              /\ i \notin ids => Note(ids, what)[i].notes = hist[i].notes
<1>1. ASSUME NEW h \in Histories
      PROVE  /\ [h EXCEPT !.notes = @ \cup {what}] \in Histories
             /\ [h EXCEPT !.notes = @ \cup {what}].delivered = h.delivered
             /\ [h EXCEPT !.notes = @ \cup {what}].reply = h.reply
             /\ [h EXCEPT !.notes = @ \cup {what}].notes = h.notes \cup {what}
  BY DEF Histories
<1>2. \A i \in Ids : Note(ids, what)[i] = IF i \in ids THEN [hist[i] EXCEPT !.notes = @ \cup {what}]
                                          ELSE hist[i]
  BY DEF Note
<1>3. \A i \in Ids : Note(ids, what)[i] \in Histories
  BY <1>1, <1>2, RowFacts, ZenonT(60)
<1>4. Note(ids, what) \in [1..Len(outbox) -> Histories]
  BY <1>3, RowFacts DEF Note
<1>5. Note(ids, what) \in Seq(Histories) /\ Len(Note(ids, what)) = Len(outbox)
  BY <1>4, RowFacts, IsSequence
<1>6. ASSUME NEW i \in Ids
      PROVE  /\ Note(ids, what)[i].delivered = hist[i].delivered
             /\ Note(ids, what)[i].reply = hist[i].reply
             /\ i \in ids => Note(ids, what)[i].notes = hist[i].notes \cup {what}
             /\ i \notin ids => Note(ids, what)[i].notes = hist[i].notes
  <2>1. hist[i] \in Histories
    BY RowFacts
  <2> QED BY <1>1, <1>2, <2>1
<1> QED BY <1>5, <1>6

\* A history of which something was delivered.
LEMMA DeliverEffect ==
  ASSUME Rows, NEW n, n.id \in Ids, NEW reply \in Booleans, NEW notes \in SUBSET Notes,
         Deliver(n, reply, notes)
  PROVE  /\ hist' \in Seq(Histories) /\ Len(hist') = Len(outbox)
         /\ \A i \in Ids : i # n.id => hist'[i] = hist[i]
         /\ hist'[n.id].delivered = hist[n.id].delivered + 1
         /\ hist'[n.id].reply = reply
         /\ hist'[n.id].notes = hist[n.id].notes \cup notes
<1> DEFINE h == [hist[n.id] EXCEPT !.delivered = @ + 1, !.reply = reply, !.notes = @ \cup notes]
<1>1. hist' = [hist EXCEPT ![n.id] = h]
  BY DEF Deliver
<1>2. hist[n.id] \in Histories
  BY RowFacts
<1>3. h \in Histories /\ h.delivered = hist[n.id].delivered + 1 /\ h.reply = reply
      /\ h.notes = hist[n.id].notes \cup notes
  <2>1. hist[n.id].delivered + 1 \in Nat /\ hist[n.id].notes \cup notes \in SUBSET Notes
    BY <1>2, SMTT(60) DEF Histories
  <2> DEFINE x == hist[n.id]
             d == x.delivered + 1
             s == x.notes \cup notes
  <2>3. h = [x EXCEPT !.delivered = d, !.reply = reply, !.notes = s]
    OBVIOUS
  <2> HIDE DEF x, d, s
  <2>4. x \in Histories /\ d \in Nat /\ s \in SUBSET Notes
    BY <1>2, <2>1 DEF x, d, s
  <2>5. /\ [x EXCEPT !.delivered = d, !.reply = reply, !.notes = s] \in Histories
        /\ [x EXCEPT !.delivered = d, !.reply = reply, !.notes = s].delivered = d
        /\ [x EXCEPT !.delivered = d, !.reply = reply, !.notes = s].reply = reply
        /\ [x EXCEPT !.delivered = d, !.reply = reply, !.notes = s].notes = s
    BY <2>4 DEF Histories
  <2> HIDE DEF h
  <2> QED BY <2>3, <2>5 DEF x, d, s
<1> HIDE DEF h
<1>4. hist' \in [1..Len(outbox) -> Histories]
  BY <1>1, <1>3, RowFacts
<1>5. hist' \in Seq(Histories) /\ Len(hist') = Len(outbox)
  BY <1>4, RowFacts, IsSequence
<1> QED BY <1>1, <1>3, <1>5, RowFacts

\* The rows after UpdateAlertNotification.
LEMMA RecordedEffect ==
  ASSUME Rows, NEW n \in Notification, NEW o, o = Recorded(n)
  PROVE  /\ o \in Seq(Notification) /\ Len(o) = Len(outbox)
         /\ \A i \in Ids :
              /\ o[i].id = outbox[i].id /\ o[i].alert = outbox[i].alert
              /\ o[i].dest = outbox[i].dest /\ o[i].ts = outbox[i].ts
              /\ o[i].sent <=> (outbox[i].sent \/ SameKey(outbox[i], n))
              /\ SameKey(outbox[i], n) => o[i].key = n.key
              /\ ~SameKey(outbox[i], n) => o[i].key = outbox[i].key
<1>1. ASSUME NEW m \in Notification
      PROVE  /\ [m EXCEPT !.sent = TRUE, !.key = n.key] \in Notification
             /\ [m EXCEPT !.sent = TRUE, !.key = n.key].id = m.id
             /\ [m EXCEPT !.sent = TRUE, !.key = n.key].alert = m.alert
             /\ [m EXCEPT !.sent = TRUE, !.key = n.key].dest = m.dest
             /\ [m EXCEPT !.sent = TRUE, !.key = n.key].ts = m.ts
             /\ [m EXCEPT !.sent = TRUE, !.key = n.key].sent = TRUE
             /\ [m EXCEPT !.sent = TRUE, !.key = n.key].key = n.key
  BY DEF Notification
<1>2. \A i \in Ids : o[i] = IF SameKey(outbox[i], n)
                                      THEN [outbox[i] EXCEPT !.sent = TRUE, !.key = n.key]
                                      ELSE outbox[i]
  BY DEF Recorded
<1>3. \A i \in Ids : o[i] \in Notification
  BY <1>1, <1>2, RowFacts, ZenonT(60)
<1>4. o \in [1..Len(outbox) -> Notification]
  BY <1>3, RowFacts DEF Recorded
<1>5. o \in Seq(Notification) /\ Len(o) = Len(outbox)
  BY <1>4, RowFacts, IsSequence
<1>6. ASSUME NEW i \in Ids
      PROVE  /\ o[i].id = outbox[i].id /\ o[i].alert = outbox[i].alert
             /\ o[i].dest = outbox[i].dest /\ o[i].ts = outbox[i].ts
             /\ o[i].sent <=> (outbox[i].sent \/ SameKey(outbox[i], n))
             /\ SameKey(outbox[i], n) => o[i].key = n.key
             /\ ~SameKey(outbox[i], n) => o[i].key = outbox[i].key
  <2>1. outbox[i] \in Notification
    BY RowFacts
  <2>2. CASE SameKey(outbox[i], n)
    BY <1>1, <1>2, <2>1, <2>2, ZenonT(60)
  <2>3. CASE ~SameKey(outbox[i], n)
    BY <1>2, <2>3
  <2> QED BY <2>2, <2>3
<1> QED BY <1>5, <1>6

-----------------------------------------------------------------------------
(* Steps that only add to what is known of a row *)

\* Rows are added, and nothing that was written to one is taken back.
Grown ==
    /\ Rows' /\ now \in Nat /\ now' \in Nat /\ now <= now'
    /\ Len(outbox) <= Len(outbox')
    /\ \A i \in Ids : /\ SameKey(outbox'[i], outbox[i])
                      /\ outbox[i].sent => outbox'[i].sent
                      /\ hist[i].notes \subseteq hist'[i].notes
                      /\ hist[i].delivered <= hist'[i].delivered
    /\ \A i \in Ids' \ Ids : /\ ~outbox'[i].sent
                             /\ hist'[i].delivered = 0 /\ hist'[i].notes = {}

LEMMA GrownFacts ==
  ASSUME Rows, Grown
  PROVE  /\ Ids \subseteq Ids'
         /\ \A i \in Ids' : \A j \in Ids : i < j => i \in Ids
         /\ \A i \in Ids : /\ Settled(i) => Settled(i)'
                           /\ Told(i) => Told(i)'
                           /\ Clean(i)' => Clean(i)
                           /\ hist'[i].notes = {} => hist[i].notes = {}
                           /\ Unique(i)' => Unique(i)
         /\ \A i \in Ids : \A n : Earlier(i, n)' <=> Earlier(i, n)
<1>1. /\ Len(outbox) \in Nat /\ Ids = 1..Len(outbox)
      /\ \A i \in Ids : outbox[i] \in Notification /\ hist[i] \in Histories
  BY RowFacts
<1>2. Len(outbox') \in Nat /\ Ids' = 1..Len(outbox')
      /\ \A i \in Ids' : outbox'[i] \in Notification /\ hist'[i] \in Histories
  BY DEF Grown, Rows, Ids
<1>3. Ids \subseteq Ids' /\ \A i \in Ids' : \A j \in Ids : i < j => i \in Ids
  BY <1>1, <1>2 DEF Grown
<1>4. ASSUME NEW i \in Ids
      PROVE  /\ Settled(i) => Settled(i)'
             /\ Told(i) => Told(i)'
  <2>1. hist[i].delivered \in Nat /\ hist'[i].delivered \in Nat /\ outbox[i].ts \in Nat
    BY <1>1, <1>2, <1>3 DEF Histories, Notification
  <2>2. outbox'[i].ts = outbox[i].ts
    BY DEF Grown, SameKey
  <2>3. Told(i) => Told(i)'
    BY <2>1, SMTT(60) DEF Grown, Told
  <2>4. Expired(outbox[i]) => Expired(outbox[i])'
    BY <2>1, <2>2 DEF Grown, Expired
  <2> QED BY <2>3, <2>4 DEF Grown, Settled
<1>5. \A i \in Ids : /\ Clean(i)' => Clean(i)
                     /\ hist'[i].notes = {} => hist[i].notes = {}
  BY DEF Grown, Clean
<1>6. \A i \in Ids : Unique(i)' => Unique(i)
  BY <1>3 DEF Grown, Unique, SameKey
<1>7. \A i \in Ids : \A n : Earlier(i, n)' <=> Earlier(i, n)
  BY DEF Grown, SameKey, Earlier
<1> QED BY <1>3, <1>4, <1>5, <1>6, <1>7

\* What a step may do to the hands of a thread: put away what it holds, and take
\* for its cur a row it had to send.
Shrinks(q) ==
    /\ thread'[q].todo \subseteq thread[q].todo
    /\ thread'[q].todo # {} => Sending(q)' /\ thread'[q].clients = thread[q].clients
    /\ Sending(q)' => Sending(q)
    /\ thread'[q].pc = "mark" =>
         \/ thread[q].pc = "mark" /\ thread'[q].cur = thread[q].cur
         \/ /\ thread'[q].cur \in Notification
            /\ thread'[q].cur.id \in ToSend(q) /\ thread'[q].cur.id \notin ToSend(q)'
            /\ SameKey(outbox[thread'[q].cur.id], thread'[q].cur)
            /\ (Told(thread[q].cur.id) \/ "no client" \in hist[thread[q].cur.id].notes)'
            /\ (\/ thread[q].cur.dest \notin Slacks \/ thread[q].cur.key = Posted
                \/ "no client" \in hist[thread[q].cur.id].notes)'

LEMMA HoldsKept ==
  ASSUME Rows, Grown, NEW q \in Threads, Holds(q), Shrinks(q)
  PROVE  /\ Holds(q)' /\ ToSend(q)' \subseteq ToSend(q) /\ Held(q)' \subseteq Held(q)
<1>1. Ids \subseteq Ids' /\ \A i \in Ids : Told(i) => Told(i)'
  BY GrownFacts
<1>2. ToSend(q)' \subseteq ToSend(q)
  BY DEF Shrinks, ToSend
<1>3. \A n : RowOf(n) => RowOf(n)'
  BY <1>1 DEF RowOf, Grown, SameKey
<1>4. ~Sending(q)' => thread'[q].todo = {}
  BY DEF Shrinks
<1>5. /\ \A n \in thread'[q].todo : RowOf(n)'
      /\ \A m, n \in thread'[q].todo : m.id = n.id => m = n
  BY <1>3 DEF Shrinks, Holds
<1>6. CASE thread'[q].pc # "mark"
  <2>1. Holds(q)'
    BY <1>4, <1>5, <1>6 DEF Holds
  <2> QED BY <2>1, <1>2, <1>6 DEF Held, ToSend
<1>7. CASE thread'[q].pc = "mark" /\ thread[q].pc = "mark" /\ thread'[q].cur = thread[q].cur
  <2>1. RowOf(thread[q].cur) /\ thread[q].cur.id \in Ids
    BY <1>7 DEF Holds, RowOf
  <2>2. RowOf(thread[q].cur)'
    BY <1>3, <1>7, <2>1
  <2>3. hist[thread[q].cur.id].notes \subseteq hist'[thread[q].cur.id].notes
    BY <2>1 DEF Grown
  <2>4. Holds(q)'
    BY <1>1, <1>2, <1>4, <1>5, <1>7, <2>1, <2>2, <2>3 DEF Holds
  <2> QED BY <1>2, <1>7, <2>4 DEF Held, ToSend
<1>8. CASE /\ thread'[q].pc = "mark" /\ thread'[q].cur \in Notification
           /\ thread'[q].cur.id \in ToSend(q) /\ thread'[q].cur.id \notin ToSend(q)'
           /\ SameKey(outbox[thread'[q].cur.id], thread'[q].cur)
           /\ (Told(thread[q].cur.id) \/ "no client" \in hist[thread[q].cur.id].notes)'
           /\ (\/ thread[q].cur.dest \notin Slacks \/ thread[q].cur.key = Posted
               \/ "no client" \in hist[thread[q].cur.id].notes)'
  <2>1. thread'[q].cur.id \in Ids
    BY <1>8 DEF ToSend, Holds, RowOf
  <2>2. RowOf(thread[q].cur)'
    BY <1>1, <1>8, <2>1 DEF RowOf, Grown, SameKey
  <2>3. Holds(q)'
    BY <1>4, <1>5, <1>8, <2>2 DEF Holds
  <2> QED BY <1>2, <1>8, <2>3 DEF Held, ToSend
<1> QED BY <1>6, <1>7, <1>8 DEF Shrinks

\* What a pass no longer has to send is settled, or nothing is left for its
\* destination.
PutAway(q) ==
    \A n \in thread'[q].todo : \A i \in Ids :
        Earlier(i, n) /\ i \in ToSend(q) /\ i \notin ToSend(q)' =>
            Settled(i)' \/ n.dest \notin thread[q].clients

LEMMA HandsKept ==
  ASSUME Passes, Grown, \A q \in Threads : Shrinks(q) /\ PutAway(q)
  PROVE  (\A q \in Threads : Holds(q))' /\ Noted' /\ Ordered'
<1>1. \A q \in Threads : Holds(q)' /\ ToSend(q)' \subseteq ToSend(q) /\ Held(q)' \subseteq Held(q)
  BY HoldsKept DEF Passes
<1>2. Noted'
  <2> SUFFICES ASSUME NEW p \in Threads, NEW q \in Threads, p # q, Sending(p)', Sending(q)',
                      NEW i \in Held(p)'
               PROVE  "overlap" \in hist'[i].notes
    BY DEF Noted
  <2>1. Sending(p) /\ Sending(q) /\ i \in Held(p)
    BY <1>1 DEF Shrinks
  <2>2. "overlap" \in hist[i].notes
    BY <2>1 DEF Passes, Noted
  <2>3. i \in Ids
    <3>1. Holds(p)
      BY DEF Passes
    <3> QED BY <2>1, <3>1, ZenonT(60) DEF Held, Holds, RowOf
  <2> QED BY <2>2, <2>3 DEF Grown
<1>3. Ordered'
  <2> SUFFICES ASSUME NEW q \in Threads, NEW n \in thread'[q].todo, NEW i \in Ids', Earlier(i, n)'
               PROVE  Settled(i)' \/ i \in ToSend(q)' \/ n.dest \notin thread'[q].clients
    BY DEF Ordered
  <2>1. n \in thread[q].todo /\ thread'[q].clients = thread[q].clients
    BY DEF Shrinks
  <2>2. n.id \in Ids
    BY <2>1 DEF Passes, Holds, RowOf
  <2>3. i \in Ids /\ Earlier(i, n)
    BY <2>2, GrownFacts DEF Passes, Earlier
  <2>4. Settled(i) \/ i \in ToSend(q) \/ n.dest \notin thread[q].clients
    BY <2>1, <2>3 DEF Passes, Ordered
  <2>5. Settled(i) => Settled(i)'
    BY <2>3, GrownFacts DEF Passes
  <2> QED BY <2>1, <2>3, <2>4, <2>5 DEF PutAway
<1> QED BY <1>1, <1>2, <1>3

\* What is marked after the step is what was told; what is no longer marked by a
\* thread is marked in the table, or could not be.
Marked ==
    /\ \A i \in Ids : outbox'[i].sent /\ ~outbox[i].sent =>
         \E j \in Ids : /\ SameKey(outbox[i], outbox[j])
                        /\ Told(j) \/ "no client" \in hist[j].notes
    /\ \A q \in Threads, i \in Ids : Marks(q, i) =>
         \/ Marks(q, i)' /\ thread'[q].cur.key = thread[q].cur.key
         \/ outbox'[i].sent /\ (thread[q].cur.key = Posted => outbox'[i].key = Posted)
         \/ ~Clean(i)'
    /\ \A i \in Ids : Unique(i) /\ hist'[i].notes = {} /\ outbox[i].key = Posted
         /\ outbox[i].dest \in Slacks /\ Told(i) => outbox'[i].key = Posted

LEMMA NoneDroppedKept ==
  ASSUME Passes, Grown, Marked
  PROVE  NoneDropped'
<1> SUFFICES ASSUME NEW i \in Ids', outbox'[i].sent
             PROVE  \E j \in Ids' : /\ SameKey(outbox'[i], outbox'[j])
                                    /\ Told(j)' \/ "no client" \in hist'[j].notes
  BY DEF NoneDropped, Told
<1>1. i \in Ids
  BY DEF Grown
<1>2. PICK j \in Ids : SameKey(outbox[i], outbox[j]) /\ (Told(j) \/ "no client" \in hist[j].notes)
  BY <1>1 DEF Passes, NoneDropped, Marked, Told
<1>3. SameKey(outbox'[i], outbox'[j])
  BY <1>1, <1>2 DEF Grown, SameKey
<1>4. j \in Ids' /\ (Told(j)' \/ "no client" \in hist'[j].notes)
  BY <1>2, GrownFacts DEF Passes, Grown
<1> QED BY <1>3, <1>4

\* A step that delivers nothing: what was told, and how, stays as it was.
LEMMA UntoldKept ==
  ASSUME Passes, Grown, Marked,
         \A i \in Ids : hist'[i].delivered = hist[i].delivered /\ hist'[i].reply = hist[i].reply
  PROVE  InOrder' /\ KeyKept' /\ Threaded'
<1>g. /\ Ids \subseteq Ids' /\ \A i \in Ids' : \A j \in Ids : i < j => i \in Ids
      /\ \A i \in Ids : /\ Settled(i) => Settled(i)'
                        /\ Told(i)' <=> Told(i)
                        /\ Clean(i)' => Clean(i)
                        /\ hist'[i].notes = {} => hist[i].notes = {}
                        /\ Unique(i)' => Unique(i)
      /\ \A i \in Ids : \A n : Earlier(i, n)' <=> Earlier(i, n)
  BY GrownFacts DEF Passes, Told
<1>n. \A i \in Ids' : Told(i)' => i \in Ids
  BY DEF Grown, Told
<1>k. \A i \in Ids : /\ outbox'[i].alert = outbox[i].alert /\ outbox'[i].dest = outbox[i].dest
                     /\ outbox'[i].ts = outbox[i].ts /\ outbox'[i].id = i /\ outbox[i].id = i
  BY <1>g DEF Grown, SameKey, Rows, Passes
<1>1. InOrder'
  <2> SUFFICES ASSUME NEW i \in Ids', NEW j \in Ids', i < j, outbox'[i].alert = outbox'[j].alert,
                      outbox'[i].dest = outbox'[j].dest, outbox'[i].ts < outbox'[j].ts, Told(j)'
               PROVE  Settled(i)'
    BY DEF InOrder, Settled, Told
  <2>1. i \in Ids /\ j \in Ids /\ Told(j)
    BY <1>g, <1>n
  <2>2. Settled(i)
    BY <1>k, <2>1 DEF Passes, InOrder, Settled, Told
  <2> QED BY <1>g, <2>1, <2>2
<1>2. KeyKept'
  <2> SUFFICES ASSUME NEW i \in Ids', outbox'[i].dest \in Slacks, Told(i)', hist'[i].notes = {},
                      Unique(i)'
               PROVE  \/ outbox'[i].key = Posted
                      \/ \E p \in Threads : Marks(p, i)' /\ thread'[p].cur.key = Posted
    BY DEF KeyKept
  <2>1. i \in Ids /\ outbox[i].dest \in Slacks /\ Told(i) /\ hist[i].notes = {} /\ Unique(i)
    BY <1>g, <1>n, <1>k
  <2>2. \/ outbox[i].key = Posted
        \/ \E p \in Threads : Marks(p, i) /\ thread[p].cur.key = Posted
    BY <2>1 DEF Passes, KeyKept
  <2>3. Clean(i)'
    BY DEF Clean
  <2> QED BY <2>1, <2>2, <2>3 DEF Marked
<1>3. Threaded'
  <2> SUFFICES ASSUME NEW i \in Ids', NEW j \in Ids', i < j, outbox'[i].alert = outbox'[j].alert,
                      outbox'[i].dest = outbox'[j].dest, outbox'[i].dest \in Slacks,
                      outbox'[i].ts < outbox'[j].ts, Told(i)', hist'[i].notes = {},
                      Told(j)', hist'[j].notes = {}, Unique(i)'
               PROVE  hist'[j].reply
    BY DEF Threaded, Told, Unique
  <2>1. i \in Ids /\ j \in Ids /\ Told(i) /\ Told(j) /\ hist[i].notes = {} /\ hist[j].notes = {}
        /\ Unique(i)
    BY <1>g, <1>n
  <2>2. hist[j].reply
    BY <1>k, <2>1 DEF Passes, Threaded, Told, Unique
  <2> QED BY <2>1, <2>2
<1> QED BY <1>1, <1>2, <1>3

\* One that reads nothing either.
LEMMA Undelivered ==
  ASSUME Passes, Grown, Marked, \A q \in Threads : Shrinks(q) /\ PutAway(q),
         \A i \in Ids : hist'[i].delivered = hist[i].delivered /\ hist'[i].reply = hist[i].reply
  PROVE  Passes'
<1>g. /\ Ids \subseteq Ids' /\ \A i \in Ids' : \A j \in Ids : i < j => i \in Ids
      /\ \A i \in Ids : /\ Settled(i) => Settled(i)'
                        /\ Told(i)' <=> Told(i)
                        /\ Clean(i)' => Clean(i)
                        /\ hist'[i].notes = {} => hist[i].notes = {}
                        /\ Unique(i)' => Unique(i)
      /\ \A i \in Ids : \A n : Earlier(i, n)' <=> Earlier(i, n)
  BY GrownFacts DEF Passes, Told
<1>n. \A i \in Ids' : Told(i)' => i \in Ids
  BY DEF Grown, Told
<1>k. \A i \in Ids : /\ outbox'[i].alert = outbox[i].alert /\ outbox'[i].dest = outbox[i].dest
                     /\ outbox'[i].ts = outbox[i].ts /\ outbox'[i].id = i /\ outbox[i].id = i
  BY <1>g DEF Grown, SameKey, Rows, Passes
<1>t. \A q \in Threads : ToSend(q)' \subseteq ToSend(q)
  BY HoldsKept DEF Passes
<1>1. /\ (\A q \in Threads : Holds(q))' /\ Noted' /\ Ordered' /\ NoneDropped' /\ Rows'
      /\ InOrder' /\ KeyKept' /\ Threaded'
  BY HandsKept, NoneDroppedKept, UntoldKept DEF Grown
<1>2. Once'
  <2> SUFFICES ASSUME NEW i \in Ids', Told(i)', Clean(i)'
               PROVE  /\ hist'[i].delivered = 1
                      /\ outbox'[i].sent \/ \E p \in Threads : Marks(p, i)'
                      /\ \A p \in Threads : i \notin ToSend(p)'
    BY DEF Once
  <2>1. i \in Ids /\ Told(i) /\ Clean(i)
    BY <1>g, <1>n
  <2>2. /\ hist[i].delivered = 1
        /\ outbox[i].sent \/ \E p \in Threads : Marks(p, i)
        /\ \A p \in Threads : i \notin ToSend(p)
    BY <2>1 DEF Passes, Once
  <2>3. outbox'[i].sent \/ \E p \in Threads : Marks(p, i)'
    BY <2>1, <2>2 DEF Marked, Grown
  <2> QED BY <1>t, <2>1, <2>2, <2>3
<1>3. Late'
  <2> SUFFICES ASSUME NEW i \in Ids', NEW j \in Ids', Earlier(i, outbox[j])', Told(j)',
                      NEW p \in Threads, i \in ToSend(p)'
               PROVE  hist'[i].notes # {}
    BY DEF Late
  <2>1. j \in Ids /\ Told(j) /\ i < j
    BY <1>g, <1>n, <1>k DEF Earlier
  <2>2. i \in Ids /\ Earlier(i, outbox[j]) /\ i \in ToSend(p)
    BY <1>g, <1>k, <1>t, <2>1 DEF Earlier
  <2> QED BY <1>g, <2>1, <2>2 DEF Passes, Late
<1> QED BY <1>1, <1>2, <1>3 DEF Passes

\* A step of p that delivers n.  Clean is what nobody else has in its hands, so it
\* was not told before; what comes before it is not left to send, so it is settled.
LEMMA Delivery ==
  ASSUME Passes, Grown, Marked, \A q \in Threads : Shrinks(q) /\ PutAway(q),
         NEW p \in Threads, NEW n \in Reached(p), thread[p].pc = "send",
         n.dest \in thread[p].clients, outbox' = outbox,
         \A i \in Ids : i # n.id => hist'[i] = hist[i],
         hist'[n.id].delivered = hist[n.id].delivered + 1,
         n.id \notin ToSend(p)',
         Clean(n.id)' => Marks(p, n.id)' /\ (n.dest \in Slacks => thread'[p].cur.key = Posted),
         hist'[n.id].notes = {} => hist'[n.id].reply = HasThread(n)
  PROVE  Passes'
<1> DEFINE k == n.id
<1>r. /\ n \in thread[p].todo /\ k \in ToSend(p) /\ RowOf(n) /\ k \in Ids /\ Sending(p)
      /\ k \in Held(p) /\ outbox[k].alert = n.alert /\ outbox[k].dest = n.dest
      /\ outbox[k].ts = n.ts /\ outbox[k].id = k
  BY ZenonT(60) DEF Reached, ToSend, Passes, Holds, RowOf, SameKey, Sending, Held, Rows
<1>g. /\ Ids' = Ids
      /\ \A i \in Ids : /\ Settled(i) => Settled(i)'
                        /\ Told(i) => Told(i)'
                        /\ i # k => (Told(i)' <=> Told(i))
                        /\ Clean(i)' => Clean(i)
                        /\ hist'[i].notes = {} => hist[i].notes = {}
                        /\ Unique(i)' <=> Unique(i)
                        /\ outbox[i].id = i
      /\ \A i, m : Earlier(i, m)' <=> Earlier(i, m)
  <2>1. Ids' = Ids
    BY DEF Ids
  <2>2. \A i \in Ids : outbox[i].id = i
    BY DEF Passes, Rows
  <2>3. \A i \in Ids : Unique(i)' <=> Unique(i)
    BY <2>1 DEF Unique
  <2> QED BY <2>1, <2>2, <2>3, GrownFacts DEF Passes, Told, Earlier
<1>t. \A q \in Threads : ToSend(q)' \subseteq ToSend(q)
  BY HoldsKept DEF Passes
<1>o. \* what another pass holds is noted
      ASSUME NEW q \in Threads, q # p, Sending(q), NEW i \in Held(q) \cup Held(p)
      PROVE  "overlap" \in hist[i].notes
  BY <1>o, <1>r DEF Passes, Noted
<1>s. \* a thread that has something to send is sending
      \A q \in Threads : \A i : i \in ToSend(q) => Sending(q) /\ i \in Held(q)
  BY DEF ToSend, Passes, Holds, Held
<1>b. \* nothing that comes before n is left to send
      ASSUME NEW i \in Ids, Earlier(i, n) PROVE i \notin ToSend(p) /\ Settled(i)
  <2>1. i \notin ToSend(p)
    <3> SUFFICES ASSUME NEW m \in thread[p].todo, m.id = i PROVE FALSE
      BY DEF ToSend
    <3>1. RowOf(m)
      BY DEF Passes, Holds
    <3>2. m.alert = n.alert /\ m.ts < n.ts
      BY <1>b, <3>1 DEF RowOf, SameKey, Earlier
    <3> QED BY <3>2 DEF Reached, Before
  <2> QED BY <1>b, <1>r, <2>1 DEF Passes, Ordered
<1>1. (\A q \in Threads : Holds(q))' /\ Noted' /\ Ordered' /\ NoneDropped' /\ Rows'
  BY HandsKept, NoneDroppedKept DEF Grown
<1>2. Once'
  <2> SUFFICES ASSUME NEW i \in Ids, Told(i)', Clean(i)'
               PROVE  /\ hist'[i].delivered = 1
                      /\ outbox'[i].sent \/ \E q \in Threads : Marks(q, i)'
                      /\ \A q \in Threads : i \notin ToSend(q)'
    BY <1>g DEF Once
  <2>1. CASE i = k
    <3>1. ~Told(k)
      BY <2>1, <1>r, <1>g DEF Passes, Once
    <3>2. hist[k].delivered \in Nat
      BY <1>r, RowFacts DEF Passes, Histories
    <3>3. hist'[k].delivered = 1
      BY <3>1, <3>2 DEF Told
    <3>4. \A q \in Threads : k \notin ToSend(q)'
      BY <1>t, <1>s, <1>o, <1>r, <1>g, <2>1 DEF Clean
    <3> QED BY <2>1, <3>3, <3>4
  <2>2. CASE i # k
    <3>1. Told(i) /\ Clean(i)
      BY <2>2, <1>g
    <3>2. /\ hist[i].delivered = 1
          /\ outbox[i].sent \/ \E q \in Threads : Marks(q, i)
          /\ \A q \in Threads : i \notin ToSend(q)
      BY <3>1 DEF Passes, Once
    <3>3. outbox'[i].sent \/ \E q \in Threads : Marks(q, i)'
      BY <3>2 DEF Marked
    <3> QED BY <2>2, <1>t, <3>2, <3>3
  <2> QED BY <2>1, <2>2
<1>3. InOrder'
  <2> SUFFICES ASSUME NEW i \in Ids, NEW j \in Ids, i < j, outbox[i].alert = outbox[j].alert,
                      outbox[i].dest = outbox[j].dest, outbox[i].ts < outbox[j].ts, Told(j)'
               PROVE  Settled(i)'
    BY <1>g DEF InOrder, Settled, Told
  <2>1. CASE j = k
    <3>1. Earlier(i, n)
      BY <2>1, <1>r DEF Earlier
    <3> QED BY <3>1, <1>b, <1>g
  <2>2. CASE j # k
    <3>1. Settled(i)
      BY <2>2, <1>g DEF Passes, InOrder, Settled, Told
    <3> QED BY <3>1, <1>g
  <2> QED BY <2>1, <2>2
<1>4. Late'
  <2> SUFFICES ASSUME NEW i \in Ids, NEW j \in Ids, Earlier(i, outbox[j]), Told(j)',
                      NEW q \in Threads, i \in ToSend(q)'
               PROVE  hist'[i].notes # {}
    BY <1>g DEF Late
  <2>1. i \in ToSend(q)
    BY <1>t
  <2>2. hist[i].notes # {}
    <3>1. CASE j = k
      <4>1. Earlier(i, n)
        BY <3>1, <1>r DEF Earlier
      <4>2. q # p
        BY <4>1, <2>1, <1>b
      <4> QED BY <4>2, <2>1, <1>s, <1>o
    <3>2. CASE j # k
      BY <3>2, <2>1, <1>g DEF Passes, Late
    <3> QED BY <3>1, <3>2
  <2> QED BY <2>2, <1>g
<1>5. KeyKept'
  <2> SUFFICES ASSUME NEW i \in Ids, outbox[i].dest \in Slacks, Told(i)', hist'[i].notes = {},
                      Unique(i)
               PROVE  \/ outbox'[i].key = Posted
                      \/ \E q \in Threads : Marks(q, i)' /\ thread'[q].cur.key = Posted
    BY <1>g DEF KeyKept
  <2>c. Clean(i)'
    BY DEF Clean
  <2>1. CASE i = k
    BY <2>1, <2>c, <1>r
  <2>2. CASE i # k
    <3>1. \/ outbox[i].key = Posted
          \/ \E q \in Threads : Marks(q, i) /\ thread[q].cur.key = Posted
      BY <2>2, <1>g DEF Passes, KeyKept
    <3> QED BY <3>1, <2>c DEF Marked
  <2> QED BY <2>1, <2>2
<1>6. Threaded'
  <2> SUFFICES ASSUME NEW i \in Ids, NEW j \in Ids, i < j, outbox[i].alert = outbox[j].alert,
                      outbox[i].dest = outbox[j].dest, outbox[i].dest \in Slacks,
                      outbox[i].ts < outbox[j].ts, Told(i)', hist'[i].notes = {},
                      Told(j)', hist'[j].notes = {}, Unique(i)
               PROVE  hist'[j].reply
    BY <1>g DEF Threaded, Told, Unique
  <2>e. Earlier(i, outbox[j])
    BY <1>g DEF Earlier
  <2>1. CASE i = k
    <3>0. j # k
      BY <2>1, RowFacts DEF Passes
    <3>1. Told(j) /\ hist[i].notes = {}
      BY <3>0, <1>g
    <3> QED BY <3>1, <2>e, <2>1, <1>r DEF Passes, Late
  <2>2. CASE i # k /\ j = k
    <3>1. Told(i) /\ hist[i].notes = {}
      BY <2>2, <1>g
    <3>2. \A q \in Threads : ~Marks(q, i)
      <4> SUFFICES ASSUME NEW q \in Threads, Marks(q, i) PROVE FALSE
        OBVIOUS
      <4>1. q # p /\ Sending(q) /\ i \in Held(q)
        BY DEF Marks, Sending, Held
      <4> QED BY <4>1, <3>1, <1>o
    <3>3. outbox[i].key = Posted
      BY <3>1, <3>2 DEF Passes, KeyKept
    <3>4. outbox[i] \in Previous(n)
      BY <2>2, <1>r DEF Previous
    <3>5. HasThread(n)
      BY <2>2, <3>3, <3>4, <1>r DEF HasThread
    <3> QED BY <2>2, <3>5
  <2>3. CASE i # k /\ j # k
    <3>1. Told(i) /\ Told(j) /\ hist[i].notes = {} /\ hist[j].notes = {}
      BY <2>3, <1>g
    <3>2. hist[j].reply
      BY <3>1 DEF Passes, Threaded, Told, Unique
    <3> QED BY <3>2, <2>3
  <2> QED BY <2>1, <2>2, <2>3
<1> QED BY <1>1, <1>2, <1>3, <1>4, <1>5, <1>6 DEF Passes

\* The passes of other replicas, and what is in the hands of two.
Others(p) == {q \in Threads : q[1] # p[1] /\ Sending(q)}
Shared(p) == {n.id : n \in NotSent} \cup UNION {Held(q) : q \in Others(p)}

\* A pass reads what is not sent.  If another pass runs, all that either holds is
\* noted; if none does, nothing that was told is left to read.
LEMMA PassBegins ==
  ASSUME Passes, thread \in [Threads -> Locals], clients \subseteq Destinations, now \in Nat,
         NEW p \in Threads, BeginPass(p), NoFault,
         Step(p, Loop([Idle EXCEPT !.todo = NotSent, !.clients = clients])),
         hist' = IF Others(p) = {} THEN hist ELSE Note(Shared(p), "overlap")
  PROVE  Passes' /\ thread' \in [Threads -> Locals] /\ Loop([Idle EXCEPT !.todo = NotSent, !.clients = clients]).pc \in {"idle", "send"}
<1> DEFINE s == [Idle EXCEPT !.todo = NotSent, !.clients = clients]
           t == Loop(s)
<1>l. thread[p].pc = "lock" /\ LockFree(p) /\ outbox' = outbox /\ now' = now
  BY DEF BeginPass, process, tables
<1>i. Rows /\ Ids' = Ids /\ \A j \in Ids : outbox[j].id = j /\ outbox[j] \in Notification
  BY <1>l, RowFacts DEF Passes, Rows, Ids
<1>n. /\ NotSent \subseteq Notification
      /\ \A n \in NotSent : /\ n.id \in Ids /\ outbox[n.id] = n
                            /\ ~n.sent /\ ~Expired(n)
      /\ \A j \in Ids : ~outbox[j].sent /\ ~Expired(outbox[j]) => outbox[j] \in NotSent
  BY <1>i DEF NotSent
<1>s. s \in Locals /\ s.todo = NotSent /\ s.clients = clients
  BY <1>n, IdleType DEF Locals
<1> HIDE DEF s
<1>t. /\ t \in Locals /\ t.todo = NotSent /\ t.pc = IF NotSent = {} THEN "idle" ELSE "send"
      /\ NotSent # {} => t.clients = clients
  BY <1>s, LoopType
<1> HIDE DEF t
<1>1. /\ thread'[p] = t /\ thread' \in [Threads -> Locals]
      /\ \A q \in Threads : q # p => thread'[q] = thread[q]
  BY <1>t DEF Step, s, t
<1>2. /\ hist' \in Seq(Histories) /\ Len(hist') = Len(outbox)
      /\ \A i \in Ids : /\ hist'[i].delivered = hist[i].delivered
                        /\ hist'[i].reply = hist[i].reply
                        /\ hist[i].notes \subseteq hist'[i].notes
      /\ Others(p) # {} => \A i \in Ids : i \in Shared(p) => "overlap" \in hist'[i].notes
  <2>1. CASE Others(p) = {}
    <3>1. hist' = hist
      BY <2>1
    <3> QED BY <2>1, <3>1, <1>i DEF Rows
  <2>2. CASE Others(p) # {}
    <3>1. hist' = Note(Shared(p), "overlap") /\ "overlap" \in Notes
      BY <2>2 DEF Notes
    <3>2. /\ hist' \in Seq(Histories) /\ Len(hist') = Len(outbox)
          /\ \A i \in Ids : /\ hist'[i].delivered = hist[i].delivered
                            /\ hist'[i].reply = hist[i].reply
                            /\ i \in Shared(p) => hist'[i].notes = hist[i].notes \cup {"overlap"}
                            /\ i \notin Shared(p) => hist'[i].notes = hist[i].notes
      BY <3>1, <1>i, NoteEffect
    <3>3. \A i \in Ids : /\ hist[i].notes \subseteq hist'[i].notes
                         /\ i \in Shared(p) => "overlap" \in hist'[i].notes
      BY <3>2
    <3> QED BY <3>2, <3>3
  <2> QED BY <2>1, <2>2
<1>3. Grown
  <2>1. Rows'
    BY <1>2, <1>i, <1>l DEF Rows
  <2>2. \A i \in Ids : hist[i].delivered \in Nat
    BY <1>i, RowFacts DEF Histories
  <2> QED BY <2>1, <2>2, <1>2, <1>i, <1>l DEF Grown, SameKey
<1>f. \* a pass that runs is one of another replica
      \A q \in Threads : Sending(q) => q \in Others(p) /\ q # p
  BY <1>l DEF LockFree, Sending, Others
<1>4. Marked
  <2>1. \A q \in Threads : \A i : Marks(q, i) => Marks(q, i)' /\ thread'[q].cur.key = thread[q].cur.key
    BY <1>1, <1>l DEF Marks
  <2> QED BY <2>1, <1>l DEF Marked
<1>5. InOrder' /\ KeyKept' /\ Threaded' /\ NoneDropped' /\ Rows'
  BY <1>2, <1>3, <1>4, UntoldKept, NoneDroppedKept DEF Grown
<1>6. ASSUME NEW q \in Threads PROVE Holds(q)'
  <2>1. CASE q = p
    <3>1. ~Sending(p)' => thread'[p].todo = {}
      BY <1>1, <1>t DEF Sending
    <3>2. \A n \in NotSent : RowOf(n)'
      BY <1>n, <1>i, <1>l DEF RowOf, SameKey
    <3>3. \A m, n \in NotSent : m.id = n.id => m = n
      BY <1>n
    <3>4. thread'[p].pc # "mark"
      BY <1>1, <1>t
    <3> QED BY <2>1, <1>1, <1>t, <3>1, <3>2, <3>3, <3>4 DEF Holds
  <2>2. CASE q # p
    <3>1. Holds(q)
      BY DEF Passes
    <3>2. Shrinks(q)
      BY <2>2, <1>1, <3>1 DEF Shrinks, Sending, Holds
    <3> QED BY <3>1, <3>2, <1>3, <1>i, HoldsKept
  <2> QED BY <2>1, <2>2
<1>7. \* what p has read is what is not sent
      ToSend(p)' = {n.id : n \in NotSent} /\ Held(p)' = ToSend(p)'
      /\ \A q \in Threads : q # p => ToSend(q)' = ToSend(q) /\ Held(q)' = Held(q)
  BY <1>1, <1>t DEF ToSend, Held
<1>8. Noted'
  <2> SUFFICES ASSUME NEW a \in Threads, NEW b \in Threads, a # b, Sending(a)', Sending(b)',
                      NEW i \in Held(a)'
               PROVE  "overlap" \in hist'[i].notes
    BY DEF Noted
  <2>i. i \in Ids
    <3>1. Holds(a)'
      BY <1>6
    <3>2. /\ \A n \in thread'[a].todo : n.id \in Ids
          /\ thread'[a].pc = "mark" => thread'[a].cur.id \in Ids
      BY <3>1, <1>i DEF Holds, RowOf
    <3> QED BY <3>2 DEF Held
  <2>1. CASE a # p /\ b # p
    <3>1. Sending(a) /\ Sending(b) /\ i \in Held(a)
      BY <2>1, <1>1, <1>7 DEF Sending
    <3> QED BY <3>1, <2>i, <1>2 DEF Passes, Noted
  <2>2. CASE a = p
    <3>1. b \in Others(p) /\ i \in Shared(p)
      BY <2>2, <1>1, <1>7, <1>f DEF Sending, Shared
    <3> QED BY <3>1, <2>i, <1>2
  <2>3. CASE b = p
    <3>1. a \in Others(p) /\ i \in Shared(p)
      BY <2>3, <1>1, <1>7, <1>f DEF Sending, Shared
    <3> QED BY <3>1, <2>i, <1>2
  <2> QED BY <2>1, <2>2, <2>3
<1>9. Once'
  <2> SUFFICES ASSUME NEW i \in Ids, Told(i)', Clean(i)'
               PROVE  /\ hist'[i].delivered = 1
                      /\ outbox'[i].sent \/ \E q \in Threads : Marks(q, i)'
                      /\ \A q \in Threads : i \notin ToSend(q)'
    BY <1>i DEF Once
  <2>1. Told(i) /\ Clean(i)
    BY <1>2, <1>3, <1>i, GrownFacts DEF Told
  <2>2. /\ hist[i].delivered = 1
        /\ outbox[i].sent \/ \E q \in Threads : Marks(q, i)
        /\ \A q \in Threads : i \notin ToSend(q)
    BY <2>1 DEF Passes, Once
  <2>3. outbox'[i].sent \/ \E q \in Threads : Marks(q, i)'
    BY <2>2, <1>4, <1>l DEF Marked
  <2>4. i \notin ToSend(p)'
    <3> SUFFICES ASSUME i \in ToSend(p)' PROVE FALSE
      OBVIOUS
    <3>1. i \in {n.id : n \in NotSent} /\ ~outbox[i].sent
      BY <1>7, <1>n
    <3>2. PICK q \in Threads : Marks(q, i)
      BY <2>2, <3>1
    <3>3. q \in Others(p)
      BY <3>2, <1>f DEF Marks, Sending
    <3> QED BY <3>1, <3>3, <1>2 DEF Clean, Shared
  <2> QED BY <2>2, <2>3, <2>4, <1>2, <1>7
<1>10. Ordered'
  <2> SUFFICES ASSUME NEW q \in Threads, NEW n \in thread'[q].todo, NEW i \in Ids, Earlier(i, n)'
               PROVE  Settled(i)' \/ i \in ToSend(q)' \/ n.dest \notin thread'[q].clients
    BY <1>i DEF Ordered
  <2>1. Settled(i) => Settled(i)'
    BY <1>3, <1>i, GrownFacts
  <2>2. CASE q = p
    <3>1. ~Settled(i) => outbox[i] \in NotSent
      BY <1>n DEF Settled
    <3> QED BY <2>1, <2>2, <3>1, <1>7, <1>i
  <2>3. CASE q # p
    <3>1. Earlier(i, n)
      BY <1>l DEF Earlier
    <3> QED BY <2>1, <2>3, <3>1, <1>1, <1>7 DEF Passes, Ordered
  <2> QED BY <2>2, <2>3
<1>11. Late'
  <2> SUFFICES ASSUME NEW i \in Ids, NEW j \in Ids, Earlier(i, outbox[j]), Told(j)',
                      NEW q \in Threads, i \in ToSend(q)'
               PROVE  hist'[i].notes # {}
    BY <1>i, <1>l DEF Late, Earlier
  <2>1. Told(j)
    BY <1>2 DEF Told
  <2>2. CASE q = p
    <3>1. Settled(i)
      BY <2>1, <1>i DEF Passes, InOrder, Settled, Told, Earlier
    <3>2. Told(i)
      BY <2>2, <3>1, <1>7, <1>n DEF Settled
    <3>3. Told(i)'
      BY <3>2, <1>2 DEF Told
    <3>4. ~Clean(i)'
      BY <3>3, <1>9, <1>i DEF Once
    <3> QED BY <3>4 DEF Clean
  <2>3. CASE q # p
    BY <2>1, <2>3, <1>7, <1>2 DEF Passes, Late
  <2> QED BY <2>2, <2>3
<1> QED BY <1>1, <1>5, <1>6, <1>8, <1>9, <1>10, <1>11, <1>t DEF Passes, s, t

-----------------------------------------------------------------------------
(* Steps that leave the tables alone *)

\* The thread is not at a pass, before or after the step.
Apart(q) == ~Sending(q) /\ ~Sending(q)' /\ thread'[q].todo = {}

LEMMA Quiet ==
  ASSUME Passes, outbox' = outbox, hist' = hist, now \in Nat, now' \in Nat, now <= now',
         \A q \in Threads : thread'[q] = thread[q] \/ Apart(q)
  PROVE  Passes'
<1>i. Rows /\ Ids' = Ids /\ \A i \in Ids : hist[i].delivered \in Nat
  BY RowFacts DEF Passes, Ids, Histories
<1>1. Grown
  BY <1>i DEF Grown, SameKey, Rows
<1>2. Marked
  BY DEF Marked, Marks, Apart, Sending
<1>3. \A q \in Threads : Shrinks(q) /\ PutAway(q)
  <2> SUFFICES ASSUME NEW q \in Threads PROVE Shrinks(q) /\ PutAway(q)
    OBVIOUS
  <2>1. CASE thread'[q] = thread[q]
    <3>1. Holds(q)
      BY DEF Passes
    <3> QED BY <2>1, <3>1 DEF Shrinks, PutAway, Holds, Sending, ToSend
  <2>2. CASE Apart(q)
    BY <2>2 DEF Apart, Shrinks, PutAway, Sending
  <2> QED BY <2>1, <2>2
<1> QED BY <1>1, <1>2, <1>3, Undelivered

\* What a step of p to the locals t needs of the control.
LEMMA ControlKept ==
  ASSUME Control, thread \in [Threads -> Locals], NEW p \in Threads, NEW t \in Locals, Step(p, t),
         primary' = primary, lost' = lost,
         t.pc = "put" => /\ p[2] \in {"watcher", "api"}
                         /\ t.alert \in Alerts /\ t.sev \in Severities /\ t.left # <<>>,
         t.pc \in {"lock", "send", "mark"} => Working(p) \/ p[1] = primary,
         t.pc = "put" /\ p[2] = "watcher" => Working(p) \/ p[1] = primary,
         t.pc \in {"send", "mark"} => Sending(p) \/ LockFree(p)
  PROVE  Control'
<1>1. thread'[p] = t /\ \A q \in Threads : q # p => thread'[q] = thread[q]
  BY DEF Step
<1>2. \A q \in Threads : Puts(q)'
  BY <1>1 DEF Control, Puts
<1>3. PrimaryWorks'
  BY <1>1 DEF Control, PrimaryWorks, Working
<1>4. OneSends'
  BY <1>1 DEF Control, OneSends, LockFree, Sending
<1> QED BY <1>2, <1>3, <1>4 DEF Control

LEMMA FaultCount ==
  ASSUME faults \in 0..MaxFaults, Fault \/ NoFault PROVE faults' \in 0..MaxFaults
  BY DEF Fault, NoFault

LEMMA InitIInv == Init => IInv
<1> SUFFICES ASSUME Init PROVE IInv
  OBVIOUS
<1>1. /\ thread \in [Threads -> Locals]
      /\ \A p \in Threads : thread[p].pc = "idle" /\ thread[p].todo = {}
  BY IdleType DEF Init
<1>2. Simple
  <2>1. lost \in BOOLEAN
    BY DEF Init
  <2>2. alerts \in [Alerts -> [state : {"none", "firing", "resolved"},
                               sev : Severities \cup {None}]]
        /\ \A a \in Alerts : alerts[a].state = "firing" => alerts[a].sev \in Severities
    BY DEF Init, NoAlert
  <2> QED BY <1>1, <2>1, <2>2 DEF Init, Simple
<1>3. Control
  BY <1>1 DEF Control, Puts, PrimaryWorks, Working, OneSends, Sending
<1>4. Ids = {} /\ Rows
  BY DEF Init, Rows, Ids
<1>5. Passes
  <2>1. \A p \in Threads : Holds(p)
    BY <1>1 DEF Holds
  <2>2. Noted /\ Ordered
    BY <1>1, <1>4 DEF Noted, Ordered, Sending
  <2>3. Once /\ NoneDropped /\ InOrder /\ Late /\ KeyKept /\ Threaded
    BY <1>4 DEF Once, NoneDropped, InOrder, Late, KeyKept, Threaded
  <2> QED BY <1>4, <2>1, <2>2, <2>3 DEF Passes
<1> QED BY <1>2, <1>3, <1>5 DEF IInv

-----------------------------------------------------------------------------
(* Alerts, requests, processes and the clock *)

\* A thread that was at nothing begins to put notifications.
LEMMA Begins ==
  ASSUME IInv, NEW p \in Threads, thread[p].pc = "idle", p[2] \in {"watcher", "api"},
         p[2] = "watcher" => p[1] = primary,
         NEW a \in Alerts, NEW sev \in Severities, NEW res \in Booleans,
         Step(p, [Idle EXCEPT !.pc = "put", !.alert = a, !.sev = sev, !.resolved = res,
                              !.ts = now, !.left = route]),
         UNCHANGED <<primary, lost, now, outbox, hist>>
  PROVE  thread' \in [Threads -> Locals] /\ Control' /\ Passes'
<1> DEFINE t == [Idle EXCEPT !.pc = "put", !.alert = a, !.sev = sev, !.resolved = res,
                             !.ts = now, !.left = route]
<1>1. route \in Seq(Destinations) /\ route # <<>> /\ now \in 0..MaxTime /\ now \in Nat
  BY DEF IInv, Simple
<1>2. /\ t \in Locals /\ t.pc = "put" /\ t.todo = {}
      /\ t.alert = a /\ t.sev = sev /\ t.left = route
  BY <1>1 DEF Idle, Locals
<1>3. Step(p, t)
  OBVIOUS
<1> HIDE DEF t
<1>4. thread \in [Threads -> Locals]
  BY DEF IInv, Simple
<1>5. thread' \in [Threads -> Locals] /\ thread'[p] = t
      /\ \A q \in Threads : q # p => thread'[q] = thread[q]
  BY <1>2, <1>3, <1>4 DEF Step
<1>6. Control'
  BY <1>1, <1>2, <1>3, <1>4, ControlKept DEF IInv
<1>7. \A q \in Threads : thread'[q] = thread[q] \/ Apart(q)
  BY <1>2, <1>5 DEF Apart, Sending
<1>8. Passes'
  BY <1>1, <1>7, Quiet DEF IInv
<1> QED BY <1>5, <1>6, <1>8

\* An alert after a check or a request.
LEMMA AlertsType ==
  ASSUME Simple, NEW a \in Alerts, NEW x \in [state : {"none", "firing", "resolved"},
                                              sev : Severities \cup {None}],
         x.state = "firing" => x.sev \in Severities, alerts' = [alerts EXCEPT ![a] = x]
  PROVE  /\ alerts' \in [Alerts -> [state : {"none", "firing", "resolved"},
                                    sev : Severities \cup {None}]]
         /\ \A b \in Alerts : alerts'[b].state = "firing" => alerts'[b].sev \in Severities
  BY DEF Simple

LEMMA CheckIInv ==
  ASSUME IInv, NEW r \in Replicas, NEW a \in Alerts, Check(r, a)
  PROVE  IInv'
<1> DEFINE p == <<r, "watcher">>
<1>1. /\ p \in Threads /\ p[1] = r /\ p[2] = "watcher" /\ thread[p].pc = "idle" /\ primary = r
      /\ UNCHANGED <<primary, up, now, lost, settings, outbox, pages, hist, requests, faults>>
      /\ checked' = [checked EXCEPT ![r] = now]
  BY DEF Check, Threads
<1>2. /\ checked' \in [Replicas -> 0..MaxTime] /\ now \in Nat
      /\ alerts[a] \in [state : {"none", "firing", "resolved"}, sev : Severities \cup {None}]
      /\ severity \in Severities
  BY <1>1 DEF IInv, Simple
<1>t. TRUE \in Booleans /\ FALSE \in Booleans
  BY DEF Booleans
<1> DEFINE AlertsOK == /\ alerts' \in [Alerts -> [state : {"none", "firing", "resolved"},
                                                  sev : Severities \cup {None}]]
                       /\ \A b \in Alerts : alerts'[b].state = "firing" => alerts'[b].sev \in Severities
<1>3. ASSUME AlertsOK, thread' \in [Threads -> Locals] PROVE Simple'
  BY <1>1, <1>2, <1>3 DEF IInv, Simple, settings
<1>4. CASE /\ alerts[a].state = "none"
           /\ alerts' = [alerts EXCEPT ![a] = [state |-> "firing", sev |-> severity]]
           /\ Step(p, [Idle EXCEPT !.pc = "put", !.alert = a, !.sev = severity,
                                   !.resolved = FALSE, !.ts = now, !.left = route])
  <2>1. AlertsOK
    BY <1>2, <1>4, AlertsType DEF IInv
  <2>2. thread' \in [Threads -> Locals] /\ Control' /\ Passes'
    BY <1>1, <1>2, <1>4, <1>t, Begins
  <2> QED BY <1>3, <2>1, <2>2 DEF IInv
<1>5. CASE /\ alerts[a].state = "firing"
           /\ alerts' = [alerts EXCEPT ![a].sev = severity]
           /\ UNCHANGED thread
  <2> DEFINE x == [alerts[a] EXCEPT !.sev = severity]
  <2>1. x \in [state : {"none", "firing", "resolved"}, sev : Severities \cup {None}]
        /\ x.sev = severity
    BY <1>2
  <2>2. alerts' = [alerts EXCEPT ![a] = x]
    BY <1>5
  <2> HIDE DEF x
  <2>3. AlertsOK
    BY <1>2, <2>1, <2>2, AlertsType DEF IInv
  <2>4. thread' \in [Threads -> Locals]
    BY <1>5 DEF IInv, Simple
  <2>5. Control'
    BY <1>1, <1>5 DEF IInv, Control, Puts, PrimaryWorks, Working, OneSends, Sending
  <2>6. Passes'
    BY <1>1, <1>2, <1>5, Quiet DEF IInv
  <2> QED BY <1>3, <2>3, <2>4, <2>5, <2>6 DEF IInv
<1>6. CASE /\ alerts[a].state = "firing"
           /\ alerts' = [alerts EXCEPT ![a].state = "resolved"]
           /\ Step(p, [Idle EXCEPT !.pc = "put", !.alert = a, !.sev = alerts[a].sev,
                                   !.resolved = TRUE, !.ts = now, !.left = route])
  <2> DEFINE x == [alerts[a] EXCEPT !.state = "resolved"]
  <2>1. x \in [state : {"none", "firing", "resolved"}, sev : Severities \cup {None}]
        /\ x.state = "resolved"
    BY <1>2
  <2>2. alerts' = [alerts EXCEPT ![a] = x]
    BY <1>6
  <2> HIDE DEF x
  <2>3. AlertsOK
    BY <1>2, <2>1, <2>2, AlertsType DEF IInv
  <2>4. alerts[a].sev \in Severities
    BY <1>6 DEF IInv, Simple
  <2>5. thread' \in [Threads -> Locals] /\ Control' /\ Passes'
    BY <1>1, <1>6, <1>t, <2>4, Begins
  <2> QED BY <1>3, <2>3, <2>5 DEF IInv
<1> QED BY <1>4, <1>5, <1>6 DEF Check

LEMMA EndAlertIInv ==
  ASSUME IInv, NEW r \in Replicas, NEW a \in Alerts, EndAlert(r, a)
  PROVE  IInv'
<1> DEFINE p == <<r, "api">>
<1>1. /\ p \in Threads /\ p[2] = "api" /\ thread[p].pc = "idle"
      /\ UNCHANGED <<primary, up, now, checked, lost, route, severity, clients, outbox, pages,
                     hist, faults>>
      /\ requests' \in 0..MaxRequests /\ alerts[a].state = "firing"
  BY DEF EndAlert, Threads, Request, IInv, Simple, process, settings
<1>2. /\ alerts[a] \in [state : {"none", "firing", "resolved"}, sev : Severities \cup {None}]
      /\ alerts[a].sev \in Severities
  BY <1>1 DEF IInv, Simple
<1>t. TRUE \in Booleans
  BY DEF Booleans
<1>3. PICK s \in {"firing", "resolved"} : alerts' = [alerts EXCEPT ![a].state = s]
  BY DEF EndAlert
<1> DEFINE x == [alerts[a] EXCEPT !.state = s]
<1>4. x \in [state : {"none", "firing", "resolved"}, sev : Severities \cup {None}]
      /\ x.sev \in Severities
  BY <1>2
<1>5. alerts' = [alerts EXCEPT ![a] = x]
  BY <1>3
<1> HIDE DEF x
<1>6. /\ alerts' \in [Alerts -> [state : {"none", "firing", "resolved"},
                                 sev : Severities \cup {None}]]
      /\ \A b \in Alerts : alerts'[b].state = "firing" => alerts'[b].sev \in Severities
  BY <1>4, <1>5, AlertsType DEF IInv
<1>7. Step(p, [Idle EXCEPT !.pc = "put", !.alert = a, !.sev = alerts[a].sev,
                           !.resolved = TRUE, !.ts = now, !.left = route])
  BY DEF EndAlert
<1>8. thread' \in [Threads -> Locals] /\ Control' /\ Passes'
  BY <1>1, <1>2, <1>7, <1>t, Begins
<1>9. Simple'
  BY <1>1, <1>6, <1>8 DEF IInv, Simple
<1> QED BY <1>8, <1>9 DEF IInv

LEMMA RetryIInv ==
  ASSUME IInv, NEW r \in Replicas, Retry(r)
  PROVE  IInv'
<1> DEFINE p == <<r, "retry">>
           t == [Idle EXCEPT !.pc = "lock"]
<1>1. /\ p \in Threads /\ p[1] = r /\ thread[p].pc = "idle" /\ primary = r /\ Step(p, t)
      /\ UNCHANGED <<process, tables, pages, hist, requests, faults>>
  BY DEF Retry, Threads, MayRetry
<1>2. t \in Locals /\ t.pc = "lock" /\ t.todo = {}
  BY IdleType
<1>3. thread \in [Threads -> Locals] /\ now \in Nat
  BY DEF IInv, Simple
<1> HIDE DEF t
<1>4. thread' \in [Threads -> Locals] /\ thread'[p] = t
      /\ \A q \in Threads : q # p => thread'[q] = thread[q]
  BY <1>1, <1>2, <1>3 DEF Step
<1>5. Control'
  BY <1>1, <1>2, <1>3, ControlKept DEF IInv, process
<1>6. \A q \in Threads : thread'[q] = thread[q] \/ Apart(q)
  BY <1>1, <1>2, <1>4 DEF Apart, Sending
<1>7. Passes'
  BY <1>1, <1>3, <1>6, Quiet DEF IInv, process, tables
<1>8. Simple'
  BY <1>1, <1>4 DEF IInv, Simple, process, tables, settings
<1> QED BY <1>5, <1>7, <1>8 DEF IInv

\* Edits, elections, restarts and the clock: no thread moves.
LEMMA StillIInv ==
  ASSUME IInv,
         \/ \E s \in Severities : EditSeverity(s)
         \/ \E d \in Destinations : EditIntegration(d)
         \/ \E r \in Replicas : Elect(r) \/ Restart(r)
         \/ LoseLock \/ Tick
  PROVE  IInv'
<1>1. UNCHANGED <<thread, outbox, hist>> /\ now \in Nat /\ now' \in Nat /\ now <= now'
  BY DEF EditSeverity, EditIntegration, Elect, Restart, LoseLock, Tick, process, tables, IInv, Simple
<1>2. Passes'
  BY <1>1, Quiet DEF IInv
<1>3. PrimaryWorks'
  BY <1>1 DEF EditSeverity, EditIntegration, Elect, Restart, LoseLock, Tick, process, tables,
              IInv, Simple, Control, PrimaryWorks, Working, Threads
<1>4. Control'
  BY <1>1, <1>3 DEF IInv, Control, Puts, OneSends, Sending
<1>5. ASSUME NEW s \in Severities, EditSeverity(s) PROVE Simple'
  BY <1>5 DEF EditSeverity, Request, process, IInv, Simple
<1>6. ASSUME NEW d \in Destinations, EditIntegration(d) PROVE Simple'
  BY <1>6 DEF EditIntegration, Request, process, IInv, Simple
<1>7. ASSUME NEW r \in Replicas, Elect(r) \/ Restart(r) PROVE Simple'
  BY <1>7 DEF Elect, Restart, tables, settings, IInv, Simple
<1>8. ASSUME LoseLock PROVE Simple'
  BY <1>8 DEF LoseLock, Fault, tables, settings, IInv, Simple
<1>9. ASSUME Tick PROVE Simple'
  BY <1>9 DEF Tick, tables, settings, IInv, Simple
<1> QED BY <1>2, <1>4, <1>5, <1>6, <1>7, <1>8, <1>9 DEF IInv

-----------------------------------------------------------------------------
(* Put *)

\* A row is added at the end: nobody holds it yet.
LEMMA RowAdded ==
  ASSUME Passes, NEW m \in Notification, m.id = Len(outbox) + 1, ~m.sent,
         NEW h \in Histories, h.delivered = 0, h.notes = {},
         outbox' = Append(outbox, m), hist' = Append(hist, h), now \in Nat, now' = now,
         \A q \in Threads : thread'[q] = thread[q] \/ Apart(q)
  PROVE  Passes'
<1>1. /\ Rows /\ Len(outbox) \in Nat /\ Ids = 1..Len(outbox) /\ Len(hist) = Len(outbox)
      /\ outbox \in Seq(Notification) /\ hist \in Seq(Histories)
      /\ \A i \in Ids : outbox[i].id = i /\ hist[i].delivered \in Nat
  BY RowFacts DEF Passes, Rows, Histories
<1>2. /\ outbox' \in Seq(Notification) /\ hist' \in Seq(Histories)
      /\ Len(outbox') = Len(outbox) + 1 /\ Len(hist') = Len(outbox')
      /\ Ids' = 1..(Len(outbox) + 1)
  BY <1>1 DEF Ids
<1>3. /\ \A i \in Ids : outbox'[i] = outbox[i] /\ hist'[i] = hist[i]
      /\ outbox'[Len(outbox) + 1] = m /\ hist'[Len(outbox) + 1] = h
  BY <1>1
<1>4. Ids' \ Ids = {Len(outbox) + 1} /\ Ids \subseteq Ids'
  BY <1>1, <1>2
<1>5. Rows'
  BY <1>1, <1>2, <1>3, <1>4 DEF Rows
<1>6. Grown
  <2>1. /\ now \in Nat /\ now' \in Nat /\ now <= now'
        /\ Len(outbox) <= Len(outbox')
    BY <1>1, <1>2
  <2>2. ASSUME NEW i \in Ids
        PROVE  /\ SameKey(outbox'[i], outbox[i])
               /\ outbox[i].sent => outbox'[i].sent
               /\ hist[i].notes \subseteq hist'[i].notes
               /\ hist[i].delivered <= hist'[i].delivered
    <3>1. outbox'[i] = outbox[i] /\ hist'[i] = hist[i] /\ hist[i].delivered \in Nat
      BY <1>1, <1>3
    <3> QED BY <3>1 DEF SameKey
  <2>3. ASSUME NEW i \in Ids' \ Ids
        PROVE  ~outbox'[i].sent /\ hist'[i].delivered = 0 /\ hist'[i].notes = {}
    <3>1. outbox'[i] = m /\ hist'[i] = h
      BY <1>3, <1>4
    <3> QED BY <3>1
  <2> QED BY <1>5, <2>1, <2>2, <2>3 DEF Grown
<1>7. Marked
  BY <1>3 DEF Marked, Marks, Apart, Sending
<1>8. \A q \in Threads : Shrinks(q) /\ PutAway(q)
  <2> SUFFICES ASSUME NEW q \in Threads PROVE Shrinks(q) /\ PutAway(q)
    OBVIOUS
  <2>1. CASE thread'[q] = thread[q]
    <3>1. Holds(q)
      BY DEF Passes
    <3> QED BY <2>1, <3>1 DEF Shrinks, PutAway, Holds, Sending, ToSend
  <2>2. CASE Apart(q)
    BY <2>2 DEF Apart, Shrinks, PutAway, Sending
  <2> QED BY <2>1, <2>2
<1> QED BY <1>3, <1>6, <1>7, <1>8, Undelivered

LEMMA PutKeysType ==
  ASSUME Rows, NEW p \in Threads, NEW n, n.alert \in Alerts, thread[p].sev \in Severities
  PROVE  PutKeys(p, n) \subseteq Keys
<1>1. \A m \in Previous(n) : m.key \in Keys
  BY RowFacts DEF Previous, Notification
<1>2. OpenKeys(n) \subseteq Keys
  BY <1>1 DEF OpenKeys, Keys
<1>3. <<n.alert, thread[p].sev>> \in Keys /\ NoKey \in Keys
  BY DEF Keys
<1> QED BY <1>2, <1>3 DEF PutKeys

LEMMA PutIInv ==
  ASSUME IInv, NEW p \in Threads, Put(p)
  PROVE  IInv'
<1> DEFINE t == thread[p]
           d == Head(t.left)
           next == IF Len(t.left) > 1 THEN [t EXCEPT !.left = Tail(@)]
                   ELSE IF p[2] = "api" THEN Idle ELSE [Idle EXCEPT !.pc = "lock"]
           n == [id |-> Len(outbox) + 1, alert |-> t.alert, dest |-> d,
                 status |-> Status(t), ts |-> t.ts, key |-> NoKey, sent |-> FALSE]
<1>t. thread \in [Threads -> Locals] /\ t \in Locals /\ now \in Nat /\ faults \in 0..MaxFaults
  BY DEF IInv, Simple
<1>1. /\ t.pc = "put" /\ Step(p, next)
      /\ UNCHANGED <<process, settings, alerts, pages, requests>>
  BY DEF Put
<1>2. /\ p[2] \in {"watcher", "api"} /\ t.alert \in Alerts /\ t.sev \in Severities
      /\ t.left \in Seq(Destinations) /\ t.left # <<>> /\ t.ts \in 0..MaxTime
  BY <1>1, <1>t DEF IInv, Control, Puts, Locals
<1>3. d \in Destinations /\ (Len(t.left) > 1 => Tail(t.left) \in Seq(Destinations) /\ Tail(t.left) # <<>>)
  BY <1>2, HeadAndTail
<1>4. /\ next \in Locals /\ next.pc \in {"put", "idle", "lock"}
      /\ next.pc = "put" => next.alert = t.alert /\ next.sev = t.sev /\ next.left # <<>>
      /\ next.pc = "lock" => p[2] = "watcher"
  <2>1. CASE Len(t.left) > 1
    <3> DEFINE l == Tail(t.left)
    <3>1. next = [t EXCEPT !.left = l]
      BY <2>1
    <3>2. l \in Seq(Destinations) /\ l # <<>>
      BY <2>1, <1>3
    <3> HIDE DEF l, next, t
    <3>3. /\ [t EXCEPT !.left = l] \in Locals /\ [t EXCEPT !.left = l].pc = t.pc
          /\ [t EXCEPT !.left = l].alert = t.alert /\ [t EXCEPT !.left = l].sev = t.sev
          /\ [t EXCEPT !.left = l].left = l
      BY <1>t, <3>2 DEF Locals
    <3> QED BY <3>1, <3>2, <3>3, <1>1
  <2>2. CASE ~(Len(t.left) > 1)
    BY <2>2, <1>2, IdleType
  <2> QED BY <2>1, <2>2
<1>z. ~Sending(p) /\ thread[p].todo = {}
  <2>1. ~Sending(p)
    BY <1>1 DEF Sending
  <2> QED BY <2>1 DEF IInv, Passes, Holds
<1>5. next.todo = {}
  <2>1. CASE Len(t.left) > 1
    BY <2>1, <1>z, <1>t DEF Locals
  <2>2. CASE ~(Len(t.left) > 1)
    BY <2>2, IdleType
  <2> QED BY <2>1, <2>2
<1> HIDE DEF next
<1>6. /\ thread' \in [Threads -> Locals] /\ thread'[p] = next
      /\ \A q \in Threads : q # p => thread'[q] = thread[q]
  BY <1>1, <1>4, <1>t DEF Step
<1>7. Control'
  <2>1. primary' = primary /\ lost' = lost
    BY <1>1 DEF process
  <2>2. p[2] = "watcher" => Working(p)
    BY <1>1 DEF Working
  <2> QED BY <2>1, <2>2, <1>1, <1>2, <1>4, <1>t, ControlKept DEF IInv
<1>8. \A q \in Threads : thread'[q] = thread[q] \/ Apart(q)
  BY <1>z, <1>4, <1>5, <1>6 DEF Apart, Sending
<1>9. Fault \/ NoFault
  BY DEF Put
<1>10. Simple'
  BY <1>1, <1>6, <1>9, <1>t, FaultCount DEF IInv, Simple, process, settings
<1>11. Passes'
  <2>1. CASE outbox' = outbox /\ hist' = hist
    BY <2>1, <1>1, <1>t, <1>8, Quiet DEF IInv, process
  <2>2. ASSUME NEW k \in PutKeys(p, n), outbox' = Append(outbox, [n EXCEPT !.key = k]),
               hist' = Append(hist, Fresh(p[2]))
        PROVE  Passes'
    <3> DEFINE m == [n EXCEPT !.key = k]
               h == Fresh(p[2])
    <3>1. Rows /\ Len(outbox) + 1 \in Nat
      BY RowFacts DEF IInv, Passes
    <3>2. k \in Keys
      BY <2>2, <3>1, <1>2, PutKeysType
    <3>s. Status(t) \in Severities \cup {"OK"}
      BY <1>2 DEF Status
    <3>3. m \in Notification /\ m.id = Len(outbox) + 1 /\ ~m.sent
      BY <3>1, <3>2, <3>s, <1>2, <1>3 DEF Notification
    <3>4. h \in Histories /\ h.delivered = 0 /\ h.notes = {}
      <4>1. FALSE \in Booleans
        BY DEF Booleans
      <4> QED BY <4>1, <1>2 DEF Fresh, Histories
    <3>5. outbox' = Append(outbox, m) /\ hist' = Append(hist, h) /\ now' = now
      BY <2>2, <1>1 DEF process
    <3> HIDE DEF m, h
    <3> QED BY <3>3, <3>4, <3>5, <1>t, <1>8, RowAdded DEF IInv
  <2> QED BY <2>1, <2>2 DEF Put
<1> QED BY <1>7, <1>10, <1>11 DEF IInv

-----------------------------------------------------------------------------
(* The steps of a pass *)

LEMMA BeginPassIInv ==
  ASSUME IInv, NEW p \in Threads, BeginPass(p)
  PROVE  IInv'
<1>1. /\ thread[p].pc = "lock" /\ LockFree(p) /\ thread \in [Threads -> Locals] /\ now \in Nat
      /\ UNCHANGED <<process, tables, pages, requests>> /\ clients \subseteq Destinations
      /\ (Fault \/ NoFault)
  BY DEF BeginPass, IInv, Simple
<1>w. Working(p)
  BY <1>1 DEF Working
<1>2. CASE /\ NoFault /\ Step(p, Loop([Idle EXCEPT !.todo = NotSent, !.clients = clients]))
           /\ hist' = IF Others(p) = {} THEN hist ELSE Note(Shared(p), "overlap")
  <2> DEFINE t == Loop([Idle EXCEPT !.todo = NotSent, !.clients = clients])
  <2>1. Passes' /\ thread' \in [Threads -> Locals] /\ t.pc \in {"idle", "send"}
    BY <1>1, <1>2, PassBegins DEF IInv
  <2>2. Step(p, t)
    BY <1>2
  <2> HIDE DEF t
  <2>3. thread'[p] = t
    BY <2>2, <1>1 DEF Step
  <2>4. t \in Locals
    BY <2>1, <2>3
  <2>5. Control'
    BY <2>1, <2>2, <2>4, <1>1, <1>w, ControlKept DEF IInv, process
  <2>6. Simple'
    BY <1>1, <2>1, FaultCount DEF IInv, Simple, process, tables, settings
  <2> QED BY <2>1, <2>5, <2>6 DEF IInv
<1>3. CASE Step(p, Idle) /\ hist' = hist
  <2>1. Idle \in Locals /\ Idle.pc = "idle" /\ Idle.todo = {}
    BY IdleType
  <2>2. /\ thread' \in [Threads -> Locals] /\ thread'[p] = Idle
        /\ \A q \in Threads : q # p => thread'[q] = thread[q]
    BY <1>1, <1>3, <2>1 DEF Step
  <2>3. Control'
    BY <2>1, <1>1, <1>3, ControlKept DEF IInv, process
  <2>4. \A q \in Threads : thread'[q] = thread[q] \/ Apart(q)
    BY <1>1, <2>1, <2>2 DEF Apart, Sending
  <2>5. Passes'
    BY <1>1, <1>3, <2>4, Quiet DEF IInv, process, tables
  <2>6. Simple'
    BY <1>1, <2>2, FaultCount DEF IInv, Simple, process, tables, settings
  <2> QED BY <2>3, <2>5, <2>6 DEF IInv
<1> QED BY <1>2, <1>3 DEF BeginPass, Others, Shared

\* What all sends of p have in common: it takes a row it has to send, and nothing
\* happens to the other threads.
LEMMA SendFacts ==
  ASSUME IInv, NEW p \in Threads, thread[p].pc = "send", NEW n \in Reached(p),
         NEW u \in Locals, Step(p, u), outbox' = outbox
  PROVE  /\ thread' \in [Threads -> Locals] /\ thread'[p] = u
         /\ n \in thread[p].todo /\ n \in Notification /\ n.id \in Ids /\ n.id \in ToSend(p)
         /\ SameKey(outbox[n.id], n)
         /\ \A m \in thread[p].todo : /\ m.id = n.id => m = n
                                      /\ outbox[m.id].dest = m.dest
         /\ Marked /\ \A q \in Threads : q # p => Shrinks(q) /\ PutAway(q)
<1>1. thread \in [Threads -> Locals]
  BY DEF IInv, Simple
<1>2. /\ thread' \in [Threads -> Locals] /\ thread'[p] = u
      /\ \A q \in Threads : q # p => thread'[q] = thread[q]
  BY <1>1 DEF Step
<1>3. Holds(p)
  BY DEF IInv, Passes
<1>4. n \in thread[p].todo /\ RowOf(n) /\ n.id \in ToSend(p)
  BY <1>3 DEF Reached, Holds, ToSend
<1>5. \A m \in thread[p].todo : (m.id = n.id => m = n) /\ outbox[m.id].dest = m.dest
  BY <1>3, <1>4 DEF Holds, RowOf, SameKey
<1>6. Marked
  <2>1. \A q \in Threads : \A i : Marks(q, i) => Marks(q, i)' /\ thread'[q].cur.key = thread[q].cur.key
    BY <1>2 DEF Marks
  <2> QED BY <2>1 DEF Marked
<1>7. ASSUME NEW q \in Threads, q # p PROVE Shrinks(q) /\ PutAway(q)
  <2>1. Holds(q) /\ thread'[q] = thread[q]
    BY <1>2, <1>7 DEF IInv, Passes
  <2> QED BY <2>1 DEF Shrinks, PutAway, Holds, Sending, ToSend
<1> QED BY <1>2, <1>4, <1>5, <1>6, <1>7 DEF RowOf

\* The locals u after a send of n that is to be marked.
Takes(t, c, n, u) == u = [t EXCEPT !.pc = "mark", !.cur = c, !.todo = t.todo \ {n}]

LEMMA MarkLocals ==
  ASSUME NEW t \in Locals, NEW c \in Notification, NEW n,
         NEW u, Takes(t, c, n, u)
  PROVE  /\ u \in Locals /\ u.pc = "mark" /\ u.cur = c /\ u.clients = t.clients
         /\ \A m : m \in u.todo <=> m \in t.todo /\ m # n
<1> DEFINE v == t.todo \ {n}
<1>1. v \in SUBSET Notification
  BY DEF Locals
<1>v. \A m : m \in v <=> m \in t.todo /\ m # n
  OBVIOUS
<1> HIDE DEF v
<1>2. /\ [t EXCEPT !.pc = "mark", !.cur = c, !.todo = v] \in Locals
      /\ [t EXCEPT !.pc = "mark", !.cur = c, !.todo = v].pc = "mark"
      /\ [t EXCEPT !.pc = "mark", !.cur = c, !.todo = v].cur = c
      /\ [t EXCEPT !.pc = "mark", !.cur = c, !.todo = v].todo = v
      /\ [t EXCEPT !.pc = "mark", !.cur = c, !.todo = v].clients = t.clients
  BY <1>1 DEF Locals
<1>3. u = [t EXCEPT !.pc = "mark", !.cur = c, !.todo = v]
  BY DEF v, Takes
<1> QED BY <1>2, <1>3, <1>v

LEMMA PagesType ==
  ASSUME pages \subseteq Pagers \X Keys, NEW n \in Notification
  PROVE  PagesAfter(n) \subseteq Pagers \X Keys
  BY DEF PagesAfter, Notification

\* The rest of the invariant after a step of a pass.
LEMMA PassStep ==
  ASSUME IInv, NEW p \in Threads, Sending(p), NEW u \in Locals, Step(p, u),
         u.pc \in {"idle", "send", "mark"}, Passes', thread' \in [Threads -> Locals],
         pages' \subseteq Pagers \X Keys, Fault \/ NoFault,
         UNCHANGED <<process, settings, alerts, requests>>
  PROVE  IInv'
<1>1. Working(p)
  BY DEF Sending, Working
<1>2. Control'
  BY <1>1, ControlKept DEF IInv, Simple, process
<1>3. Simple'
  BY FaultCount DEF IInv, Simple, process, settings
<1> QED BY <1>2, <1>3 DEF IInv

\* What a pass notes of a row it takes.
LEMMA NoteGrows ==
  ASSUME Rows, NEW ids, NEW what \in Notes, hist' = Note(ids, what),
         outbox' = outbox, now \in Nat, now' = now
  PROVE  /\ Grown /\ \A i \in Ids \cap ids : what \in hist'[i].notes
         /\ \A i \in Ids : hist'[i].delivered = hist[i].delivered /\ hist'[i].reply = hist[i].reply
<1>1. /\ hist' \in Seq(Histories) /\ Len(hist') = Len(outbox)
      /\ \A i \in Ids : /\ hist'[i].delivered = hist[i].delivered
                        /\ hist'[i].reply = hist[i].reply
                        /\ i \in ids => hist'[i].notes = hist[i].notes \cup {what}
                        /\ i \notin ids => hist'[i].notes = hist[i].notes
  BY NoteEffect
<1>2. Ids' = Ids /\ \A i \in Ids : hist[i].delivered \in Nat
  BY RowFacts DEF Ids, Histories
<1>3. Rows'
  BY <1>1, <1>2 DEF Rows
<1>4. \A i \in Ids : hist[i].delivered <= hist'[i].delivered
  BY <1>1, <1>2
<1>5. \A i \in Ids : hist[i].notes \subseteq hist'[i].notes
  BY <1>1
<1>6. \A i \in Ids \cap ids : what \in hist'[i].notes
  BY <1>1
<1>7. Grown
  BY <1>1, <1>2, <1>3, <1>4, <1>5 DEF Grown, SameKey
<1> QED BY <1>1, <1>6, <1>7

NoClient(i) == "no client" \in hist[i].notes

\* A notification without a client is only noted.
LEMMA NoClientIInv ==
  ASSUME IInv, NEW p \in Threads, thread[p].pc = "send", NEW n \in Reached(p),
         n.dest \notin thread[p].clients,
         NEW u \in Locals, Step(p, u), u.pc = "mark", u.cur = n,
         \A m : m \in u.todo <=> m \in thread[p].todo /\ m # n,
         u.clients = thread[p].clients, outbox' = outbox,
         Grown, NoClient(n.id)',
         \A i \in Ids : hist'[i].delivered = hist[i].delivered /\ hist'[i].reply = hist[i].reply
  PROVE  Passes'
<1>3. /\ thread'[p] = u
      /\ n \in thread[p].todo /\ n \in Notification /\ n.id \in Ids /\ n.id \in ToSend(p)
      /\ SameKey(outbox[n.id], n)
      /\ \A m \in thread[p].todo : (m.id = n.id => m = n) /\ outbox[m.id].dest = m.dest
      /\ Marked /\ \A q \in Threads : q # p => Shrinks(q) /\ PutAway(q)
  BY SendFacts
<1>6. Shrinks(p)
  <2>1. n.id \notin ToSend(p)'
    BY <1>3 DEF ToSend
  <2> QED BY <2>1, <1>3 DEF Shrinks, Sending, NoClient
<1>7. PutAway(p)
  <2> SUFFICES ASSUME NEW m \in u.todo, NEW i \in Ids, Earlier(i, m), i \in ToSend(p),
                      i \notin ToSend(p)'
               PROVE  m.dest \notin thread[p].clients
    BY <1>3 DEF PutAway
  <2>1. i = n.id
    BY <1>3 DEF ToSend
  <2> QED BY <2>1, <1>3 DEF Earlier, SameKey
<1> QED BY <1>3, <1>6, <1>7, Undelivered DEF IInv

\* What a delivery does to the rows.
LEMMA DeliverGrows ==
  ASSUME Rows, NEW n, n.id \in Ids, NEW reply \in Booleans, NEW notes \in SUBSET Notes,
         Deliver(n, reply, notes), outbox' = outbox, now \in Nat, now' = now
  PROVE  /\ Grown /\ \A i \in Ids : i # n.id => hist'[i] = hist[i]
         /\ hist'[n.id].delivered = hist[n.id].delivered + 1 /\ Told(n.id)'
         /\ hist'[n.id].reply = reply /\ hist'[n.id].notes = hist[n.id].notes \cup notes
<1>1. /\ hist' \in Seq(Histories) /\ Len(hist') = Len(outbox)
      /\ \A i \in Ids : i # n.id => hist'[i] = hist[i]
      /\ hist'[n.id].delivered = hist[n.id].delivered + 1
      /\ hist'[n.id].reply = reply
      /\ hist'[n.id].notes = hist[n.id].notes \cup notes
  BY DeliverEffect
<1>2. Ids' = Ids /\ \A i \in Ids : hist[i].delivered \in Nat
  BY RowFacts DEF Ids, Histories
<1>3. Rows'
  BY <1>1, <1>2 DEF Rows
<1>4. \A i \in Ids : /\ hist[i].notes \subseteq hist'[i].notes
                     /\ hist[i].delivered <= hist'[i].delivered
  <2> SUFFICES ASSUME NEW i \in Ids
               PROVE  /\ hist[i].notes \subseteq hist'[i].notes
                      /\ hist[i].delivered <= hist'[i].delivered
    OBVIOUS
  <2>1. CASE i = n.id
    BY <2>1, <1>1, <1>2
  <2>2. CASE i # n.id
    BY <2>2, <1>1, <1>2
  <2> QED BY <2>1, <2>2
<1>5. Grown
  BY <1>2, <1>3, <1>4 DEF Grown, SameKey
<1>6. Told(n.id)'
  BY <1>1, <1>2 DEF Told
<1> QED BY <1>1, <1>5, <1>6

\* A notification is delivered, and is to be marked.
LEMMA DeliverIInv ==
  ASSUME IInv, NEW p \in Threads, thread[p].pc = "send", NEW n \in Reached(p),
         n.dest \in thread[p].clients, NEW c \in Notification, c.id = n.id,
         SameKey(c, n), n.dest \in Slacks => c.key = Posted,
         NEW u \in Locals, Step(p, u), u.pc = "mark", u.cur = c,
         \A m : m \in u.todo <=> m \in thread[p].todo /\ m # n,
         u.clients = thread[p].clients,
         NEW reply \in Booleans, NEW notes \in SUBSET Notes, Deliver(n, reply, notes),
         notes = {} => reply = HasThread(n),
         Fault \/ NoFault, UNCHANGED <<process, tables, requests>>
  PROVE  IInv'
<1> DEFINE t == thread[p]
<1>t. t \in Locals /\ now \in Nat /\ pages \subseteq Pagers \X Keys /\ Sending(p)
  BY DEF IInv, Simple, Sending
<1>o. outbox' = outbox /\ now' = now
  BY DEF tables, process
<1>3. /\ thread' \in [Threads -> Locals] /\ thread'[p] = u
      /\ n \in t.todo /\ n \in Notification /\ n.id \in Ids /\ n.id \in ToSend(p)
      /\ SameKey(outbox[n.id], n)
      /\ \A m \in t.todo : (m.id = n.id => m = n) /\ outbox[m.id].dest = m.dest
      /\ Marked /\ \A q \in Threads : q # p => Shrinks(q) /\ PutAway(q)
  BY <1>o, SendFacts
<1>4. /\ Grown /\ \A i \in Ids : i # n.id => hist'[i] = hist[i]
      /\ hist'[n.id].delivered = hist[n.id].delivered + 1 /\ Told(n.id)'
      /\ hist'[n.id].reply = reply /\ hist'[n.id].notes = hist[n.id].notes \cup notes
  BY <1>3, <1>o, <1>t, DeliverGrows DEF IInv, Passes
<1>5. n.id \notin ToSend(p)'
  BY <1>3 DEF ToSend
<1>6. Shrinks(p)
  <2>1. SameKey(outbox[c.id], c) /\ (c.dest \in Slacks => c.key = Posted)
    BY <1>3 DEF SameKey
  <2> QED BY <2>1, <1>3, <1>4, <1>5, <1>t DEF Shrinks, Sending
<1>7. PutAway(p)
  <2> SUFFICES ASSUME NEW m \in u.todo, NEW i \in Ids, Earlier(i, m), i \in ToSend(p),
                      i \notin ToSend(p)'
               PROVE  Settled(i)'
    BY <1>3 DEF PutAway
  <2>1. i = n.id
    BY <1>3 DEF ToSend
  <2> QED BY <2>1, <1>4 DEF Settled
<1>8. Marks(p, n.id)' /\ (n.dest \in Slacks => thread'[p].cur.key = Posted)
  BY <1>3 DEF Marks
<1>9. hist'[n.id].notes = {} => hist'[n.id].reply = HasThread(n)
  BY <1>4
<1>10. Passes'
  BY <1>3, <1>4, <1>5, <1>6, <1>7, <1>8, <1>9, <1>o, Delivery DEF IInv
<1>11. UNCHANGED <<settings, alerts>> /\ pages' \subseteq Pagers \X Keys
  BY <1>3, <1>t, PagesType DEF tables, Deliver
<1> QED BY <1>3, <1>10, <1>11, <1>t, PassStep

Unrecorded(notes) == "not recorded" \in notes

\* A send failed, before or after the destination took the message.
LEMMA SendFailsIInv ==
  ASSUME IInv, NEW p \in Threads, thread[p].pc = "send", NEW n \in Reached(p),
         n.dest \in thread[p].clients, Fault,
         NEW w \in Locals, Step(p, Loop(w)), w.clients = thread[p].clients,
         \A m : m \in w.todo <=> m \in thread[p].todo /\ m.dest # n.dest,
         NEW notes \in SUBSET Notes, Unrecorded(notes),
         UNCHANGED <<pages, hist>> \/ Deliver(n, HasThread(n), notes),
         UNCHANGED <<process, tables, requests>>
  PROVE  IInv'
<1> DEFINE t == thread[p]
           u == Loop(w)
<1>u. /\ u \in Locals /\ u.pc = (IF u.todo = {} THEN "idle" ELSE "send")
      /\ u.todo # {} => u.clients = t.clients
      /\ \A m : m \in u.todo <=> m \in t.todo /\ m.dest # n.dest
  BY LoopType
<1>s. Step(p, u)
  OBVIOUS
<1> HIDE DEF u
<1>t. t \in Locals /\ now \in Nat /\ pages \subseteq Pagers \X Keys /\ Sending(p)
  BY DEF IInv, Simple, Sending
<1>o. outbox' = outbox /\ now' = now
  BY DEF tables, process
<1>3. /\ thread' \in [Threads -> Locals] /\ thread'[p] = u
      /\ n \in t.todo /\ n \in Notification /\ n.id \in Ids /\ n.id \in ToSend(p)
      /\ SameKey(outbox[n.id], n)
      /\ \A m \in t.todo : (m.id = n.id => m = n) /\ outbox[m.id].dest = m.dest
      /\ Marked /\ \A q \in Threads : q # p => Shrinks(q) /\ PutAway(q)
  BY <1>o, <1>u, <1>s, SendFacts
<1>4. \A m : m \in u.todo <=> m \in t.todo /\ m.dest # n.dest
  BY <1>u
<1>5. n.id \notin ToSend(p)'
  BY <1>3, <1>4 DEF ToSend
<1>6. Shrinks(p)
  BY <1>3, <1>4, <1>t, <1>u DEF Shrinks, Sending
<1>7. PutAway(p)
  <2> SUFFICES ASSUME NEW m \in u.todo, NEW i \in Ids, Earlier(i, m), i \in ToSend(p),
                      i \notin ToSend(p)'
               PROVE  FALSE
    BY <1>3 DEF PutAway
  <2>1. PICK k \in t.todo : k.id = i
    BY DEF ToSend
  <2>2. k \notin u.todo
    BY <2>1, <1>3 DEF ToSend
  <2>3. k.dest = n.dest /\ outbox[i].dest = n.dest
    BY <2>1, <2>2, <1>3, <1>4
  <2> QED BY <2>3, <1>4 DEF Earlier
<1>8. Passes' /\ pages' \subseteq Pagers \X Keys
  <2>1. CASE UNCHANGED <<pages, hist>>
    <3>1. Rows /\ Ids' = Ids /\ \A i \in Ids : hist[i].delivered \in Nat
      BY <1>o, RowFacts DEF IInv, Passes, Ids, Histories
    <3>2. Rows'
      BY <3>1, <2>1, <1>o DEF Rows
    <3>3. Grown
      BY <3>1, <3>2, <2>1, <1>o, <1>t DEF Grown, SameKey
    <3> QED BY <3>3, <2>1, <1>3, <1>6, <1>7, <1>t, Undelivered DEF IInv
  <2>2. CASE Deliver(n, HasThread(n), notes)
    <3>1. HasThread(n) \in Booleans
      BY DEF HasThread, Booleans
    <3>2. /\ Grown /\ \A i \in Ids : i # n.id => hist'[i] = hist[i]
          /\ hist'[n.id].delivered = hist[n.id].delivered + 1
          /\ hist'[n.id].notes = hist[n.id].notes \cup notes
      BY <2>2, <3>1, <1>3, <1>o, <1>t, DeliverGrows DEF IInv, Passes
    <3>3. ~Clean(n.id)' /\ hist'[n.id].notes # {}
      BY <3>2 DEF Clean, Unrecorded
    <3>4. Passes'
      BY <3>2, <3>3, <1>3, <1>5, <1>6, <1>7, <1>o, Delivery DEF IInv
    <3>5. pages' \subseteq Pagers \X Keys
      BY <2>2, <1>3, <1>t, PagesType DEF Deliver
    <3> QED BY <3>4, <3>5
  <2> QED BY <2>1, <2>2
<1>9. UNCHANGED <<process, settings, alerts, requests>> /\ u.pc \in {"idle", "send"}
  BY <1>u DEF tables
<1> QED BY <1>3, <1>8, <1>9, <1>t, <1>u, <1>s, PassStep

LEMMA SendIInv ==
  ASSUME IInv, NEW p \in Threads, Send(p)
  PROVE  IInv'
<1> DEFINE t == thread[p]
<1>1. t.pc = "send" /\ UNCHANGED <<process, tables, requests>>
  BY DEF Send
<1>2. PICK n \in Reached(p) :
         \/ /\ n.dest \notin t.clients /\ NoFault
            /\ Step(p, [t EXCEPT !.pc = "mark", !.cur = n, !.todo = @ \ {n}])
            /\ hist' = Note({n.id}, "no client")
            /\ UNCHANGED pages
         \/ /\ n.dest \in t.clients
            /\ Step(p, [t EXCEPT !.pc = "mark", !.todo = @ \ {n},
                                 !.cur = IF n.dest \in Slacks THEN [n EXCEPT !.key = Posted] ELSE n])
            /\ \/ NoFault /\ Deliver(n, HasThread(n), {})
               \/ n.dest \in Slacks /\ Fault /\ Deliver(n, FALSE, {"no thread"})
         \/ /\ n.dest \in t.clients /\ Fault
            /\ Step(p, Loop([t EXCEPT !.todo = @ \ Skipped(p, n)]))
            /\ \/ UNCHANGED <<pages, hist>>
               \/ Deliver(n, HasThread(n), {"not recorded"})
  BY DEF Send
<1>t. /\ t \in Locals /\ now \in Nat /\ pages \subseteq Pagers \X Keys /\ Sending(p)
      /\ outbox' = outbox /\ now' = now /\ Rows /\ UNCHANGED <<process, settings, alerts, requests>>
  BY <1>1 DEF IInv, Simple, Passes, Sending, process, tables
<1>n. n \in Notification /\ n.id \in Ids
  <2>1. Holds(p)
    BY DEF IInv, Passes
  <2> QED BY <2>1 DEF Reached, Holds, RowOf
<1> HIDE DEF t
<1>3. CASE /\ n.dest \notin t.clients /\ NoFault
           /\ Step(p, [t EXCEPT !.pc = "mark", !.cur = n, !.todo = @ \ {n}])
           /\ hist' = Note({n.id}, "no client")
           /\ UNCHANGED pages
  <2> DEFINE ids == {n.id}
  <2>u. PICK u : Takes(t, n, n, u)
    BY DEF Takes
  <2>1. /\ u \in Locals /\ u.pc = "mark" /\ u.cur = n /\ u.clients = t.clients
        /\ \A m : m \in u.todo <=> m \in t.todo /\ m # n
    BY <2>u, <1>t, <1>n, MarkLocals
  <2>2. Step(p, u) /\ hist' = Note(ids, "no client") /\ n.id \in ids
    BY <1>3, <2>u DEF Takes
  <2> HIDE DEF ids
  <2>3. "no client" \in Notes
    BY DEF Notes
  <2>4. /\ Grown /\ NoClient(n.id)'
        /\ \A i \in Ids : hist'[i].delivered = hist[i].delivered /\ hist'[i].reply = hist[i].reply
    BY <2>2, <2>3, <1>n, <1>t, NoteGrows DEF NoClient
  <2>5. Passes' /\ thread' \in [Threads -> Locals]
    BY <1>1, <1>3, <1>t, <2>1, <2>2, <2>4, NoClientIInv, SendFacts, ZenonT(60) DEF t
  <2>6. pages' \subseteq Pagers \X Keys /\ (Fault \/ NoFault) /\ u.pc \in {"idle", "send", "mark"}
    BY <1>3, <1>t, <2>1
  <2> QED BY <1>t, <2>1, <2>2, <2>5, <2>6, PassStep
<1>4. CASE /\ n.dest \in t.clients
           /\ Step(p, [t EXCEPT !.pc = "mark", !.todo = @ \ {n},
                                !.cur = IF n.dest \in Slacks THEN [n EXCEPT !.key = Posted] ELSE n])
           /\ \/ NoFault /\ Deliver(n, HasThread(n), {})
              \/ n.dest \in Slacks /\ Fault /\ Deliver(n, FALSE, {"no thread"})
  <2> DEFINE c == IF n.dest \in Slacks THEN [n EXCEPT !.key = Posted] ELSE n
  <2>2. /\ c \in Notification /\ c.id = n.id /\ SameKey(c, n)
        /\ n.dest \in Slacks => c.key = Posted
    BY <1>n DEF Notification, SameKey, Keys
  <2>s. Step(p, [t EXCEPT !.pc = "mark", !.todo = @ \ {n}, !.cur = c])
    BY <1>4
  <2> HIDE DEF c
  <2>e. PICK u : Takes(t, c, n, u)
    BY DEF Takes
  <2>u. Step(p, u)
    BY <2>s, <2>e, <1>t DEF Locals, Takes
  <2>3. /\ u \in Locals /\ u.pc = "mark" /\ u.cur = c /\ u.clients = t.clients
        /\ \A m : m \in u.todo <=> m \in t.todo /\ m # n
    BY <2>e, <1>t, <2>2, MarkLocals
  <2> DEFINE none == {}
             noThread == {"no thread"}
  <2>4. /\ HasThread(n) \in Booleans /\ FALSE \in Booleans
        /\ none \in SUBSET Notes /\ noThread \in SUBSET Notes /\ noThread # {}
    BY DEF HasThread, Booleans, Notes
  <2>d. \/ NoFault /\ Deliver(n, HasThread(n), none)
        \/ Fault /\ Deliver(n, FALSE, noThread)
    BY <1>4
  <2>c. n.dest \in t.clients
    BY <1>4
  <2> HIDE DEF none, noThread
  <2>5. CASE NoFault /\ Deliver(n, HasThread(n), none)
    BY <2>2, <2>3, <2>u, <2>4, <2>5, <2>c, <1>1, DeliverIInv DEF t
  <2>6. CASE Fault /\ Deliver(n, FALSE, noThread)
    BY <2>2, <2>3, <2>u, <2>4, <2>6, <2>c, <1>1, DeliverIInv DEF t
  <2> QED BY <2>d, <2>5, <2>6
<1>5. CASE /\ n.dest \in t.clients /\ Fault
           /\ Step(p, Loop([t EXCEPT !.todo = @ \ Skipped(p, n)]))
           /\ \/ UNCHANGED <<pages, hist>>
              \/ Deliver(n, HasThread(n), {"not recorded"})
  <2> DEFINE v == t.todo \ Skipped(p, n)
             w == [t EXCEPT !.todo = v]
             notes == {"not recorded"}
  <2>s. Step(p, Loop(w)) /\ (UNCHANGED <<pages, hist>> \/ Deliver(n, HasThread(n), notes))
    BY <1>5
  <2>n. notes \in SUBSET Notes /\ Unrecorded(notes)
    BY DEF Notes, Unrecorded
  <2>v. v \in SUBSET Notification
    BY <1>t DEF Locals
  <2>x. \A m : m \in v <=> m \in t.todo /\ m.dest # n.dest
    BY DEF Skipped, t
  <2> HIDE DEF v, notes
  <2>w. w \in Locals /\ w.todo = v /\ w.clients = t.clients
    BY <1>t, <2>v DEF Locals
  <2> HIDE DEF w
  <2>c. n.dest \in t.clients /\ Fault
    BY <1>5
  <2> QED BY <1>1, <2>c, <2>s, <2>n, <2>x, <2>w, SendFailsIInv DEF t
<1> QED BY <1>2, <1>3, <1>4, <1>5

\* The end of a send, whatever became of its UPDATE: the pass goes on.
LEMMA MarkFacts ==
  ASSUME IInv, NEW p \in Threads, thread[p].pc = "mark", Step(p, Loop(thread[p]))
  PROVE  /\ Loop(thread[p]) \in Locals /\ thread' \in [Threads -> Locals] /\ thread'[p].pc # "mark"
         /\ Loop(thread[p]).pc \in {"idle", "send"}
         /\ \A q \in Threads : q # p => thread'[q] = thread[q]
         /\ \A q \in Threads : Shrinks(q) /\ PutAway(q)
<1> DEFINE u == Loop(thread[p])
<1>1. thread \in [Threads -> Locals] /\ thread[p] \in Locals
  BY DEF IInv, Simple
<1>2. /\ u \in Locals /\ u.todo = thread[p].todo
      /\ u.pc = (IF u.todo = {} THEN "idle" ELSE "send")
      /\ u.todo # {} => u.clients = thread[p].clients
  BY <1>1, LoopType
<1>3. Step(p, u)
  OBVIOUS
<1> HIDE DEF u
<1>4. /\ thread' \in [Threads -> Locals] /\ thread'[p] = u
      /\ \A q \in Threads : q # p => thread'[q] = thread[q]
  BY <1>1, <1>2, <1>3 DEF Step
<1>5. ASSUME NEW q \in Threads PROVE Shrinks(q) /\ PutAway(q)
  <2>1. CASE q = p
    BY <2>1, <1>2, <1>4 DEF Shrinks, PutAway, Sending, ToSend
  <2>2. CASE q # p
    <3>1. Holds(q) /\ thread'[q] = thread[q]
      BY <2>2, <1>4 DEF IInv, Passes
    <3> QED BY <3>1 DEF Shrinks, PutAway, Holds, Sending, ToSend
  <2> QED BY <2>1, <2>2
<1>6. u.pc \in {"idle", "send"} /\ u.pc # "mark"
  BY <1>2
<1> QED BY <1>2, <1>4, <1>5, <1>6 DEF u

\* UpdateAlertNotification marks the row that was sent, and rows it cannot tell
\* from it.
LEMMA RecordedPasses ==
  ASSUME IInv, NEW p \in Threads, thread[p].pc = "mark", NEW c, c = thread[p].cur,
         outbox' = Recorded(c), hist' = hist, now' = now,
         \A q \in Threads : Shrinks(q) /\ PutAway(q),
         \A q \in Threads : q # p => thread'[q] = thread[q]
  PROVE  Passes'
<1>1. /\ c \in Notification /\ c.id \in Ids /\ SameKey(outbox[c.id], c)
      /\ Told(c.id) \/ NoClient(c.id)
      /\ c.dest \notin Slacks \/ c.key = Posted \/ NoClient(c.id)
  <2>1. Holds(p)
    BY DEF IInv, Passes
  <2> QED BY <2>1 DEF Holds, RowOf, NoClient
<1>2. /\ Rows /\ now \in Nat /\ Len(outbox) \in Nat /\ Ids = 1..Len(outbox)
      /\ \A i \in Ids : hist[i].delivered \in Nat /\ outbox[i].id = i
  BY RowFacts DEF IInv, Simple, Passes, Histories, Rows
<1>o. PICK o : o = outbox'
  OBVIOUS
<1>f. /\ o \in Seq(Notification) /\ Len(o) = Len(outbox)
      /\ \A i \in Ids :
           /\ o[i].id = outbox[i].id /\ o[i].alert = outbox[i].alert
           /\ o[i].dest = outbox[i].dest /\ o[i].ts = outbox[i].ts
           /\ o[i].sent <=> (outbox[i].sent \/ SameKey(outbox[i], c))
           /\ SameKey(outbox[i], c) => o[i].key = c.key
           /\ ~SameKey(outbox[i], c) => o[i].key = outbox[i].key
  <2>1. o = Recorded(c) /\ Rows /\ c \in Notification
    BY <1>o, <1>1, <1>2
  <2> QED BY <2>1, RecordedEffect
<1>3. /\ outbox' \in Seq(Notification) /\ Len(outbox') = Len(outbox)
      /\ \A i \in Ids :
           /\ outbox'[i].id = outbox[i].id /\ outbox'[i].alert = outbox[i].alert
           /\ outbox'[i].dest = outbox[i].dest /\ outbox'[i].ts = outbox[i].ts
           /\ outbox'[i].sent <=> (outbox[i].sent \/ SameKey(outbox[i], c))
           /\ SameKey(outbox[i], c) => outbox'[i].key = c.key
           /\ ~SameKey(outbox[i], c) => outbox'[i].key = outbox[i].key
  BY <1>o, <1>f
<1>4. Ids' = Ids
  BY <1>2, <1>3 DEF Ids
<1>5. Grown
  <2>1. Rows'
    BY <1>2, <1>3, <1>4 DEF Rows
  <2> QED BY <2>1, <1>2, <1>3, <1>4 DEF Grown, SameKey
<1>s. \A i \in Ids : SameKey(outbox[i], c) => SameKey(outbox[i], outbox[c.id])
  BY <1>1 DEF SameKey
<1>6. Marked
  <2>1. \A i \in Ids : outbox'[i].sent /\ ~outbox[i].sent =>
          \E j \in Ids : /\ SameKey(outbox[i], outbox[j])
                         /\ Told(j) \/ "no client" \in hist[j].notes
    BY <1>1, <1>3, <1>s DEF NoClient
  <2>2. ASSUME NEW q \in Threads, NEW i \in Ids, Marks(q, i)
        PROVE  \/ Marks(q, i)' /\ thread'[q].cur.key = thread[q].cur.key
               \/ outbox'[i].sent /\ (thread[q].cur.key = Posted => outbox'[i].key = Posted)
    <3>1. CASE q = p
      BY <3>1, <2>2, <1>1, <1>3 DEF Marks
    <3>2. CASE q # p
      BY <3>2, <2>2 DEF Marks
    <3> QED BY <3>1, <3>2
  <2>3. ASSUME NEW i \in Ids, Unique(i), hist'[i].notes = {}, outbox[i].key = Posted,
               outbox[i].dest \in Slacks
        PROVE  outbox'[i].key = Posted
    <3>1. CASE SameKey(outbox[i], c)
      <4>1. c.id = i
        BY <2>3, <3>1, <1>1, <1>s DEF Unique
      <4>2. c.dest \in Slacks /\ ~NoClient(i)
        BY <2>3, <3>1 DEF SameKey, NoClient
      <4> QED BY <4>1, <4>2, <3>1, <1>1, <1>3
    <3>2. CASE ~SameKey(outbox[i], c)
      BY <3>2, <2>3, <1>3
    <3> QED BY <3>1, <3>2
  <2> QED BY <2>1, <2>2, <2>3, ZenonT(60) DEF Marked
<1>7. \A i \in Ids : hist'[i].delivered = hist[i].delivered /\ hist'[i].reply = hist[i].reply
  OBVIOUS
<1> QED BY <1>5, <1>6, <1>7, Undelivered DEF IInv

\* If q is about to mark a row, the row is one of ids.
MarksOf(q, ids) == thread[q].pc = "mark" => thread[q].cur.id \in ids

\* A row with this note is not clean.
Spoils(what) == \A s : what \in s => s \cap {"overlap", "not recorded"} # {}

\* What could not be recorded is noted.
LEMMA UnrecordedPasses ==
  ASSUME IInv, NEW ids, NEW what \in Notes, Spoils(what), hist' = Note(ids, what),
         outbox' = outbox, now' = now,
         \A q \in Threads : Shrinks(q) /\ PutAway(q),
         \A q \in Threads : thread'[q] = thread[q] \/ MarksOf(q, ids)
  PROVE  Passes'
<1>1. Rows /\ now \in Nat
  BY DEF IInv, Simple, Passes
<1>2. /\ Grown /\ \A i \in Ids \cap ids : what \in hist'[i].notes
      /\ \A i \in Ids : hist'[i].delivered = hist[i].delivered /\ hist'[i].reply = hist[i].reply
  BY <1>1, NoteGrows
<1>3. \A i \in Ids \cap ids : ~Clean(i)'
  BY <1>2 DEF Clean, Spoils
<1>4. Marked
  <2>1. ASSUME NEW q \in Threads, NEW i \in Ids, Marks(q, i)
        PROVE  \/ Marks(q, i)' /\ thread'[q].cur.key = thread[q].cur.key
               \/ ~Clean(i)'
    <3>1. CASE thread'[q] = thread[q]
      BY <3>1, <2>1 DEF Marks
    <3>2. CASE MarksOf(q, ids)
      BY <3>2, <2>1, <1>3 DEF Marks, MarksOf
    <3> QED BY <3>1, <3>2
  <2> QED BY <2>1 DEF Marked
<1> QED BY <1>2, <1>4, Undelivered DEF IInv

LEMMA MarkIInv ==
  ASSUME IInv, NEW p \in Threads, Mark(p)
  PROVE  IInv'
<1>1. /\ thread[p].pc = "mark" /\ Step(p, Loop(thread[p])) /\ (Fault \/ NoFault)
      /\ UNCHANGED <<process, settings, alerts, pages, requests>>
  BY DEF Mark
<1>2. /\ Loop(thread[p]) \in Locals /\ thread' \in [Threads -> Locals]
      /\ Loop(thread[p]).pc \in {"idle", "send"}
      /\ \A q \in Threads : q # p => thread'[q] = thread[q]
      /\ \A q \in Threads : Shrinks(q) /\ PutAway(q)
  BY <1>1, MarkFacts
<1>n. now' = now
  BY <1>1 DEF process
<1>3. ASSUME outbox' = Recorded(thread[p].cur), hist' = hist PROVE Passes'
  <2>1. PICK c : c = thread[p].cur
    OBVIOUS
  <2> QED BY <1>1, <1>2, <1>3, <1>n, <2>1, RecordedPasses
<1>4. ASSUME hist' = Note({thread[p].cur.id}, "not recorded"), outbox' = outbox PROVE Passes'
  <2> DEFINE ids == {thread[p].cur.id}
             what == "not recorded"
  <2>1. hist' = Note(ids, what) /\ thread[p].cur.id \in ids /\ outbox' = outbox
    BY <1>4
  <2>w. what \in Notes /\ Spoils(what)
    BY DEF Notes, Spoils
  <2> HIDE DEF ids, what
  <2>2. MarksOf(p, ids)
    BY <2>1 DEF MarksOf
  <2>3. \A q \in Threads : thread'[q] = thread[q] \/ MarksOf(q, ids)
    BY <2>2, <1>2
  <2> QED BY <1>2, <1>n, <2>1, <2>w, <2>3, UnrecordedPasses
<1>5. Passes'
  BY <1>3, <1>4 DEF Mark
<1>6. pages' \subseteq Pagers \X Keys /\ Sending(p) /\ UNCHANGED <<process, settings, alerts, requests>>
  BY <1>1 DEF IInv, Simple, Sending
<1> DEFINE u == Loop(thread[p])
<1>7. u \in Locals /\ Step(p, u) /\ u.pc \in {"idle", "send", "mark"}
  BY <1>1, <1>2
<1> HIDE DEF u
<1>8. Fault \/ NoFault
  BY <1>1
<1> QED BY <1>2, <1>5, <1>6, <1>7, <1>8, PassStep

-----------------------------------------------------------------------------
(* Crash *)

LEMMA CrashIInv ==
  ASSUME IInv, NEW r \in Replicas, Crash(r)
  PROVE  IInv'
<1> DEFINE mine == {p \in Threads : p[1] = r}
           ids == {thread[p].cur.id : p \in {q \in mine : thread[q].pc = "mark"}}
           what == "not recorded"
<1>1. /\ Fault /\ r \in up /\ up' = up \ {r}
      /\ primary' = (IF primary = r THEN None ELSE primary)
      /\ thread' = [p \in Threads |-> IF p \in mine THEN Idle ELSE thread[p]]
      /\ hist' = Note(ids, what)
      /\ UNCHANGED <<now, checked, lost, tables, pages, requests>>
  BY DEF Crash
<1>w. what \in Notes /\ Spoils(what)
  BY DEF Notes, Spoils
<1>2. \A q \in mine : thread[q].pc = "mark" => thread[q].cur.id \in ids
  OBVIOUS
<1>m. \A q \in Threads : q \in mine <=> q[1] = r
  OBVIOUS
<1> HIDE DEF mine, ids, what
<1>3. /\ thread' \in [Threads -> Locals]
      /\ \A q \in Threads : IF q \in mine THEN thread'[q].pc = "idle" /\ thread'[q].todo = {}
                            ELSE thread'[q] = thread[q]
  BY <1>1, IdleType DEF IInv, Simple
<1>4. ASSUME NEW q \in Threads PROVE Shrinks(q) /\ PutAway(q)
  <2>1. CASE q \in mine
    BY <2>1, <1>3 DEF Shrinks, PutAway, Sending
  <2>2. CASE q \notin mine
    <3>1. Holds(q) /\ thread'[q] = thread[q]
      BY <2>2, <1>3 DEF IInv, Passes
    <3> QED BY <3>1 DEF Shrinks, PutAway, Holds, Sending, ToSend
  <2> QED BY <2>1, <2>2
<1>5. Passes'
  <2>1. \A q \in Threads : thread'[q] = thread[q] \/ MarksOf(q, ids)
    BY <1>2, <1>3 DEF MarksOf
  <2>2. outbox' = outbox /\ now' = now /\ hist' = Note(ids, what)
    BY <1>1 DEF tables
  <2> QED BY <2>1, <2>2, <1>w, <1>4, UnrecordedPasses
<1>6. Control'
  <2>1. \A q \in Threads : Puts(q)'
    BY <1>3 DEF IInv, Control, Puts
  <2>2. PrimaryWorks'
    BY <1>1, <1>3, <1>m DEF IInv, Control, PrimaryWorks, Working
  <2>3. OneSends'
    BY <1>3 DEF IInv, Control, OneSends, Sending
  <2> QED BY <2>1, <2>2, <2>3 DEF Control
<1>7. Simple'
  <2>1. primary' \in up' \cup {None} /\ up' \subseteq Replicas
    BY <1>1 DEF IInv, Simple
  <2>2. faults' \in 0..MaxFaults
    BY <1>1, FaultCount DEF IInv, Simple
  <2> QED BY <2>1, <2>2, <1>1, <1>3 DEF IInv, Simple, tables, settings
<1> QED BY <1>5, <1>6, <1>7 DEF IInv

-----------------------------------------------------------------------------
(* The theorems *)

LEMMA NextIInv == IInv /\ [Next]_vars => IInv'
<1> SUFFICES ASSUME IInv, [Next]_vars PROVE IInv'
  OBVIOUS
<1>1. ASSUME NEW r \in Replicas, NEW a \in Alerts, Check(r, a) PROVE IInv'
  BY <1>1, CheckIInv
<1>2. ASSUME NEW r \in Replicas, NEW a \in Alerts, EndAlert(r, a) PROVE IInv'
  BY <1>2, EndAlertIInv
<1>3. ASSUME NEW r \in Replicas, Retry(r) PROVE IInv'
  BY <1>3, RetryIInv
<1>4. ASSUME NEW r \in Replicas, Elect(r) \/ Restart(r) PROVE IInv'
  BY <1>4, StillIInv
<1>5. ASSUME NEW r \in Replicas, Crash(r) PROVE IInv'
  BY <1>5, CrashIInv
<1>6. ASSUME NEW s \in Severities, EditSeverity(s) PROVE IInv'
  BY <1>6, StillIInv
<1>7. ASSUME NEW d \in Destinations, EditIntegration(d) PROVE IInv'
  BY <1>7, StillIInv
<1>8. ASSUME NEW p \in Threads, ThreadStep(p) PROVE IInv'
  BY <1>8, PutIInv, BeginPassIInv, SendIInv, MarkIInv DEF ThreadStep
<1>9. ASSUME LoseLock \/ Tick PROVE IInv'
  BY <1>9, StillIInv
<1>10. CASE UNCHANGED vars
  <2>1. Passes'
    BY <1>10, Quiet DEF vars, IInv, Simple
  <2>2. Control'
    BY <1>10 DEF vars, IInv, Control, Puts, PrimaryWorks, Working, OneSends, Sending
  <2>3. Simple'
    BY <1>10 DEF vars, settings, IInv, Simple
  <2> QED BY <2>1, <2>2, <2>3 DEF IInv
<1> QED BY <1>1, <1>2, <1>3, <1>4, <1>5, <1>6, <1>7, <1>8, <1>9, <1>10 DEF Next

(* What every state of the notifications satisfies: the types, that only the *)
(* primary works until a lock is lost, that sendLock keeps the passes of a   *)
(* process apart, and what a pass may assume of the rows in its hands.       *)
THEOREM NotifierInvariance == Spec => []IInv
<1>1. Init => IInv
  BY InitIInv
<1>2. IInv /\ [Next]_vars => IInv'
  BY NextIInv
<1> QED BY <1>1, <1>2, PTL DEF Spec

(* Every variable has its type; a row's id is its place, and a thread holds  *)
(* only rows of the table (alert_notification.go, alerts.go: sendAlerts).    *)
THEOREM NotifierTypeCorrect == Spec => []TypeOK
<1>1. ASSUME IInv PROVE TypeOK
  <2>1. /\ DOMAIN hist = Ids
        /\ \A i \in Ids : outbox[i] \in Notification /\ hist[i] \in Histories /\ outbox[i].id = i
    BY <1>1, RowFacts DEF IInv, Passes, Rows
  <2>2. \A i \in Ids : hist[i] \in [by : {"watcher", "api"}, delivered : Nat, reply : BOOLEAN,
                                    notes : SUBSET {"overlap", "no client", "no thread",
                                                    "not recorded"}]
    BY <2>1 DEF Histories, Booleans, Notes
  <2>3. ASSUME NEW p \in Threads
        PROVE  /\ thread[p].pc \in {"idle", "put", "lock", "send", "mark"}
               /\ thread[p].todo \subseteq Notification /\ Held(p) \subseteq Ids
    <3>1. thread[p] \in Locals /\ Holds(p)
      BY <1>1 DEF IInv, Simple, Passes
    <3>2. Held(p) \subseteq Ids
      BY <3>1, ZenonT(60) DEF Holds, RowOf, Held
    <3> QED BY <3>1, <3>2 DEF Locals
  <2>4. DOMAIN thread = Threads
    BY <1>1 DEF IInv, Simple
  <2>5. /\ primary \in up \cup {None} /\ up \subseteq Replicas
        /\ now \in 1..MaxTime /\ checked \in [Replicas -> 0..MaxTime]
        /\ route \in Routes /\ severity \in Severities /\ clients \subseteq Destinations
        /\ alerts \in [Alerts -> [state : {"none", "firing", "resolved"},
                                  sev : Severities \cup {None}]]
        /\ pages \subseteq Pagers \X Keys
        /\ requests \in 0..MaxRequests /\ faults \in 0..MaxFaults
    BY <1>1 DEF IInv, Simple
  <2>6. lost \in BOOLEAN
    BY <1>1 DEF IInv, Simple
  <2> QED BY <2>1, <2>2, <2>3, <2>4, <2>5, <2>6, Zenon DEF TypeOK
<1> QED BY <1>1, NotifierInvariance, PTL

(* Two passes run at once only on two replicas, after one of them lost the   *)
(* primary lock while it was at work (sendLock and GetPrimaryLock in         *)
(* alerts.go).                                                               *)
THEOREM PassesApartSafety == Spec => []PassesApart
<1>1. ASSUME IInv PROVE PassesApart
  <2> SUFFICES ASSUME NEW p \in Threads, NEW q \in Threads, p # q, Sending(p), Sending(q)
               PROVE  p[1] # q[1] /\ lost
    BY DEF PassesApart
  <2>1. p[1] # q[1]
    BY <1>1 DEF IInv, Control, OneSends
  <2>2. Working(p) /\ Working(q)
    BY DEF Working, Sending
  <2>3. lost
    BY <1>1, <2>1, <2>2 DEF IInv, Control, PrimaryWorks
  <2> QED BY <2>1, <2>3
<1> QED BY <1>1, NotifierInvariance, PTL

(* A notification reaches its destination once, unless what a send did could *)
(* not be recorded or two replicas held it at once (sendAlerts).             *)
THEOREM SentOnceSafety == Spec => []SentOnce
<1>1. ASSUME IInv PROVE SentOnce
  <2> SUFFICES ASSUME NEW i \in Ids, hist[i].delivered > 1
               PROVE  hist[i].notes \cap {"overlap", "not recorded"} # {}
    BY DEF SentOnce
  <2>1. hist[i].delivered \in Nat
    BY <1>1, RowFacts DEF IInv, Passes, Histories
  <2>2. Told(i) /\ hist[i].delivered # 1
    BY <2>1 DEF Told
  <2>3. ~Clean(i)
    BY <1>1, <2>2 DEF IInv, Passes, Once
  <2> QED BY <2>3 DEF Clean
<1> QED BY <1>1, NotifierInvariance, PTL

(* sent_at is set only for what was delivered or has no client               *)
(* (UpdateAlertNotification after a send in sendAlerts).                     *)
THEOREM NoneDroppedSafety == Spec => []NoneDropped
<1>1. IInv => NoneDropped
  BY DEF IInv, Passes
<1> QED BY <1>1, NotifierInvariance, PTL

(* A destination is told of an alert in the order things happened: the order *)
(* of GetNotSentAlertNotifications and failedDestinations in sendAlerts see  *)
(* to it across passes, crashes and lost locks.                              *)
THEOREM InOrderSafety == Spec => []InOrder
<1>1. IInv => InOrder
  BY DEF IInv, Passes
<1> QED BY <1>1, NotifierInvariance, PTL

(* In Slack the end of an alert is a reply to its opening, unless the        *)
(* opening went wrong or the two share a timestamp (the external_key that    *)
(* UpdateAlertNotification keeps, GetPreviousAlertNotifications).            *)
THEOREM ThreadedSafety == Spec => []Threaded
<1>1. IInv => Threaded
  BY DEF IInv, Passes
<1> QED BY <1>1, NotifierInvariance, PTL

-----------------------------------------------------------------------------
(* Pages                                                                   *)
(* An alert is opened once, so all of its openings have one severity, and  *)
(* the pages of a pager are of that; the watcher's resolution closes the   *)
(* key it found, which is the opening's as long as nothing has overwritten *)
(* that.                                                                   *)

\* Someone puts, or has put, an opening of a with severity s.
OpenedAs(a, s) ==
    \/ \E i \in Ids : outbox[i].alert = a /\ outbox[i].status = s /\ s # "OK"
    \/ \E p \in Threads : /\ thread[p].pc = "put" /\ thread[p].alert = a
                          /\ ~thread[p].resolved /\ thread[p].sev = s

OpenedOnce == \A a \in Alerts : \A s, t \in Severities : OpenedAs(a, s) /\ OpenedAs(a, t) => s = t

\* Nothing is told of an alert before it is there.
Begun ==
    \A a \in Alerts : alerts[a].state = "none" =>
        /\ \A i \in Ids : outbox[i].alert # a
        /\ \A p \in Threads : thread[p].pc = "put" => thread[p].alert # a

ApiEnds == \A p \in Threads : thread[p].pc = "put" /\ p[2] = "api" => thread[p].resolved = TRUE

\* The key of an opening is that of its alert and severity.
Proper(n) == n.status # "OK" => n.key = <<n.alert, n.status>>

\* n has the key of an opening of its alert.
Closer(n) ==
    \E j \in Ids : /\ outbox[j].alert = n.alert /\ outbox[j].dest = n.dest
                   /\ outbox[j].status # "OK" /\ n.key = <<n.alert, outbox[j].status>>

\* What a pass makes of n is what its row says.
Good(n) ==
    n.dest \in Pagers =>
        /\ n.status = outbox[n.id].status
        /\ Proper(n)
        /\ n.status = "OK" /\ hist[n.id].by = "watcher" /\ OpeningApart(n.alert, n.dest) => Closer(n)

InHands(p) == thread[p].todo \cup (IF thread[p].pc = "mark" THEN {thread[p].cur} ELSE {})
HandKeys == \A p \in Threads : \A n \in InHands(p) : Good(n)

RowKeys ==
    \A i \in Ids : outbox[i].dest \in Pagers =>
        /\ ~outbox[i].sent => Good(outbox[i])
        /\ Unique(i) => Proper(outbox[i])

\* A page is open because an opening was delivered.
PagesOpened ==
    \A d \in Pagers, a \in Alerts, s \in Severities : <<d, <<a, s>>>> \in pages =>
        \E i \in Ids : outbox[i].alert = a /\ outbox[i].dest = d /\ outbox[i].status = s

Paging == OpenedOnce /\ Begun /\ ApiEnds /\ HandKeys /\ RowKeys /\ PagesOpened

\* The rows stay what they are, but for their keys and whether they were sent.
Carried ==
    /\ Ids \subseteq Ids'
    /\ \A i \in Ids : /\ SameKey(outbox'[i], outbox[i]) /\ outbox'[i].status = outbox[i].status
                      /\ hist'[i].by = hist[i].by

LEMMA CarriedFacts ==
  ASSUME Carried
  PROVE  /\ \A i \in Ids : Unique(i)' => Unique(i)
         /\ \A a, d : OpeningApart(a, d)' => OpeningApart(a, d)
         /\ \A n : Closer(n) => Closer(n)'
         /\ \A n : n.id \in Ids /\ Good(n) => Good(n)'
<1>1. \A i \in Ids : Unique(i)' => Unique(i)
  BY DEF Carried, Unique, SameKey
<1>2. \A a, d : OpeningApart(a, d)' => OpeningApart(a, d)
  BY DEF Carried, OpeningApart, SameKey
<1>3. \A n : Closer(n) => Closer(n)'
  BY DEF Carried, Closer, SameKey
<1>4. \A n : n.id \in Ids /\ Good(n) => Good(n)'
  BY <1>2, <1>3 DEF Carried, Good, Proper
<1> QED BY <1>1, <1>2, <1>3, <1>4

LEMMA HandsAreRows ==
  ASSUME IInv, NEW p \in Threads, NEW n \in InHands(p)
  PROVE  n \in Notification /\ n.id \in Ids /\ SameKey(outbox[n.id], n)
<1>1. Holds(p)
  BY DEF IInv, Passes
<1> QED BY <1>1 DEF Holds, RowOf, InHands

\* What is in no hands before is good after, or nothing to a pager.
LEMMA HandsCarried ==
  ASSUME IInv, Carried, HandKeys,
         \A p \in Threads : \A n \in InHands(p)' :
            n \in InHands(p) \/ n.dest \notin Pagers \/ Good(n)'
  PROVE  HandKeys'
<1> SUFFICES ASSUME NEW p \in Threads, NEW n \in InHands(p)'
             PROVE  Good(n)'
  BY DEF HandKeys
<1>1. CASE n \in InHands(p)
  <2>1. n.id \in Ids /\ Good(n)
    BY <1>1, HandsAreRows DEF HandKeys
  <2> QED BY <2>1, CarriedFacts
<1>2. CASE n.dest \notin Pagers
  BY <1>2 DEF Good
<1> QED BY <1>1, <1>2

LEMMA PagesCarried ==
  ASSUME Carried, PagesOpened, pages' \subseteq pages
  PROVE  PagesOpened'
BY DEF Carried, PagesOpened, SameKey

LEMMA PagesSame ==
  ASSUME Paging, outbox' = outbox, pages' = pages
  PROVE  PagesOpened'
BY DEF Paging, PagesOpened, Ids

\* p puts nothing else than before.
PutsOn(p) ==
    thread'[p].pc = "put" =>
        /\ thread[p].pc = "put"
        /\ thread'[p].alert = thread[p].alert /\ thread'[p].sev = thread[p].sev
        /\ thread'[p].resolved = thread[p].resolved

\* The parts about what is put, after a step that puts nothing new.
LEMMA OpeningsKept ==
  ASSUME OpenedOnce, Begun, ApiEnds, Carried, Ids' = Ids,
         \A a \in Alerts : alerts'[a].state = "none" => alerts[a].state = "none",
         \A p \in Threads : PutsOn(p)
  PROVE  OpenedOnce' /\ Begun' /\ ApiEnds'
<1>1. \A a, s : OpenedAs(a, s)' => OpenedAs(a, s)
  BY DEF OpenedAs, Carried, SameKey, PutsOn
<1>2. OpenedOnce'
  BY <1>1 DEF OpenedOnce
<1>3. Begun'
  BY DEF Begun, Carried, SameKey, PutsOn
<1>4. ApiEnds'
  BY DEF ApiEnds, PutsOn
<1> QED BY <1>2, <1>3, <1>4

\* What RowKeys says of the row i, which is n.
RowKey(i, n) == n.dest \in Pagers => (~n.sent => Good(n)) /\ (Unique(i) => Proper(n))

\* A row of the table, after a step that leaves it alone.
LEMMA RowKeyKept ==
  ASSUME Carried, RowKeys, Rows, NEW i \in Ids, NEW n, n = outbox[i]
  PROVE  RowKey(i, n)'
<1>1. n.id = i
  BY DEF Rows
<1>2. n.dest \in Pagers /\ ~n.sent => Good(n)'
  BY <1>1, CarriedFacts DEF RowKeys
<1>3. n.dest \in Pagers /\ Unique(i)' => Proper(n)
  BY CarriedFacts DEF RowKeys
<1> QED BY <1>2, <1>3 DEF RowKey, Proper

LEMMA RowKeysByRow ==
  ASSUME \A i \in Ids' : \A n : n = outbox'[i] => RowKey(i, n)'
  PROVE  RowKeys'
BY DEF RowKeys, RowKey, Good, Proper, Closer

LEMMA RowsKept ==
  ASSUME Carried, RowKeys, Rows, outbox' = outbox
  PROVE  RowKeys'
<1>1. \A i \in Ids' : \A n : n = outbox'[i] => RowKey(i, n)'
  BY RowKeyKept DEF Ids
<1> QED BY <1>1, RowKeysByRow

\* A step that leaves the table alone, takes nothing new into its hands but rows
\* that were not sent, and puts nothing new.
LEMMA PagingKept ==
  ASSUME IInv, Paging, outbox' = outbox, DOMAIN hist' = Ids,
         \A i \in Ids : hist'[i].by = hist[i].by,
         \A a \in Alerts : alerts'[a].state = "none" => alerts[a].state = "none",
         \A p \in Threads : PutsOn(p),
         \A p \in Threads : \A n \in InHands(p)' :
            \/ n \in InHands(p) \/ n.dest \notin Pagers
            \/ \E i \in Ids : n = outbox[i] /\ ~outbox[i].sent,
         PagesOpened'
  PROVE  Paging'
<1>1. Carried /\ Ids' = Ids /\ Rows
  BY DEF Carried, Ids, SameKey, IInv, Passes
<1>2. OpenedOnce' /\ Begun' /\ ApiEnds'
  BY <1>1, OpeningsKept DEF Paging
<1>3. RowKeys'
  BY <1>1, RowsKept DEF Paging
<1>4. ASSUME NEW n, NEW i \in Ids, n = outbox[i], ~outbox[i].sent
      PROVE  n.dest \notin Pagers \/ Good(n)'
  <2>1. n.id = i /\ (n.dest \in Pagers => Good(n))
    BY <1>1, <1>4 DEF Paging, RowKeys, Rows
  <2> QED BY <2>1, <1>1, CarriedFacts
<1>5. HandKeys'
  BY <1>1, <1>4, HandsCarried DEF Paging
<1> QED BY <1>2, <1>3, <1>5 DEF Paging

\* Nothing new in the hands of a thread whose hands are empty, or as they were.
LEMMA SameHands ==
  ASSUME NEW p \in Threads, IInv,
         \/ thread'[p] = thread[p]
         \/ thread'[p].todo = {} /\ thread'[p].pc # "mark"
  PROVE  InHands(p)' \subseteq InHands(p)
BY DEF InHands

LEMMA InitPaging == Init => Paging
<1> SUFFICES ASSUME Init PROVE Paging
  OBVIOUS
<1>1. \A p \in Threads : thread[p].pc = "idle" /\ thread[p].todo = {}
  BY IdleType DEF Init
<1>2. Ids = {} /\ pages = {}
  BY DEF Init, Ids
<1>3. OpenedOnce /\ Begun /\ ApiEnds
  BY <1>1, <1>2 DEF OpenedOnce, OpenedAs, Begun, ApiEnds
<1>4. HandKeys /\ RowKeys /\ PagesOpened
  BY <1>1, <1>2 DEF HandKeys, InHands, RowKeys, PagesOpened
<1> QED BY <1>3, <1>4 DEF Paging

\* The locals t of a thread that is about to put notifications.
Starts(t, a, sev, res) ==
    t.pc = "put" /\ t.alert = a /\ t.sev = sev /\ t.resolved = res /\ t.todo = {}

\* An opening is put by the watcher, for an alert that was not there.
Opens(p, a) == alerts[a].state = "none" /\ p[2] # "api"

IsIdle(p) == thread[p].pc = "idle"
NoneNew(a) == \A b \in Alerts : alerts'[b].state = "none" => b # a /\ alerts[b].state = "none"

\* A thread that was at nothing begins to put the end of an alert that is there,
\* or the opening of one that was not.
LEMMA BeginsPaging ==
  ASSUME IInv, Paging, NEW p \in Threads, IsIdle(p),
         NEW a \in Alerts, NEW sev \in Severities, NEW res \in Booleans, NEW t,
         Starts(t, a, sev, res), Step(p, t), UNCHANGED <<outbox, hist, pages>>,
         NoneNew(a), ~res => Opens(p, a)
  PROVE  Paging'
<1>1. thread'[p] = t /\ \A q \in Threads : q # p => thread'[q] = thread[q]
  BY DEF Step, IInv, Simple
<1>2. Carried /\ Ids' = Ids /\ Rows
  BY DEF Carried, Ids, SameKey, IInv, Passes
<1>s. /\ t.pc = "put" /\ t.alert = a /\ t.sev = sev /\ t.resolved = res /\ t.todo = {}
      /\ thread[p].pc = "idle" /\ res \in {TRUE, FALSE}
      /\ \A b \in Alerts : alerts'[b].state = "none" => b # a /\ alerts[b].state = "none"
      /\ ~res => alerts[a].state = "none" /\ p[2] # "api"
  BY DEF Starts, IsIdle, NoneNew, Opens, Booleans
<1>3. \A b, s : OpenedAs(b, s)' => OpenedAs(b, s) \/ (b = a /\ s = sev /\ ~res)
  BY <1>1, <1>2, <1>s DEF OpenedAs
<1>4. ~res => \A s : ~OpenedAs(a, s)
  BY <1>s DEF Paging, Begun, OpenedAs
<1>5. OpenedOnce'
  BY <1>3, <1>4 DEF Paging, OpenedOnce
<1>6. Begun'
  BY <1>1, <1>2, <1>s DEF Paging, Begun
<1>7. ApiEnds'
  BY <1>1, <1>s DEF Paging, ApiEnds
<1>8. RowKeys'
  BY <1>2, RowsKept DEF Paging
<1>9. \A q \in Threads : InHands(q)' \subseteq InHands(q)
  BY <1>1, <1>s DEF InHands
<1>10. HandKeys'
  BY <1>2, <1>9, HandsCarried DEF Paging
<1>11. PagesOpened'
  BY <1>2, PagesCarried DEF Paging
<1> QED BY <1>5, <1>6, <1>7, <1>8, <1>10, <1>11 DEF Paging

LEMMA CheckPaging ==
  ASSUME IInv, Paging, NEW r \in Replicas, NEW a \in Alerts, Check(r, a)
  PROVE  Paging'
<1> DEFINE p == <<r, "watcher">>
<1>1. /\ p \in Threads /\ p[2] # "api" /\ thread[p].pc = "idle"
      /\ UNCHANGED <<outbox, hist, pages>>
  BY DEF Check, Threads
<1>2. /\ alerts \in [Alerts -> [state : {"none", "firing", "resolved"},
                                sev : Severities \cup {None}]]
      /\ severity \in Severities /\ now \in 0..MaxTime /\ route \in Seq(Destinations)
  BY DEF IInv, Simple
<1>t. TRUE \in Booleans /\ FALSE \in Booleans
  BY DEF Booleans
<1>i. Idle.todo = {}
  BY IdleType
<1>3. ASSUME NEW sev \in Severities, NEW res \in Booleans,
             Step(p, [Idle EXCEPT !.pc = "put", !.alert = a, !.sev = sev, !.resolved = res,
                                  !.ts = now, !.left = route]),
             NoneNew(a), ~res => alerts[a].state = "none"
      PROVE  Paging'
  <2> DEFINE t == [Idle EXCEPT !.pc = "put", !.alert = a, !.sev = sev, !.resolved = res,
                               !.ts = now, !.left = route]
  <2>1. Starts(t, a, sev, res)
    BY DEF Idle, Starts
  <2>2. Step(p, t) /\ IsIdle(p) /\ (~res => Opens(p, a))
    BY <1>1, <1>3 DEF IsIdle, Opens
  <2> HIDE DEF t, p
  <2> QED BY <2>1, <2>2, <1>1, <1>3, BeginsPaging
<1>4. CASE /\ alerts[a].state = "none"
           /\ alerts' = [alerts EXCEPT ![a] = [state |-> "firing", sev |-> severity]]
           /\ Step(p, [Idle EXCEPT !.pc = "put", !.alert = a, !.sev = severity,
                                   !.resolved = FALSE, !.ts = now, !.left = route])
  <2>1. NoneNew(a)
    BY <1>4, <1>2 DEF NoneNew
  <2> QED BY <2>1, <1>2, <1>3, <1>4, <1>t
<1>5. CASE /\ alerts[a].state = "firing"
           /\ alerts' = [alerts EXCEPT ![a].sev = severity]
           /\ UNCHANGED thread
  <2>1. \A b \in Alerts : alerts'[b].state = "none" => alerts[b].state = "none"
    BY <1>5, <1>2
  <2>2. /\ outbox' = outbox /\ hist' = hist /\ pages' = pages /\ thread' = thread
        /\ DOMAIN hist = Ids
    BY <1>1, <1>5, RowFacts DEF IInv, Passes
  <2>3. PagesOpened'
    BY <2>2, PagesSame
  <2>4. \A q \in Threads : InHands(q)' = InHands(q)
    BY <2>2 DEF InHands
  <2> HIDE DEF p
  <2>5. \A q \in Threads : PutsOn(q)
    BY <2>2 DEF PutsOn
  <2> QED BY <2>1, <2>2, <2>3, <2>4, <2>5, PagingKept
<1>6. CASE /\ alerts[a].state = "firing"
           /\ alerts' = [alerts EXCEPT ![a].state = "resolved"]
           /\ Step(p, [Idle EXCEPT !.pc = "put", !.alert = a, !.sev = alerts[a].sev,
                                   !.resolved = TRUE, !.ts = now, !.left = route])
  <2>1. NoneNew(a)
    BY <1>6, <1>2 DEF NoneNew
  <2>2. alerts[a].sev \in Severities
    BY <1>6 DEF IInv, Simple
  <2> QED BY <2>1, <2>2, <1>3, <1>6, <1>t
<1> QED BY <1>4, <1>5, <1>6 DEF Check

LEMMA EndAlertPaging ==
  ASSUME IInv, Paging, NEW r \in Replicas, NEW a \in Alerts, EndAlert(r, a)
  PROVE  Paging'
<1> DEFINE p == <<r, "api">>
           sev == alerts[a].sev
           t == [Idle EXCEPT !.pc = "put", !.alert = a, !.sev = sev, !.resolved = TRUE,
                             !.ts = now, !.left = route]
<1>1. /\ p \in Threads /\ thread[p].pc = "idle" /\ UNCHANGED <<outbox, hist, pages>>
      /\ alerts[a].state = "firing" /\ Step(p, t)
  BY DEF EndAlert, Threads
<1>2. /\ alerts \in [Alerts -> [state : {"none", "firing", "resolved"},
                                sev : Severities \cup {None}]]
      /\ sev \in Severities
  BY <1>1 DEF IInv, Simple
<1>3. PICK s \in {"firing", "resolved"} : alerts' = [alerts EXCEPT ![a].state = s]
  BY DEF EndAlert
<1>4. NoneNew(a) /\ IsIdle(p)
  BY <1>1, <1>2, <1>3 DEF NoneNew, IsIdle
<1>5. PICK res \in Booleans : res = TRUE
  BY DEF Booleans
<1> HIDE DEF sev
<1>6. Starts(t, a, sev, res) /\ res
  BY <1>5, IdleType DEF Idle, Starts
<1> HIDE DEF t, p
<1> QED BY <1>1, <1>2, <1>4, <1>5, <1>6, BeginsPaging

\* Edits, elections, restarts and the clock.
LEMMA StillPaging ==
  ASSUME IInv, Paging,
         \/ \E s \in Severities : EditSeverity(s)
         \/ \E d \in Destinations : EditIntegration(d)
         \/ \E r \in Replicas : Elect(r) \/ Restart(r)
         \/ LoseLock \/ Tick \/ UNCHANGED vars
  PROVE  Paging'
<1>1. UNCHANGED <<alerts, thread, outbox, hist, pages>>
  BY DEF EditSeverity, EditIntegration, Elect, Restart, LoseLock, Tick, process, tables, vars
<1>2. DOMAIN hist = Ids
  BY RowFacts DEF IInv, Passes
<1>3. PagesOpened'
  BY <1>1, PagesSame
<1>4. \A q \in Threads : InHands(q)' = InHands(q)
  BY <1>1 DEF InHands
<1>5. \A q \in Threads : PutsOn(q)
  BY <1>1 DEF PutsOn
<1> QED BY <1>1, <1>2, <1>3, <1>4, <1>5, PagingKept

LEMMA RetryPaging ==
  ASSUME IInv, Paging, NEW r \in Replicas, Retry(r)
  PROVE  Paging'
<1> DEFINE p == <<r, "retry">>
           t == [Idle EXCEPT !.pc = "lock"]
<1>1. /\ p \in Threads /\ Step(p, t) /\ UNCHANGED <<alerts, outbox, hist, pages>>
  BY DEF Retry, Threads, tables
<1>2. t.pc = "lock" /\ t.todo = {}
  BY IdleType
<1> HIDE DEF t, p
<1>3. thread'[p] = t /\ \A q \in Threads : q # p => thread'[q] = thread[q]
  BY <1>1 DEF Step, IInv, Simple
<1>4. DOMAIN hist = Ids
  BY RowFacts DEF IInv, Passes
<1>5. PagesOpened'
  BY <1>1, PagesSame
<1>6. \A q \in Threads : InHands(q)' \subseteq InHands(q)
  BY <1>2, <1>3 DEF InHands
<1>7. \A q \in Threads : PutsOn(q)
  BY <1>2, <1>3 DEF PutsOn
<1> QED BY <1>1, <1>4, <1>5, <1>6, <1>7, PagingKept

\* A note does not change who put a row.
LEMMA NoteBy ==
  ASSUME Rows, NEW ids, NEW what, hist' = Note(ids, what)
  PROVE  DOMAIN hist' = Ids /\ \A i \in Ids : hist'[i].by = hist[i].by
<1>1. ASSUME NEW h \in Histories PROVE [h EXCEPT !.notes = @ \cup {what}].by = h.by
  BY DEF Histories
<1>2. ASSUME NEW i \in Ids PROVE hist'[i].by = hist[i].by
  <2>1. hist[i] \in Histories
    BY RowFacts
  <2> QED BY <1>1, <2>1 DEF Note
<1> QED BY <1>2 DEF Note

LEMMA CrashPaging ==
  ASSUME IInv, Paging, NEW r \in Replicas, Crash(r)
  PROVE  Paging'
<1> DEFINE mine == {p \in Threads : p[1] = r}
           ids == {thread[p].cur.id : p \in {q \in mine : thread[q].pc = "mark"}}
           what == "not recorded"
<1>1. /\ thread' = [p \in Threads |-> IF p \in mine THEN Idle ELSE thread[p]]
      /\ hist' = Note(ids, what) /\ UNCHANGED <<alerts, outbox, pages>>
  BY DEF Crash, tables
<1> HIDE DEF mine, ids, what
<1>2. \A q \in Threads : \/ thread'[q] = thread[q]
                         \/ thread'[q].pc = "idle" /\ thread'[q].todo = {}
  BY <1>1, IdleType
<1>3. DOMAIN hist' = Ids /\ \A i \in Ids : hist'[i].by = hist[i].by
  BY <1>1, NoteBy DEF IInv, Passes
<1>4. PagesOpened'
  BY <1>1, PagesSame
<1>5. \A q \in Threads : InHands(q)' \subseteq InHands(q)
  BY <1>2 DEF InHands
<1>6. \A q \in Threads : PutsOn(q)
  BY <1>2 DEF PutsOn
<1> QED BY <1>1, <1>3, <1>4, <1>5, <1>6, PagingKept

\* The key the watcher finds open is that of an opening.
LEMMA KeyFound ==
  ASSUME RowKeys, NEW n, n.dest \in Pagers, NEW k \in OpenKeys(n), k # NoKey,
         OpeningApart(n.alert, n.dest)
  PROVE  \E j \in Ids : /\ outbox[j].alert = n.alert /\ outbox[j].dest = n.dest
                        /\ outbox[j].status # "OK" /\ k = <<n.alert, outbox[j].status>>
<1>1. PICK m \in Previous(n) : m.status # "OK" /\ k = m.key
  BY DEF OpenKeys
<1>2. PICK j \in Ids : m = outbox[j] /\ outbox[j].alert = n.alert /\ outbox[j].dest = n.dest
  BY DEF Previous
<1>3. Unique(j)
  BY <1>1, <1>2 DEF OpeningApart, Unique
<1>4. Proper(m)
  BY <1>2, <1>3 DEF RowKeys
<1> QED BY <1>1, <1>2, <1>4 DEF Proper

\* The row a thread puts: an opening has its key, and the watcher's resolution
\* that of an opening.
WellPut(m, h) ==
    m.dest \in Pagers =>
        /\ Proper(m)
        /\ m.status = "OK" /\ h.by = "watcher" /\ OpeningApart(m.alert, m.dest) => Closer(m)

LEMMA NewRowPaging ==
  ASSUME IInv, Paging, NEW p \in Threads, thread[p].pc = "put",
         NEW m \in Notification, m.id = Len(outbox) + 1, m.alert = thread[p].alert,
         m.status = Status(thread[p]), NEW h \in Histories, WellPut(m, h),
         outbox' = Append(outbox, m), hist' = Append(hist, h), UNCHANGED <<alerts, pages>>,
         \A q \in Threads : PutsOn(q) /\ InHands(q)' \subseteq InHands(q)
  PROVE  Paging'
<1>1. /\ Rows /\ Len(outbox) \in Nat /\ Ids = 1..Len(outbox) /\ Len(hist) = Len(outbox)
      /\ outbox \in Seq(Notification) /\ hist \in Seq(Histories)
  BY RowFacts DEF IInv, Passes, Rows
<1>2. Ids' = 1..(Len(outbox) + 1)
  BY <1>1 DEF Ids
<1>3. /\ \A i \in Ids : outbox'[i] = outbox[i] /\ hist'[i] = hist[i]
      /\ outbox'[m.id] = m /\ hist'[m.id] = h
  BY <1>1
<1>4. /\ \A i \in Ids' : i \in Ids \/ i = m.id
      /\ m.id \in Ids' /\ m.id \notin Ids /\ Ids \subseteq Ids'
  BY <1>1, <1>2
<1>5. Carried
  BY <1>3, <1>4 DEF Carried, SameKey
<1>r. thread[p].resolved \in {TRUE, FALSE}
  BY DEF IInv, Simple, Locals, Booleans
<1>6. ASSUME NEW a, NEW s, OpenedAs(a, s)' PROVE OpenedAs(a, s)
  <2>1. CASE \E i \in Ids' : outbox'[i].alert = a /\ outbox'[i].status = s /\ s # "OK"
    <3>1. PICK i \in Ids' : outbox'[i].alert = a /\ outbox'[i].status = s /\ s # "OK"
      BY <2>1
    <3>2. CASE i \in Ids
      BY <3>1, <3>2, <1>3 DEF OpenedAs
    <3>3. CASE i = m.id
      <4>1. thread[p].alert = a /\ ~thread[p].resolved /\ thread[p].sev = s
        BY <3>1, <3>3, <1>3, <1>r DEF Status
      <4> QED BY <4>1 DEF OpenedAs
    <3> QED BY <3>2, <3>3, <1>4
  <2>2. CASE \E q \in Threads : /\ thread'[q].pc = "put" /\ thread'[q].alert = a
                                /\ ~thread'[q].resolved /\ thread'[q].sev = s
    BY <2>2 DEF OpenedAs, PutsOn
  <2> QED BY <1>6, <2>1, <2>2 DEF OpenedAs
<1>7. OpenedOnce'
  BY <1>6 DEF Paging, OpenedOnce
<1>8. Begun'
  <2> SUFFICES ASSUME NEW a \in Alerts, alerts[a].state = "none"
               PROVE  /\ \A i \in Ids' : outbox'[i].alert # a
                      /\ \A q \in Threads : thread'[q].pc = "put" => thread'[q].alert # a
    BY DEF Begun
  <2>1. /\ \A i \in Ids : outbox[i].alert # a
        /\ \A q \in Threads : thread[q].pc = "put" => thread[q].alert # a
    BY DEF Paging, Begun
  <2>2. \A i \in Ids' : outbox'[i].alert # a
    <3>1. m.alert # a
      BY <2>1
    <3>2. ASSUME NEW i \in Ids' PROVE outbox'[i].alert # a
      <4>1. CASE i \in Ids
        BY <2>1, <4>1, <1>3
      <4>2. CASE i = m.id
        BY <3>1, <4>2, <1>3
      <4> QED BY <4>1, <4>2, <1>4
    <3> QED BY <3>2
  <2>3. \A q \in Threads : thread'[q].pc = "put" => thread'[q].alert # a
    BY <2>1 DEF PutsOn
  <2> QED BY <2>2, <2>3
<1>9. ApiEnds'
  BY DEF Paging, ApiEnds, PutsOn
<1>10. HandKeys'
  BY <1>5, HandsCarried DEF Paging
<1>11. PagesOpened'
  BY <1>5, PagesCarried DEF Paging
<1>12. RowKeys'
  <2> SUFFICES ASSUME NEW i \in Ids', NEW n, n = outbox'[i] PROVE RowKey(i, n)'
    BY RowKeysByRow
  <2>1. CASE i \in Ids
    BY <2>1, <1>1, <1>3, <1>5, RowKeyKept DEF Paging
  <2>2. CASE i = m.id
    <3>1. n = m
      BY <2>2, <1>3
    <3>2. m.dest \in Pagers /\ m.status = "OK" /\ h.by = "watcher" /\ OpeningApart(m.alert, m.dest)'
            => Closer(m)'
      BY <1>5, CarriedFacts DEF WellPut
    <3>3. m.dest \in Pagers => Proper(m)
      BY DEF WellPut
    <3>4. Good(m)'
      BY <3>2, <3>3, <1>3 DEF Good, Proper
    <3>5. RowKey(i, m)'
      BY <3>3, <3>4 DEF RowKey, Proper
    <3> QED BY <3>1, <3>5
  <2> QED BY <2>1, <2>2, <1>4
<1> QED BY <1>7, <1>8, <1>9, <1>10, <1>11, <1>12 DEF Paging

LEMMA PutPaging ==
  ASSUME IInv, Paging, NEW p \in Threads, Put(p)
  PROVE  Paging'
<1> DEFINE t == thread[p]
           d == Head(t.left)
           next == IF Len(t.left) > 1 THEN [t EXCEPT !.left = Tail(@)]
                   ELSE IF p[2] = "api" THEN Idle ELSE [Idle EXCEPT !.pc = "lock"]
           n == [id |-> Len(outbox) + 1, alert |-> t.alert, dest |-> d,
                 status |-> Status(t), ts |-> t.ts, key |-> NoKey, sent |-> FALSE]
<1>t. thread \in [Threads -> Locals] /\ t \in Locals
  BY DEF IInv, Simple
<1>1. /\ t.pc = "put" /\ Step(p, next)
      /\ UNCHANGED <<alerts, pages>>
  BY DEF Put
<1>2. /\ p[2] \in {"watcher", "api"} /\ t.alert \in Alerts /\ t.sev \in Severities
      /\ t.left \in Seq(Destinations) /\ t.left # <<>> /\ t.ts \in 0..MaxTime
      /\ t.resolved \in {TRUE, FALSE}
  BY <1>1, <1>t DEF IInv, Control, Puts, Locals, Booleans
<1>3. d \in Destinations
  BY <1>2, HeadAndTail
<1>z. t.todo = {}
  <2>1. ~Sending(p)
    BY <1>1 DEF Sending
  <2> QED BY <2>1 DEF IInv, Passes, Holds
<1>4. /\ next.todo = {} /\ next.pc # "mark"
      /\ next.pc = "put" => next.alert = t.alert /\ next.sev = t.sev /\ next.resolved = t.resolved
  <2>1. CASE Len(t.left) > 1
    <3> DEFINE l == Tail(t.left)
    <3>1. next = [t EXCEPT !.left = l]
      BY <2>1
    <3> HIDE DEF l, next, t
    <3>2. /\ [t EXCEPT !.left = l].pc = t.pc /\ [t EXCEPT !.left = l].todo = t.todo
          /\ [t EXCEPT !.left = l].alert = t.alert /\ [t EXCEPT !.left = l].sev = t.sev
          /\ [t EXCEPT !.left = l].resolved = t.resolved
      BY <1>t DEF Locals
    <3> QED BY <3>1, <3>2, <1>1, <1>z
  <2>2. CASE ~(Len(t.left) > 1)
    BY <2>2, IdleType
  <2> QED BY <2>1, <2>2
<1> HIDE DEF next
<1>5. thread'[p] = next /\ \A q \in Threads : q # p => thread'[q] = thread[q]
  BY <1>1, <1>t DEF Step
<1>6. \A q \in Threads : PutsOn(q)
  BY <1>1, <1>4, <1>5 DEF PutsOn
<1>7. \A q \in Threads : InHands(q)' \subseteq InHands(q)
  BY <1>4, <1>5 DEF InHands
<1>8. CASE outbox' = outbox /\ hist' = hist
  <2>1. DOMAIN hist = Ids
    BY RowFacts DEF IInv, Passes
  <2> QED BY <2>1, <1>1, <1>6, <1>7, <1>8, PagesSame, PagingKept
<1>9. ASSUME NEW k \in PutKeys(p, n), ~(d \in Pagers /\ k = NoKey),
             outbox' = Append(outbox, [n EXCEPT !.key = k]), hist' = Append(hist, Fresh(p[2]))
      PROVE  Paging'
  <2> DEFINE m == [n EXCEPT !.key = k]
             h == Fresh(p[2])
  <2>1. Rows /\ Len(outbox) + 1 \in Nat
    BY RowFacts DEF IInv, Passes
  <2>2. k \in Keys
    BY <1>9, <2>1, <1>2, PutKeysType
  <2>s. Status(t) \in Severities \cup {"OK"}
    BY <1>2 DEF Status
  <2>3. /\ m \in Notification /\ m.id = Len(outbox) + 1 /\ m.alert = t.alert /\ m.dest = d
        /\ m.status = Status(t) /\ m.key = k
    BY <2>1, <2>2, <2>s, <1>2, <1>3 DEF Notification
  <2>4. h \in Histories /\ h.by = p[2]
    <3>1. FALSE \in Booleans
      BY DEF Booleans
    <3> QED BY <3>1, <1>2 DEF Fresh, Histories
  <2>5. outbox' = Append(outbox, m) /\ hist' = Append(hist, h)
    BY <1>9
  <2>n. n.alert = t.alert /\ n.dest = d
    OBVIOUS
  <2> HIDE DEF m, h, n
  <2>6. WellPut(m, h)
    <3> SUFFICES ASSUME d \in Pagers PROVE WellPut(m, h)
      BY <2>3 DEF WellPut
    <3>1. Proper(m)
      <4> SUFFICES ASSUME m.status # "OK" PROVE m.key = <<m.alert, m.status>>
        BY DEF Proper
      <4>1. ~t.resolved /\ m.status = t.sev
        BY <2>3, <1>2 DEF Status
      <4> QED BY <4>1, <2>3, <2>n, <1>9 DEF PutKeys
    <3>2. ASSUME m.status = "OK", h.by = "watcher", OpeningApart(m.alert, m.dest)
          PROVE  Closer(m)
      <4>1. t.resolved /\ p[2] # "api"
        BY <3>2, <2>3, <2>4, <1>2 DEF Status
      <4>2. k \in OpenKeys(n) /\ k # NoKey
        BY <4>1, <2>n, <1>9 DEF PutKeys
      <4>3. \E j \in Ids : /\ outbox[j].alert = n.alert /\ outbox[j].dest = n.dest
                           /\ outbox[j].status # "OK" /\ k = <<n.alert, outbox[j].status>>
        BY <3>2, <4>2, <2>3, <2>n, KeyFound DEF Paging
      <4> QED BY <4>3, <2>3, <2>n DEF Closer
    <3> QED BY <3>1, <3>2 DEF WellPut
  <2> QED BY <2>3, <2>4, <2>5, <2>6, <1>1, <1>6, <1>7, NewRowPaging
<1>10. \/ outbox' = outbox /\ hist' = hist
       \/ \E k \in PutKeys(p, n) : /\ ~(d \in Pagers /\ k = NoKey)
                                   /\ outbox' = Append(outbox, [n EXCEPT !.key = k])
                                   /\ hist' = Append(hist, Fresh(p[2]))
  BY DEF Put
<1> QED BY <1>8, <1>9, <1>10

LEMMA BeginPassPaging ==
  ASSUME IInv, Paging, NEW p \in Threads, BeginPass(p)
  PROVE  Paging'
<1>1. UNCHANGED <<alerts, outbox, pages>> /\ thread \in [Threads -> Locals]
  BY DEF BeginPass, tables, IInv, Simple
<1>2. DOMAIN hist = Ids /\ Rows
  BY RowFacts DEF IInv, Passes
<1>3. ASSUME NEW t, Step(p, t), t.pc \in {"idle", "send"}, t.todo \subseteq NotSent,
             DOMAIN hist' = Ids, \A i \in Ids : hist'[i].by = hist[i].by
      PROVE  Paging'
  <2>1. thread'[p] = t /\ \A q \in Threads : q # p => thread'[q] = thread[q]
    BY <1>1, <1>3 DEF Step
  <2>2. \A q \in Threads : PutsOn(q)
    BY <1>3, <2>1 DEF PutsOn
  <2>3. ASSUME NEW q \in Threads, NEW n \in InHands(q)'
        PROVE  n \in InHands(q) \/ \E i \in Ids : n = outbox[i] /\ ~outbox[i].sent
    <3>1. CASE q # p
      BY <2>1, <2>3, <3>1 DEF InHands
    <3>2. CASE q = p
      <4>1. n \in NotSent
        BY <1>3, <2>1, <2>3, <3>2 DEF InHands
      <4> QED BY <4>1 DEF NotSent
    <3> QED BY <3>1, <3>2
  <2> QED BY <1>1, <1>3, <2>2, <2>3, PagesSame, PagingKept
<1>4. CASE /\ Step(p, Loop([Idle EXCEPT !.todo = NotSent, !.clients = clients]))
           /\ \/ hist' = hist
              \/ \E ids : hist' = Note(ids, "overlap")
  <2> DEFINE s == [Idle EXCEPT !.todo = NotSent, !.clients = clients]
             t == Loop(s)
  <2>1. NotSent \subseteq Notification
    BY <1>2, RowFacts DEF NotSent
  <2>2. s \in Locals /\ s.todo = NotSent
    BY <2>1, IdleType DEF Locals, IInv, Simple
  <2>s. Step(p, t)
    BY <1>4
  <2> HIDE DEF s
  <2>3. t.todo = NotSent /\ t.pc \in {"idle", "send"}
    BY <2>2, LoopType
  <2> HIDE DEF t
  <2>4. DOMAIN hist' = Ids /\ \A i \in Ids : hist'[i].by = hist[i].by
    <3>1. CASE hist' = hist
      BY <3>1, <1>2
    <3>2. CASE \E ids : hist' = Note(ids, "overlap")
      BY <3>2, <1>2, NoteBy
    <3> QED BY <3>1, <3>2, <1>4
  <2> QED BY <2>s, <2>3, <2>4, <1>3
<1>5. CASE Step(p, Idle) /\ hist' = hist
  <2>1. Idle.pc \in {"idle", "send"} /\ Idle.todo \subseteq NotSent
    BY IdleType
  <2> QED BY <2>1, <1>2, <1>3, <1>5
<1>6. \/ /\ Step(p, Loop([Idle EXCEPT !.todo = NotSent, !.clients = clients]))
         /\ hist' = hist \/ \E ids : hist' = Note(ids, "overlap")
      \/ Step(p, Idle) /\ hist' = hist
  BY DEF BeginPass
<1> QED BY <1>4, <1>5, <1>6

\* A delivery does not change who put a row, and opens a page only of an opening.
LEMMA DeliverPages ==
  ASSUME IInv, Paging, NEW p \in Threads, NEW n \in thread[p].todo,
         NEW reply, NEW notes, Deliver(n, reply, notes), outbox' = outbox
  PROVE  DOMAIN hist' = Ids /\ (\A i \in Ids : hist'[i].by = hist[i].by) /\ PagesOpened'
<1>1. n.id \in Ids /\ SameKey(outbox[n.id], n) /\ Good(n)
  <2>1. n \in InHands(p)
    BY DEF InHands
  <2> QED BY <2>1, HandsAreRows DEF Paging, HandKeys
<1>2. DOMAIN hist = Ids /\ Ids' = Ids /\ \A i \in Ids : hist[i] \in Histories
  BY RowFacts DEF IInv, Passes, Ids
<1>3. DOMAIN hist' = Ids /\ \A i \in Ids : hist'[i].by = hist[i].by
  <2>1. ASSUME NEW h \in Histories
        PROVE  [h EXCEPT !.delivered = @ + 1, !.reply = reply, !.notes = @ \cup notes].by = h.by
    BY DEF Histories
  <2>2. hist' = [hist EXCEPT ![n.id] = [hist[n.id] EXCEPT !.delivered = @ + 1, !.reply = reply,
                                                          !.notes = @ \cup notes]]
    BY DEF Deliver
  <2>3. PICK x : x = [hist[n.id] EXCEPT !.delivered = @ + 1, !.reply = reply, !.notes = @ \cup notes]
    OBVIOUS
  <2>4. x.by = hist[n.id].by
    BY <2>1, <2>3, <1>1, <1>2
  <2> QED BY <2>2, <2>3, <2>4, <1>2
<1>4. PagesOpened
  BY DEF Paging
<1>5. \A d \in Pagers, a \in Alerts, s \in Severities : <<d, <<a, s>>>> \in pages =>
        \E i \in Ids : outbox[i].alert = a /\ outbox[i].dest = d /\ outbox[i].status = s
  BY <1>4 DEF PagesOpened
<1>6. PagesOpened'
  <2> SUFFICES ASSUME NEW d \in Pagers, NEW a \in Alerts, NEW s \in Severities,
                      <<d, <<a, s>>>> \in pages'
               PROVE  \E i \in Ids : outbox[i].alert = a /\ outbox[i].dest = d
                                     /\ outbox[i].status = s
    BY <1>2 DEF PagesOpened
  <2>1. CASE <<d, <<a, s>>>> \in pages
    BY <2>1, <1>5
  <2>2. CASE <<d, <<a, s>>>> \notin pages
    <3>1. n.dest \in Pagers /\ n.status # "OK" /\ <<d, <<a, s>>>> = <<n.dest, n.key>>
      BY <2>2 DEF Deliver, PagesAfter
    <3>2. n.key = <<n.alert, n.status>> /\ n.status = outbox[n.id].status
      BY <3>1, <1>1 DEF Good, Proper
    <3>3. n.dest = d /\ n.alert = a /\ n.status = s
      BY <3>1, <3>2
    <3> QED BY <3>2, <3>3, <1>1 DEF SameKey
  <2> QED BY <2>1, <2>2
<1> QED BY <1>3, <1>6

\* A pass takes a row, or gives up some of what it has to send.
LEMMA TakesPaging ==
  ASSUME IInv, Paging, NEW p \in Threads, NEW u, Step(p, u), u.pc \in {"idle", "send", "mark"},
         u.todo \subseteq thread[p].todo,
         u.pc = "mark" => u.cur \in InHands(p) \/ u.cur.dest \notin Pagers,
         UNCHANGED <<alerts, outbox>>,
         DOMAIN hist' = Ids, \A i \in Ids : hist'[i].by = hist[i].by, PagesOpened'
  PROVE  Paging'
<1>1. thread'[p] = u /\ \A q \in Threads : q # p => thread'[q] = thread[q]
  BY DEF Step, IInv, Simple
<1>2. \A q \in Threads : PutsOn(q)
  BY <1>1 DEF PutsOn
<1>3. \A q \in Threads : \A n \in InHands(q)' : n \in InHands(q) \/ n.dest \notin Pagers
  BY <1>1 DEF InHands
<1> QED BY <1>2, <1>3, PagingKept

LEMMA SendPaging ==
  ASSUME IInv, Paging, NEW p \in Threads, Send(p)
  PROVE  Paging'
<1> DEFINE t == thread[p]
<1>1. UNCHANGED <<alerts, outbox>> /\ t \in Locals
  BY DEF Send, tables, IInv, Simple
<1>2. PICK n \in Reached(p) :
         \/ /\ Step(p, [t EXCEPT !.pc = "mark", !.cur = n, !.todo = @ \ {n}])
            /\ hist' = Note({n.id}, "no client")
            /\ UNCHANGED pages
         \/ /\ Step(p, [t EXCEPT !.pc = "mark", !.todo = @ \ {n},
                                 !.cur = IF n.dest \in Slacks THEN [n EXCEPT !.key = Posted] ELSE n])
            /\ \E reply, notes : Deliver(n, reply, notes)
         \/ /\ Step(p, Loop([t EXCEPT !.todo = @ \ Skipped(p, n)]))
            /\ \/ UNCHANGED <<pages, hist>>
               \/ \E reply, notes : Deliver(n, reply, notes)
  BY DEF Send
<1>n. n \in t.todo /\ n \in InHands(p) /\ n \in Notification /\ Rows /\ DOMAIN hist = Ids
  BY HandsAreRows, RowFacts DEF Reached, InHands, IInv, Passes
<1>p. PagesOpened' \/ ~UNCHANGED pages
  BY <1>1, PagesSame
<1>d. ASSUME \E reply, notes : Deliver(n, reply, notes)
      PROVE  DOMAIN hist' = Ids /\ (\A i \in Ids : hist'[i].by = hist[i].by) /\ PagesOpened'
  BY <1>1, <1>n, <1>d, DeliverPages
<1> HIDE DEF t
<1>3. CASE /\ Step(p, [t EXCEPT !.pc = "mark", !.cur = n, !.todo = @ \ {n}])
           /\ hist' = Note({n.id}, "no client")
           /\ UNCHANGED pages
  <2>u. PICK u : Takes(t, n, n, u)
    BY DEF Takes
  <2>1. u.pc = "mark" /\ u.cur = n /\ \A m : m \in u.todo <=> m \in t.todo /\ m # n
    BY <2>u, <1>1, <1>n, MarkLocals
  <2>2. Step(p, u)
    BY <1>3, <2>u DEF Takes
  <2>3. DOMAIN hist' = Ids /\ \A i \in Ids : hist'[i].by = hist[i].by
    BY <1>3, <1>n, NoteBy
  <2>4. u.todo \subseteq thread[p].todo /\ u.pc \in {"idle", "send", "mark"} /\ u.cur \in InHands(p)
    BY <2>1, <1>n DEF t
  <2> QED BY <2>2, <2>3, <2>4, <1>1, <1>p, <1>3, TakesPaging
<1>4. CASE /\ Step(p, [t EXCEPT !.pc = "mark", !.todo = @ \ {n},
                                !.cur = IF n.dest \in Slacks THEN [n EXCEPT !.key = Posted] ELSE n])
           /\ \E reply, notes : Deliver(n, reply, notes)
  <2> DEFINE c == IF n.dest \in Slacks THEN [n EXCEPT !.key = Posted] ELSE n
  <2>1. c \in Notification /\ c.dest = n.dest /\ (n.dest \notin Slacks => c = n)
    BY <1>n DEF Notification, Keys
  <2>s. Step(p, [t EXCEPT !.pc = "mark", !.todo = @ \ {n}, !.cur = c])
    BY <1>4
  <2> HIDE DEF c
  <2>e. PICK u : Takes(t, c, n, u)
    BY DEF Takes
  <2>u. Step(p, u)
    BY <2>s, <2>e, <1>1 DEF Locals, Takes
  <2>3. u.pc = "mark" /\ u.cur = c /\ \A m : m \in u.todo <=> m \in t.todo /\ m # n
    BY <2>e, <1>1, <2>1, MarkLocals
  <2>4. u.cur \in InHands(p) \/ u.cur.dest \notin Pagers
    BY <2>1, <2>3, <1>n
  <2>5. u.todo \subseteq thread[p].todo /\ u.pc \in {"idle", "send", "mark"}
    BY <2>3 DEF t
  <2> QED BY <2>u, <2>4, <2>5, <1>1, <1>d, <1>4, TakesPaging
<1>5. CASE /\ Step(p, Loop([t EXCEPT !.todo = @ \ Skipped(p, n)]))
           /\ \/ UNCHANGED <<pages, hist>>
              \/ \E reply, notes : Deliver(n, reply, notes)
  <2> DEFINE v == t.todo \ Skipped(p, n)
             w == [t EXCEPT !.todo = v]
             u == Loop(w)
  <2>s. Step(p, u)
    BY <1>5
  <2>v. v \in SUBSET Notification /\ v \subseteq t.todo
    BY <1>1 DEF Locals
  <2> HIDE DEF v
  <2>w. w \in Locals /\ w.todo = v
    BY <1>1, <2>v DEF Locals
  <2> HIDE DEF w
  <2>u. u.todo = v /\ u.pc \in {"idle", "send"}
    BY <2>w, LoopType
  <2> HIDE DEF u
  <2>1. DOMAIN hist' = Ids /\ (\A i \in Ids : hist'[i].by = hist[i].by) /\ PagesOpened'
    BY <1>5, <1>n, <1>p, <1>d
  <2>2. u.todo \subseteq thread[p].todo /\ u.pc \in {"idle", "send", "mark"} /\ u.pc # "mark"
    BY <2>u, <2>v DEF t
  <2> QED BY <2>s, <2>1, <2>2, <1>1, TakesPaging
<1> QED BY <1>2, <1>3, <1>4, <1>5

\* UpdateAlertNotification changes neither what a row says nor the rows of others.
LEMMA RecordedRest ==
  ASSUME Rows, NEW n \in Notification, NEW o, o = Recorded(n), NEW i \in Ids
  PROVE  /\ o[i].status = outbox[i].status
         /\ ~SameKey(outbox[i], n) => o[i] = outbox[i]
<1>1. ASSUME NEW m \in Notification
      PROVE  [m EXCEPT !.sent = TRUE, !.key = n.key].status = m.status
  BY DEF Notification
<1>2. outbox[i] \in Notification
  BY RowFacts
<1>3. o[i] = IF SameKey(outbox[i], n) THEN [outbox[i] EXCEPT !.sent = TRUE, !.key = n.key]
             ELSE outbox[i]
  BY DEF Recorded
<1> QED BY <1>1, <1>2, <1>3

LEMMA RecordedPaging ==
  ASSUME IInv, Paging, NEW p \in Threads, thread[p].pc = "mark", NEW c, c = thread[p].cur,
         outbox' = Recorded(c), hist' = hist, UNCHANGED <<alerts, pages>>,
         \A q \in Threads : PutsOn(q) /\ InHands(q)' \subseteq InHands(q)
  PROVE  Paging'
<1>1. c \in Notification /\ c.id \in Ids /\ SameKey(outbox[c.id], c) /\ Good(c)
  <2>1. c \in InHands(p)
    BY DEF InHands
  <2> QED BY <2>1, HandsAreRows DEF Paging, HandKeys
<1>2. Rows /\ DOMAIN hist = Ids /\ Len(outbox) \in Nat /\ Ids = 1..Len(outbox)
  BY RowFacts DEF IInv, Passes
<1>o. PICK o : o = outbox'
  OBVIOUS
<1>3. /\ Len(o) = Len(outbox) /\ o \in Seq(Notification)
      /\ \A i \in Ids :
           /\ o[i].id = outbox[i].id /\ o[i].alert = outbox[i].alert
           /\ o[i].dest = outbox[i].dest /\ o[i].ts = outbox[i].ts
           /\ o[i].sent <=> (outbox[i].sent \/ SameKey(outbox[i], c))
           /\ SameKey(outbox[i], c) => o[i].key = c.key
           /\ ~SameKey(outbox[i], c) => o[i].key = outbox[i].key
           /\ o[i].status = outbox[i].status
           /\ ~SameKey(outbox[i], c) => o[i] = outbox[i]
  <2>1. o = Recorded(c) /\ Rows /\ c \in Notification
    BY <1>o, <1>1, <1>2
  <2> QED BY <2>1, RecordedEffect, RecordedRest
<1>4. Ids' = Ids
  BY <1>2, <1>3, <1>o DEF Ids
<1>5. Carried
  BY <1>3, <1>4, <1>o DEF Carried, SameKey
<1>6. OpenedOnce' /\ Begun' /\ ApiEnds'
  BY <1>4, <1>5, OpeningsKept DEF Paging
<1>7. HandKeys'
  BY <1>5, HandsCarried DEF Paging
<1>8. PagesOpened'
  BY <1>5, PagesCarried DEF Paging
<1>9. RowKeys'
  <2> SUFFICES ASSUME NEW i \in Ids, NEW n, n = outbox'[i] PROVE RowKey(i, n)'
    BY <1>4, RowKeysByRow
  <2>1. CASE ~SameKey(outbox[i], c)
    <3>1. n = outbox[i]
      BY <2>1, <1>3, <1>o
    <3> QED BY <3>1, <1>2, <1>5, RowKeyKept DEF Paging
  <2>2. CASE SameKey(outbox[i], c)
    <3>1. /\ n.sent /\ n.key = c.key /\ n.alert = c.alert /\ n.dest = c.dest
          /\ n.status = outbox[i].status
      BY <2>2, <1>3, <1>o DEF SameKey
    <3>2. ASSUME n.dest \in Pagers, Unique(i)' PROVE Proper(n)
      <4>1. Unique(i)
        BY <3>2, <1>5, CarriedFacts
      <4>2. c.id = i
        BY <4>1, <2>2, <1>1 DEF Unique, SameKey
      <4>3. c.status = outbox[i].status /\ Proper(c)
        BY <4>2, <3>1, <3>2, <1>1 DEF Good
      <4> QED BY <4>3, <3>1 DEF Proper
    <3> QED BY <3>1, <3>2 DEF RowKey, Proper
  <2> QED BY <2>1, <2>2
<1> QED BY <1>6, <1>7, <1>8, <1>9 DEF Paging

LEMMA MarkPaging ==
  ASSUME IInv, Paging, NEW p \in Threads, Mark(p)
  PROVE  Paging'
<1>1. /\ thread[p].pc = "mark" /\ Step(p, Loop(thread[p])) /\ UNCHANGED <<alerts, pages>>
      /\ \/ outbox' = Recorded(thread[p].cur) /\ hist' = hist
         \/ hist' = Note({thread[p].cur.id}, "not recorded") /\ outbox' = outbox
  BY DEF Mark
<1> DEFINE u == Loop(thread[p])
<1>2. u.todo = thread[p].todo /\ u.pc \in {"idle", "send"}
  BY LoopType DEF IInv, Simple
<1>s. Step(p, u)
  BY <1>1
<1> HIDE DEF u
<1>3. thread'[p] = u /\ \A q \in Threads : q # p => thread'[q] = thread[q]
  BY <1>s DEF Step, IInv, Simple
<1>4. \A q \in Threads : PutsOn(q) /\ InHands(q)' \subseteq InHands(q)
  BY <1>2, <1>3 DEF PutsOn, InHands
<1>5. CASE outbox' = Recorded(thread[p].cur) /\ hist' = hist
  <2>1. PICK c : c = thread[p].cur
    OBVIOUS
  <2> QED BY <2>1, <1>1, <1>4, <1>5, RecordedPaging
<1>6. CASE hist' = Note({thread[p].cur.id}, "not recorded") /\ outbox' = outbox
  <2>1. DOMAIN hist' = Ids /\ \A i \in Ids : hist'[i].by = hist[i].by
    BY <1>6, NoteBy DEF IInv, Passes
  <2> QED BY <2>1, <1>1, <1>4, <1>6, PagesSame, PagingKept
<1> QED BY <1>1, <1>5, <1>6

LEMMA NextPaging == IInv /\ Paging /\ [Next]_vars => Paging'
<1> SUFFICES ASSUME IInv, Paging, [Next]_vars PROVE Paging'
  OBVIOUS
<1>1. ASSUME NEW r \in Replicas, NEW a \in Alerts, Check(r, a) \/ EndAlert(r, a) PROVE Paging'
  BY <1>1, CheckPaging, EndAlertPaging
<1>2. ASSUME NEW r \in Replicas, Retry(r) \/ Crash(r) PROVE Paging'
  BY <1>2, RetryPaging, CrashPaging
<1>3. ASSUME NEW p \in Threads, ThreadStep(p) PROVE Paging'
  BY <1>3, PutPaging, BeginPassPaging, SendPaging, MarkPaging DEF ThreadStep
<1>4. ASSUME \/ \E s \in Severities : EditSeverity(s)
             \/ \E d \in Destinations : EditIntegration(d)
             \/ \E r \in Replicas : Elect(r) \/ Restart(r)
             \/ LoseLock \/ Tick \/ UNCHANGED vars
      PROVE  Paging'
  BY <1>4, StillPaging
<1> QED BY <1>1, <1>2, <1>3, <1>4 DEF Next

(* What the notifications to pagers satisfy: an alert has one opening, whose *)
(* key is known from its row while that is to be told from others, and a     *)
(* page is open only where an opening was delivered.                         *)
THEOREM PagingInvariance == Spec => [](IInv /\ Paging)
<1>1. Init => IInv /\ Paging
  BY InitIInv, InitPaging
<1>2. IInv /\ Paging /\ [Next]_vars => IInv' /\ Paging'
  BY NextIInv, NextPaging
<1> QED BY <1>1, <1>2, PTL DEF Spec

\* Only the delivery of a row in the hands of a pass makes its count grow.
LEMMA DeliveredBySend ==
  ASSUME IInv, [Next]_vars, NEW i \in Ids, hist'[i].delivered > hist[i].delivered
  PROVE  \E p \in Threads : \E n \in thread[p].todo : n.id = i /\ pages' = PagesAfter(n)
<1>1. /\ Rows /\ DOMAIN hist = Ids /\ hist[i].delivered \in Nat
      /\ outbox \in Seq(Notification) /\ hist \in Seq(Histories)
      /\ Len(outbox) \in Nat /\ Ids = 1..Len(outbox) /\ Len(hist) = Len(outbox)
  BY RowFacts DEF IInv, Passes, Rows, Histories
<1>2. hist'[i] # hist[i]
  BY <1>1
<1>3. ASSUME NEW ids, NEW what, hist' = Note(ids, what) PROVE FALSE
  <2>1. ASSUME NEW h \in Histories
        PROVE  [h EXCEPT !.notes = @ \cup {what}].delivered = h.delivered
    BY DEF Histories
  <2>2. hist[i] \in Histories
    BY <1>1, RowFacts
  <2>3. hist'[i].delivered = hist[i].delivered
    BY <1>3, <2>1, <2>2 DEF Note
  <2> QED BY <2>3, <1>1
<1>4. ASSUME NEW h, hist' = Append(hist, h) PROVE FALSE
  BY <1>1, <1>2, <1>4
<1>5. PICK p \in Threads : Send(p)
  <2>1. ASSUME NEW r \in Replicas, NEW a \in Alerts, Check(r, a) \/ EndAlert(r, a) PROVE hist' = hist
    BY <2>1 DEF Check, EndAlert
  <2>2. ASSUME NEW r \in Replicas, Retry(r) \/ Elect(r) \/ Restart(r) PROVE hist' = hist
    BY <2>2 DEF Retry, Elect, Restart
  <2>3. ASSUME NEW r \in Replicas, Crash(r) PROVE FALSE
    BY <2>3, <1>3 DEF Crash
  <2>4. ASSUME NEW q \in Threads, Put(q) \/ BeginPass(q) \/ Mark(q) PROVE FALSE
    BY <2>4, <1>2, <1>3, <1>4 DEF Put, BeginPass, Mark
  <2>5. ASSUME \/ \E s \in Severities : EditSeverity(s)
               \/ \E d \in Destinations : EditIntegration(d)
               \/ LoseLock \/ Tick \/ UNCHANGED vars
        PROVE  hist' = hist
    BY <2>5 DEF EditSeverity, EditIntegration, LoseLock, Tick, vars
  <2> QED BY <1>2, <2>1, <2>2, <2>3, <2>4, <2>5 DEF Next, ThreadStep
<1>6. PICK n \in Reached(p) :
         \/ hist' = Note({n.id}, "no client")
         \/ hist' = hist
         \/ \E reply, notes : Deliver(n, reply, notes)
  BY <1>5 DEF Send
<1>7. PICK reply, notes : Deliver(n, reply, notes)
  BY <1>2, <1>3, <1>6
<1>8. n \in thread[p].todo /\ pages' = PagesAfter(n)
  BY <1>7 DEF Reached, Deliver
<1>9. n.id = i
  BY <1>1, <1>2, <1>7 DEF Deliver
<1> QED BY <1>8, <1>9

(* When the watcher's resolution reaches a pager, no page of the alert is    *)
(* left open there, whatever happened to the rule's severity since, unless   *)
(* UpdateAlertNotification could take another row for the opening            *)
(* (getOpenAlert, and sendAlerts with what PagerDuty and Opsgenie are told). *)
THEOREM ResolveClosesPageSafety == Spec => ResolveClosesPage
<1>1. ASSUME IInv, Paging, [Next]_vars, NEW a \in Alerts, NEW d \in Pagers, NEW s \in Severities,
             Resolves(a, d, {"watcher"}), OpeningApart(a, d), <<d, <<a, s>>>> \in pages'
      PROVE  FALSE
  <2>1. PICK i \in Ids : /\ outbox[i].alert = a /\ outbox[i].dest = d /\ outbox[i].status = "OK"
                         /\ hist[i].by = "watcher" /\ hist'[i].delivered > hist[i].delivered
    BY <1>1 DEF Resolves
  <2>2. PICK p \in Threads : \E n \in thread[p].todo : n.id = i /\ pages' = PagesAfter(n)
    BY <1>1, <2>1, DeliveredBySend
  <2>3. PICK n \in thread[p].todo : n.id = i /\ pages' = PagesAfter(n)
    BY <2>2
  <2>4. n \in InHands(p)
    BY DEF InHands
  <2>5. Good(n) /\ n.alert = a /\ n.dest = d
    BY <1>1, <2>1, <2>3, <2>4, HandsAreRows DEF Paging, HandKeys, SameKey
  <2>6. n.status = "OK" /\ Closer(n)
    BY <1>1, <2>1, <2>3, <2>5 DEF Good
  <2>7. <<d, <<a, s>>>> \in pages /\ n.key # <<a, s>>
    BY <1>1, <2>3, <2>5, <2>6 DEF PagesAfter
  <2>8. PICK j \in Ids : /\ outbox[j].alert = a /\ outbox[j].status # "OK"
                         /\ n.key = <<a, outbox[j].status>>
    BY <2>5, <2>6 DEF Closer
  <2>9. outbox[j].status \in Severities /\ OpenedAs(a, outbox[j].status)
    <3>1. outbox[j] \in Notification
      BY <1>1, RowFacts DEF IInv, Passes
    <3> QED BY <2>8, <3>1 DEF Notification, OpenedAs
  <2>10. OpenedAs(a, s)
    BY <1>1, <2>7 DEF Paging, PagesOpened, OpenedAs
  <2>11. outbox[j].status = s
    BY <1>1, <2>9, <2>10 DEF Paging, OpenedOnce
  <2> QED BY <2>7, <2>8, <2>11
<1>2. IInv /\ Paging /\ [Next]_vars =>
        [\A a \in Alerts, d \in Pagers :
           Resolves(a, d, {"watcher"}) /\ OpeningApart(a, d)
             => \A s \in Severities : <<d, <<a, s>>>> \notin pages']_vars
  BY <1>1
<1> QED BY <1>2, PagingInvariance, PTL DEF Spec, ResolveClosesPage
=============================================================================
