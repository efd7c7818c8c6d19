------------------------------- MODULE Traces -------------------------------
(***************************************************************************)
(* The spans of requests on their way to ClickHouse: the batch that holds  *)
(* and writes them (collector/traces.go), which span of a request the      *)
(* views count (collector/request_counting.go), and the bodies that are    *)
(* stored once, apart from the spans (trace_bodies).                       *)
(*                                                                         *)
(* A request to one server over one protocol leaves up to three spans: of  *)
(* its client, of the server's node agent and of the server's SDK.  They   *)
(* reach any replica, in any order.  What a replica knows of the servers   *)
(* is in its memory, and is read from trace_server_sources, which          *)
(* ClickHouse fills from the spans stored by all replicas.                 *)
(*                                                                         *)
(* A unit of time is half an hour.  Everything that takes seconds or a     *)
(* minute (a span's way, the hold of a new batch, its ticker, the reading  *)
(* of the sources) happens within one.  All requests carry the same body;  *)
(* the names of applications and pods are left out.                        *)
(***************************************************************************)
EXTENDS Common, Sequences, FiniteSets

CONSTANTS
    Requests,       \* bound: the requests of one unit of time
    Limit,          \* rows of a batch that make it save
    MaxHeld,        \* maxHeldBatches
    Memory,         \* serverSpanMemory
    Rewrite,        \* bodyRewriteInterval
    TTL,            \* of traces and of their bodies
    Day,            \* partitions of both tables are dropped as a whole
    MaxTime,        \* bound
    MaxMishaps      \* bound: lost spans, failed inserts, crashes, moves

ASSUME TracesAssumption ==
    /\ IsFiniteSet(Requests)
    /\ {Limit, MaxHeld, Memory, Rewrite, TTL, Day} \subseteq Nat \ {0}
    /\ MaxTime \in Nat /\ MaxMishaps \in Nat

VARIABLES
    now,
    recorders,  \* the kinds of server spans the server records
    stopped,    \* history: when it last ceased to record one, plus one
    spans,      \* the spans of the requests of this unit of time
    early,      \* history: requests counted by a replica that could not know better
    batch,      \* TracesBatch.pending of each replica
    known,      \* serverSpanSources: when a kind was last seen, plus one, or 0
    loaded,     \* the sources were read once, or the hold is over
    expired,    \* history: the hold ended without a read
    sources,    \* trace_server_sources: LastSeen plus one, or 0
    steady,     \* history: kinds all replicas had time to read of
    bodies,     \* TracesBatch.bodies has the body
    writtenAt,  \* bodiesWrittenAt of it, plus one, or 0
    bodyRow,    \* trace_bodies: its LastSeen plus one, or 0
    newest,     \* the Timestamp of the last span stored with its hash, plus one
    moved,      \* history: when the project moved to a new ClickHouse, plus one
    mishaps

tracesVars == <<now, recorders, stopped, spans, early, batch, known, loaded, expired, sources,
                steady, bodies, writtenAt, bodyRow, newest, moved, mishaps>>

-----------------------------------------------------------------------------
ServerKinds == {"agent", "sdk"}
Kinds == ServerKinds \cup {"client"}

\* A span is not recorded, on its way or in a batch, lost, or stored.
Statuses == {"none", "sent", "lost", "counted", "second"}

NoSpans == [k \in Kinds |-> "none"]

\* The present, as the times of this module are kept.
Present == now + 1

Batched(q, k) == \E r \in Replicas : \E i \in DOMAIN batch[r] : batch[r][i] = <<q, k>>

InFlight(q, k) == spans[q][k] = "sent" /\ ~Batched(q, k)

AllSettled == \A q \in Requests, k \in Kinds : spans[q][k] # "sent"

Later(f, g) == [k \in ServerKinds |-> IF f[k] > g[k] THEN f[k] ELSE g[k]]

\* (mutant of Recent: the end of the hour belongs to it)
RecentInclusive(t) == t > 0 /\ Present - t <= Memory

\* now.Sub(at) < serverSpanMemory
Recent(t) == t > 0 /\ Present - t < Memory

TracesInit ==
    /\ now = 0
    /\ recorders \in SUBSET ServerKinds
    /\ stopped = 0
    /\ spans = [q \in Requests |-> NoSpans]
    /\ early = {}
    /\ batch = [r \in Replicas |-> <<>>]
    /\ known = [r \in Replicas |-> [k \in ServerKinds |-> 0]]
    /\ loaded = [r \in Replicas |-> FALSE]
    /\ expired = [r \in Replicas |-> FALSE]
    /\ sources = [k \in ServerKinds |-> 0]
    /\ steady = {}
    /\ bodies = [r \in Replicas |-> FALSE]
    /\ writtenAt = [r \in Replicas |-> 0]
    /\ bodyRow = 0 /\ newest = 0 /\ moved = 0
    /\ mishaps = 0

Mishap == mishaps < MaxMishaps /\ mishaps' = mishaps + 1

-----------------------------------------------------------------------------
(* The world outside *)

\* A request is made; its client may be without an agent.
Request(q, byClient) ==
    /\ spans[q] = NoSpans
    /\ LET recorded == recorders \cup (IF byClient THEN {"client"} ELSE {})
       IN  /\ recorded # {}
           /\ spans' = [spans EXCEPT ![q] =
                          [k \in Kinds |-> IF k \in recorded THEN "sent" ELSE "none"]]
    /\ UNCHANGED <<now, recorders, stopped, early, batch, known, loaded, expired, sources,
                   steady, bodies, writtenAt, bodyRow, newest, moved, mishaps>>

\* A span never arrives.
Lose(q, k) ==
    /\ InFlight(q, k)
    /\ Mishap
    /\ spans' = [spans EXCEPT ![q][k] = "lost"]
    /\ UNCHANGED <<now, recorders, stopped, early, batch, known, loaded, expired, sources,
                   steady, bodies, writtenAt, bodyRow, newest, moved>>

\* The server is deployed anew: with an SDK or without, with another agent.
Redeploy(ks) ==
    /\ ks # recorders
    /\ AllSettled
    /\ Mishap
    /\ recorders' = ks
    /\ stopped' = IF recorders \subseteq ks THEN stopped ELSE Present
    /\ UNCHANGED <<now, spans, early, batch, known, loaded, expired, sources, steady, bodies,
                   writtenAt, bodyRow, newest, moved>>

\* Half an hour goes by: all spans are written, every replica read the sources.
Advance ==
    /\ now < MaxTime
    /\ AllSettled
    /\ now' = now + 1
    /\ spans' = [q \in Requests |-> NoSpans]
    /\ early' = {}
    /\ known' = [r \in Replicas |-> Later(known[r], sources)]
    /\ loaded' = [r \in Replicas |-> TRUE]
    /\ expired' = [r \in Replicas |-> FALSE]
    /\ steady' = {k \in ServerKinds : sources[k] > 0 /\ Present + 1 - sources[k] < Memory}
    /\ UNCHANGED <<recorders, stopped, batch, sources, bodies, writtenAt, bodyRow, newest,
                   moved, mishaps>>

\* The project moves to an empty ClickHouse; the batches stay as they are.
Move ==
    /\ AllSettled
    /\ Mishap
    /\ sources' = [k \in ServerKinds |-> 0]
    /\ steady' = {}
    /\ bodyRow' = 0 /\ newest' = 0
    /\ moved' = Present
    /\ UNCHANGED <<now, recorders, stopped, spans, early, batch, known, loaded, expired, bodies,
                   writtenAt>>

-----------------------------------------------------------------------------
(* TracesBatch *)

\* (mutant of MayWrite: a new batch does not hold its spans)
AlwaysWrite(r, rows) == TRUE

\* save: a new batch holds its spans until it has read, or holds too many.
MayWrite(r, rows) == loaded[r] \/ rows >= MaxHeld * Limit

\* addBody: the body goes with the batch unless it was written lately.
WithBody(r) == bodies[r] \/ ~(writtenAt[r] > 0 /\ Present - writtenAt[r] < Rewrite)

\* A server span of kind k was seen lately, or comes before the i-th of b.
Seen(r, b, k, i) == Recent(known[r][k]) \/ \E j \in 1..(i - 1) : b[j][2] = k

\* counted: a span of the SDK counts; one of the agent unless the SDK records
\* the same requests; one of the client unless the server records its side.
Counted(r, b, i) ==
    CASE b[i][2] = "sdk" -> TRUE
      [] b[i][2] = "agent" -> ~Seen(r, b, "sdk", i)
      [] b[i][2] = "client" -> ~Seen(r, b, "sdk", i) /\ ~Seen(r, b, "agent", i)

\* The kinds of server spans that would keep a span of kind k from counting.
Rivals(k) == CASE k = "sdk" -> {}
               [] k = "agent" -> {"sdk"}
               [] k = "client" -> ServerKinds

\* r could not know of a server span of q that its i-th span competes with: no
\* replica stored one in time, or the hold of r ended before it read of them.
Early(r, b, i) ==
    \E k \in Rivals(b[i][2]) :
        /\ spans[b[i][1]][k] # "none"
        /\ k \notin steady \/ expired[r] \/ (~loaded[r] /\ Len(b) >= MaxHeld * Limit)

\* (mutant of Remembered: also a body that was not written)
RememberedAnyway(r, ok) == Present

\* bodiesWrittenAt after saveBodies: a body that was not written is left to the
\* next batch that has it.
Remembered(r, ok) == IF ok THEN Present ELSE writtenAt[r]

\* write, with the spans b and the body if withBody: first the body, then the
\* spans; whatever fails is logged, and the batch is empty.
WriteSpans(r, b, withBody) ==
    LET written == DOMAIN b
        kindsIn == {b[i][2] : i \in written}
    IN  \E bodyOk, spansOk \in BOOLEAN :
        /\ IF bodyOk /\ spansOk THEN UNCHANGED mishaps ELSE Mishap
        /\ ~bodyOk => withBody
        /\ known' = [known EXCEPT ![r] = [k \in ServerKinds |->
                                            IF k \in kindsIn THEN Present ELSE @[k]]]
        /\ writtenAt' = IF withBody THEN [writtenAt EXCEPT ![r] = Remembered(r, bodyOk)]
                                    ELSE writtenAt
        /\ bodyRow' = IF withBody /\ bodyOk THEN Present ELSE bodyRow
        /\ bodies' = [bodies EXCEPT ![r] = FALSE]
        /\ batch' = [batch EXCEPT ![r] = <<>>]
        /\ spans' = [q \in Requests |-> [k \in Kinds |->
                       IF \E i \in written : b[i] = <<q, k>>
                       THEN CASE ~spansOk -> "lost"
                              [] \E i \in written : b[i] = <<q, k>> /\ Counted(r, b, i) -> "counted"
                              [] OTHER -> "second"
                       ELSE spans[q][k]]]
        /\ early' = early \cup {b[i][1] : i \in {j \in written : Early(r, b, j)}}
        /\ sources' = IF spansOk THEN [k \in ServerKinds |->
                                         IF k \in kindsIn THEN Present ELSE sources[k]]
                                 ELSE sources
        /\ newest' = IF spansOk /\ ~(withBody /\ ~bodyOk) THEN Present ELSE newest

\* Add, which saves a full batch.
Add(r, q, k) ==
    /\ InFlight(q, k)
    /\ LET b == Append(batch[r], <<q, k>>)
       IN  IF Len(b) >= Limit /\ MayWrite(r, Len(b))
           THEN WriteSpans(r, b, WithBody(r))
           ELSE /\ batch' = [batch EXCEPT ![r] = b]
                /\ bodies' = [bodies EXCEPT ![r] = WithBody(r)]
                /\ UNCHANGED <<spans, early, known, sources, writtenAt, bodyRow, newest, mishaps>>
    /\ UNCHANGED <<now, recorders, stopped, loaded, expired, steady, moved>>

\* The ticker saves, and so does Close, which waits for both reads or the end of
\* the hold.  Close has one timer for two waits: when neither read ever succeeds it
\* waits for ever at the second, only the ticker saves (the hold being over), and
\* the process stops when it is killed (TracesRestart).
SaveBatch(r) ==
    /\ batch[r] # <<>>
    /\ MayWrite(r, Len(batch[r]))
    /\ WriteSpans(r, batch[r], bodies[r])
    /\ UNCHANGED <<now, recorders, stopped, loaded, expired, steady, moved>>

\* saveBodies forgets all hashes past maxBodiesWritten: other bodies came.
Forget(r) ==
    /\ writtenAt[r] > 0
    /\ writtenAt' = [writtenAt EXCEPT ![r] = 0]
    /\ UNCHANGED <<now, recorders, stopped, spans, early, batch, known, loaded, expired,
                   sources, steady, bodies, bodyRow, newest, moved, mishaps>>

\* keepReading: the sources of the last serverSpanMemory are remembered.
ReadSources(r) ==
    /\ known' = [known EXCEPT ![r] = Later(@, sources)]
    /\ loaded' = [loaded EXCEPT ![r] = TRUE]
    /\ expired' = [expired EXCEPT ![r] = FALSE]
    /\ UNCHANGED <<now, recorders, stopped, spans, early, batch, sources, steady, bodies,
                   writtenAt, bodyRow, newest, moved, mishaps>>

\* serverSpanSourcesMaxHold goes by while ClickHouse cannot be read.
HoldExpires(r) ==
    /\ ~loaded[r]
    /\ Mishap
    /\ loaded' = [loaded EXCEPT ![r] = TRUE]
    /\ expired' = [expired EXCEPT ![r] = TRUE]
    /\ UNCHANGED <<now, recorders, stopped, spans, early, batch, known, sources, steady, bodies,
                   writtenAt, bodyRow, newest, moved>>

\* A crash, or the end of a shutdown whose Close has written the batch.
TracesRestart(r) ==
    /\ IF batch[r] = <<>> THEN UNCHANGED mishaps ELSE Mishap
    /\ spans' = [q \in Requests |-> [k \in Kinds |->
                   IF \E i \in DOMAIN batch[r] : batch[r][i] = <<q, k>> THEN "lost"
                                                                       ELSE spans[q][k]]]
    /\ batch' = [batch EXCEPT ![r] = <<>>]
    /\ known' = [known EXCEPT ![r] = [k \in ServerKinds |-> 0]]
    /\ loaded' = [loaded EXCEPT ![r] = FALSE]
    /\ expired' = [expired EXCEPT ![r] = FALSE]
    /\ bodies' = [bodies EXCEPT ![r] = FALSE]
    /\ writtenAt' = [writtenAt EXCEPT ![r] = 0]
    /\ UNCHANGED <<now, recorders, stopped, early, sources, steady, bodyRow, newest, moved>>

TracesNext ==
    \/ \E q \in Requests :
          \/ \E byClient \in BOOLEAN : Request(q, byClient)
          \/ \E k \in Kinds : Lose(q, k) \/ \E r \in Replicas : Add(r, q, k)
    \/ \E r \in Replicas : SaveBatch(r) \/ Forget(r) \/ ReadSources(r) \/ HoldExpires(r) \/ TracesRestart(r)
    \/ \E ks \in SUBSET ServerKinds : Redeploy(ks)
    \/ Advance \/ Move

TracesSpec == TracesInit /\ [][TracesNext]_tracesVars

-----------------------------------------------------------------------------
TracesTypeOK ==
    /\ now \in 0..MaxTime /\ mishaps \in 0..MaxMishaps
    /\ recorders \in SUBSET ServerKinds /\ steady \in SUBSET ServerKinds
    /\ spans \in [Requests -> [Kinds -> Statuses]]
    /\ early \in SUBSET Requests
    /\ \A r \in Replicas : batch[r] \in Seq(Requests \X Kinds)
    /\ known \in [Replicas -> [ServerKinds -> 0..Present]]
    /\ sources \in [ServerKinds -> 0..Present]
    /\ {loaded, expired, bodies} \subseteq [Replicas -> BOOLEAN]
    /\ writtenAt \in [Replicas -> 0..Present]
    /\ {stopped, bodyRow, newest, moved} \subseteq 0..Present

\* Every span of q that was recorded is stored.
Stored(q) ==
    /\ spans[q] # NoSpans
    /\ \A k \in Kinds : spans[q][k] \in {"none", "counted", "second"}

Count(q) == Cardinality({k \in Kinds : spans[q][k] = "counted"})

\* "a request recorded at both sides is counted once" (serverSpanSources): two
\* of its spans count only if the replica that wrote one of them could not know
\* that the server records its side: nobody stored such a span half an hour
\* ago, or its hold ended before it had read ClickHouse (serverSpanSourcesMaxHold,
\* maxHeldBatches).  So a restart and a second replica do not make views count
\* twice.
CountedAtMostOnce == \A q \in Requests : Stored(q) /\ Count(q) > 1 => q \in early

\* "an overcount for a moment, never a request not counted", and a server that
\* stopped recording has "its clients counted again soon": a request whose spans
\* are all stored counts, except within serverSpanMemory of the server's ceasing
\* to record.
CountedAtLeastOnce ==
    \A q \in Requests :
        Stored(q) /\ Count(q) = 0 => stopped > 0 /\ Present - stopped < Memory

\* "so that a span never refers to a body not written yet" (saveBodies): a span
\* stored with the hash of a body that did not fail has its body, written less
\* than bodyRewriteInterval before it, or the project moved lately.
BodyKept ==
    newest > 0 => \/ bodyRow > 0 /\ newest < bodyRow + Rewrite
                  \/ moved > 0 /\ newest < moved + Rewrite

\* A row is dropped with the partition of its day.
Expired(t) == now >= ((t - 1) \div Day + 1) * Day + TTL

\* "A body written again moves its LastSeen, which the TTL counts from, so it
\* outlives its spans" (ch/client.go): while a span is stored, so is its body.
\* This does not hold: the README tells how it fails.
BodyOutlivesSpan ==
    newest > 0 /\ ~Expired(newest) /\ moved = 0 => bodyRow > 0 /\ ~Expired(bodyRow)
=============================================================================
