---------------------------- MODULE PrimaryLock ----------------------------
(***************************************************************************)
(* The primary lock of the Coroot replicas that share one Postgres         *)
(* (db/lock.go, DB.Close in db/db.go, the shutdown in main.go).            *)
(*                                                                         *)
(* Each replica runs background jobs (the world evaluator, the watchers,   *)
(* the notification retries); before a cycle a job asks GetPrimaryLock and *)
(* runs the cycle only on the answer true.  GetPrimaryLock answers by a    *)
(* Postgres session that holds advisory lock 1.  A session has two ends    *)
(* that fail apart: the server's (open, holder) and the client's (client,  *)
(* primaryLockConn).  A sql.Conn that is closed goes back to the pool of   *)
(* its process, and its session, with the locks it holds, lives on.        *)
(*                                                                         *)
(* Left out: which statement each job runs (other modules), the text of    *)
(* errors, the other users of the connection pool.                         *)
(***************************************************************************)
EXTENDS Naturals, FiniteSets

CONSTANTS
    Replicas,     \* the Coroot processes sharing the database
    Jobs,         \* the background loops of a process that ask for the lock
    Sessions,     \* identities of Postgres sessions, reused once both ends are gone
    None,         \* no session, no job
    MaxFaults     \* bound: how many faults (lost sessions, failed statements,
                  \* crashes, stops) happen

ASSUME NoneAssumption == None \notin Sessions \cup Jobs \cup Replicas
ASSUME FaultsAssumption == MaxFaults \in Nat

VARIABLES
    open,             \* server: the sessions that are open
    holder,           \* server: the session that holds advisory lock 1, or None
    client,           \* for each session, the process that has its client end
    primaryLockConn,  \* DB.primaryLockConn of each process
    conn,             \* local variable conn of the running GetPrimaryLock
    caller,           \* the job inside GetPrimaryLock (it holds DB.primaryLock)
    pc,               \* where that call is
    running,          \* the <<replica, job>> whose cycle runs
    status,           \* the process: "down", "up", "closing", "closed"
    faults            \* how many faults happened

vars == <<open, holder, client, primaryLockConn, conn, caller, pc, running,
          status, faults>>

-----------------------------------------------------------------------------
(* Sessions *)

\* Postgres releases the locks of the sessions that end.
Released(ended) == IF holder \in ended THEN None ELSE holder

\* The sessions idle in the connection pool of r.
Pool(r) == {s \in Sessions : /\ client[s] = r
                             /\ s # primaryLockConn[r]
                             /\ s # conn[r]}

\* Session identities with both ends gone.
Fresh == {s \in Sessions : s \notin open /\ client[s] = None}

Fault == faults < MaxFaults /\ faults' = faults + 1

-----------------------------------------------------------------------------
Init ==
    /\ open = {}
    /\ holder = None
    /\ client = [s \in Sessions |-> None]
    /\ primaryLockConn = [r \in Replicas |-> None]
    /\ conn = [r \in Replicas |-> None]
    /\ caller = [r \in Replicas |-> None]
    /\ pc = [r \in Replicas |-> "idle"]
    /\ running = {}
    /\ status = [r \in Replicas |-> "up"]
    /\ faults = 0

\* The end of GetPrimaryLock: the mutex is free and, on true, the job that
\* called runs its cycle.
Return(r, primary) ==
    /\ pc' = [pc EXCEPT ![r] = "idle"]
    /\ caller' = [caller EXCEPT ![r] = None]
    /\ running' = IF primary THEN running \cup {<<r, caller[r]>>} ELSE running

\* A job asks: it locks the mutex and looks at primaryLockConn.
Call(r, j) ==
    /\ status[r] \in {"up", "closing"}
    /\ caller[r] = None
    /\ <<r, j>> \notin running
    /\ caller' = [caller EXCEPT ![r] = j]
    /\ pc' = [pc EXCEPT ![r] = IF primaryLockConn[r] = None THEN "conn" ELSE "ping"]
    /\ UNCHANGED <<open, holder, client, primaryLockConn, conn, running, status, faults>>

\* (mutant of PingOk: primaryLockConn is believed without SELECT 1)
BelieveLockConn(r) ==
    /\ pc[r] = "ping"
    /\ Return(r, TRUE)
    /\ UNCHANGED <<open, holder, client, primaryLockConn, conn, status, faults>>

\* SELECT 1 succeeds on the connection of the lock.
PingOk(r) ==
    /\ pc[r] = "ping"
    /\ primaryLockConn[r] \in open
    /\ Return(r, TRUE)
    /\ UNCHANGED <<open, holder, client, primaryLockConn, conn, status, faults>>

\* After an error of SELECT 1 the connection is closed and forgotten, and the
\* call goes on as if the instance never had the lock.
ForgetLockConn(r) ==
    /\ primaryLockConn' = [primaryLockConn EXCEPT ![r] = None]
    /\ pc' = [pc EXCEPT ![r] = "conn"]
    /\ UNCHANGED <<open, holder, conn, caller, running, status>>

\* (mutant of PingLost: the connection is not forgotten)
PingLostKept(r) ==
    /\ pc[r] = "ping"
    /\ IF primaryLockConn[r] \in open THEN Fault ELSE UNCHANGED faults
    /\ Return(r, FALSE)
    /\ UNCHANGED <<open, holder, client, primaryLockConn, conn, status>>

\* SELECT 1 fails: the session ended, or the client lost it (a timeout, a cut
\* network) and closes its end while the server still has the session open.
PingLost(r) ==
    /\ pc[r] = "ping"
    /\ IF primaryLockConn[r] \in open THEN Fault ELSE UNCHANGED faults
    /\ client' = [client EXCEPT ![primaryLockConn[r]] = None]
    /\ ForgetLockConn(r)

\* SELECT 1 fails on a session that lives on (a cancelled statement): Close
\* puts the session, which still holds the lock, back to the pool.
PingError(r) ==
    /\ pc[r] = "ping"
    /\ primaryLockConn[r] \in open
    /\ Fault
    /\ ForgetLockConn(r)
    /\ UNCHANGED client

\* db.Conn: a session of the pool, or a new one.
Connect(r) ==
    /\ pc[r] = "conn"
    /\ status[r] # "closed"
    /\ \E s \in Pool(r) \cup Fresh :
         /\ open' = IF s \in Fresh THEN open \cup {s} ELSE open
         /\ client' = [client EXCEPT ![s] = r]
         /\ conn' = [conn EXCEPT ![r] = s]
    /\ pc' = [pc EXCEPT ![r] = "try"]
    /\ UNCHANGED <<holder, primaryLockConn, caller, running, status, faults>>

\* db.Conn fails: no database, or it is closed.
ConnectFails(r) ==
    /\ pc[r] = "conn"
    /\ IF status[r] = "closed" THEN UNCHANGED faults ELSE Fault
    /\ Return(r, FALSE)
    /\ UNCHANGED <<open, holder, client, primaryLockConn, conn, status>>

\* pg_try_advisory_lock fails: the session of the pool was already gone.
TryFails(r) ==
    /\ pc[r] = "try"
    /\ conn[r] \notin open
    /\ client' = [client EXCEPT ![conn[r]] = None]
    /\ conn' = [conn EXCEPT ![r] = None]
    /\ Return(r, FALSE)
    /\ UNCHANGED <<open, holder, primaryLockConn, status, faults>>

\* pg_try_advisory_lock fails on a session that lives, before or after it took
\* the lock: Close puts the session back to the pool, or the driver found it bad
\* and drops the client end.
TryErrs(r) ==
    /\ pc[r] = "try"
    /\ conn[r] \in open
    /\ Fault
    /\ \/ UNCHANGED holder
       \/ holder = None /\ holder' = conn[r]
    /\ \/ UNCHANGED client
       \/ client' = [client EXCEPT ![conn[r]] = None]
    /\ conn' = [conn EXCEPT ![r] = None]
    /\ Return(r, FALSE)
    /\ UNCHANGED <<open, primaryLockConn, status>>

\* (mutant of Acquire: the answer of pg_try_advisory_lock is not looked at)
AcquireUnasked(r) ==
    /\ pc[r] = "try"
    /\ conn[r] \in open
    /\ holder' = IF holder = None THEN conn[r] ELSE holder
    /\ primaryLockConn' = [primaryLockConn EXCEPT ![r] = conn[r]]
    /\ conn' = [conn EXCEPT ![r] = None]
    /\ Return(r, TRUE)
    /\ UNCHANGED <<open, client, status, faults>>

\* pg_try_advisory_lock answers true: nobody has the lock, or this session has.
Acquire(r) ==
    /\ pc[r] = "try"
    /\ conn[r] \in open
    /\ holder \in {None, conn[r]}
    /\ holder' = conn[r]
    /\ primaryLockConn' = [primaryLockConn EXCEPT ![r] = conn[r]]
    /\ conn' = [conn EXCEPT ![r] = None]
    /\ Return(r, TRUE)
    /\ UNCHANGED <<open, client, status, faults>>

\* (mutant of NotAcquired: the connection is kept as if it had the lock)
KeepAnyConn(r) ==
    /\ pc[r] = "try"
    /\ conn[r] \in open
    /\ holder \notin {None, conn[r]}
    /\ primaryLockConn' = [primaryLockConn EXCEPT ![r] = conn[r]]
    /\ conn' = [conn EXCEPT ![r] = None]
    /\ Return(r, FALSE)
    /\ UNCHANGED <<open, client, holder, status, faults>>

\* It answers false: another session has the lock.  Close keeps the session in
\* the pool, or ends it when the pool is full.
NotAcquired(r) ==
    /\ pc[r] = "try"
    /\ conn[r] \in open
    /\ holder \notin {None, conn[r]}
    /\ \/ UNCHANGED <<open, client>>
       \/ /\ open' = open \ {conn[r]}
          /\ client' = [client EXCEPT ![conn[r]] = None]
    /\ conn' = [conn EXCEPT ![r] = None]
    /\ Return(r, FALSE)
    /\ UNCHANGED <<holder, primaryLockConn, status, faults>>

\* A job ends its cycle.
JobEnds(r, j) ==
    /\ <<r, j>> \in running
    /\ running' = running \ {<<r, j>>}
    /\ UNCHANGED <<open, holder, client, primaryLockConn, conn, caller, pc, status, faults>>

\* The server ends a session: by itself (a failover, a restart, an
\* administrator: a fault), or because its client end is gone.
SessionEnds(s) ==
    /\ s \in open
    /\ IF client[s] = None THEN UNCHANGED faults ELSE Fault
    /\ open' = open \ {s}
    /\ holder' = Released({s})
    /\ UNCHANGED <<client, primaryLockConn, conn, caller, pc, running, status>>

\* The sessions ended, with their client end, on both sides.
EndSessions(ended) ==
    /\ open' = open \ ended
    /\ holder' = Released(ended)
    /\ client' = [s \in Sessions |-> IF s \in ended THEN None ELSE client[s]]

\* (mutant of CloseLockConn: the lock is given up before the session ends)
UnlockFirst(r) ==
    /\ status[r] = "up"
    /\ caller[r] = None
    /\ Fault
    /\ status' = [status EXCEPT ![r] = "closing"]
    /\ holder' = IF primaryLockConn[r] # None /\ holder = primaryLockConn[r] THEN None ELSE holder
    /\ UNCHANGED <<open, primaryLockConn, client, conn, caller, pc, running>>

\* (mutant of CloseLockConn: DB.Close does not take the mutex)
CloseUnlocked(r) ==
    /\ status[r] = "up"
    /\ Fault
    /\ status' = [status EXCEPT ![r] = "closing"]
    /\ primaryLockConn' = [primaryLockConn EXCEPT ![r] = None]
    /\ UNCHANGED <<open, holder, client, conn, caller, pc, running>>

\* SIGTERM, DB.Close: first, under the mutex, the connection of the lock goes
\* back to the pool ...
CloseLockConn(r) ==
    /\ status[r] = "up"
    /\ caller[r] = None
    /\ Fault
    /\ status' = [status EXCEPT ![r] = "closing"]
    /\ primaryLockConn' = [primaryLockConn EXCEPT ![r] = None]
    /\ UNCHANGED <<open, holder, client, conn, caller, pc, running>>

\* ... then sql.DB.Close ends the sessions of the pool; the jobs go on until
\* os.Exit.
CloseDB(r) ==
    /\ status[r] = "closing"
    /\ status' = [status EXCEPT ![r] = "closed"]
    /\ EndSessions(Pool(r))
    /\ UNCHANGED <<primaryLockConn, conn, caller, pc, running, faults>>

\* The process is gone, its jobs with it, and so are its client ends; the
\* server notices later (SessionEnds).
Gone(r) ==
    /\ status' = [status EXCEPT ![r] = "down"]
    /\ client' = [s \in Sessions |-> IF client[s] = r THEN None ELSE client[s]]
    /\ primaryLockConn' = [primaryLockConn EXCEPT ![r] = None]
    /\ conn' = [conn EXCEPT ![r] = None]
    /\ caller' = [caller EXCEPT ![r] = None]
    /\ pc' = [pc EXCEPT ![r] = "idle"]
    /\ running' = {job \in running : job[1] # r}
    /\ UNCHANGED <<open, holder>>

\* os.Exit at the end of a shutdown.
Exit(r) == status[r] = "closed" /\ Gone(r) /\ UNCHANGED faults

\* The process, or its node, dies.
Crash(r) == status[r] # "down" /\ Fault /\ Gone(r)

\* It is started again.
Start(r) ==
    /\ status[r] = "down"
    /\ status' = [status EXCEPT ![r] = "up"]
    /\ UNCHANGED <<open, holder, client, primaryLockConn, conn, caller, pc, running, faults>>

-----------------------------------------------------------------------------
\* The steps of GetPrimaryLock after the call.
GetPrimaryLock(r) ==
    \/ PingOk(r) \/ PingLost(r) \/ PingError(r)
    \/ Connect(r) \/ ConnectFails(r)
    \/ TryFails(r) \/ TryErrs(r) \/ Acquire(r) \/ NotAcquired(r)

Next ==
    \/ \E r \in Replicas :
         \/ \E j \in Jobs : Call(r, j) \/ JobEnds(r, j)
         \/ GetPrimaryLock(r)
         \/ CloseLockConn(r) \/ CloseDB(r) \/ Exit(r) \/ Crash(r) \/ Start(r)
    \/ \E s \in Sessions : SessionEnds(s)

(* Every job loop runs on a timer, a call of GetPrimaryLock ends, a job ends *)
(* its cycle, Kubernetes starts a stopped pod again, and Postgres finds out  *)
(* (by a closed socket or TCP keepalive) that a client is gone.              *)
Fairness ==
    /\ \A r \in Replicas :
         /\ WF_vars(GetPrimaryLock(r))
         /\ \A j \in Jobs : SF_vars(Call(r, j)) /\ WF_vars(JobEnds(r, j))
         /\ WF_vars(CloseDB(r)) /\ WF_vars(Exit(r)) /\ WF_vars(Start(r))
    /\ \A s \in Sessions : WF_vars(client[s] = None /\ SessionEnds(s))

Spec == Init /\ [][Next]_vars

FairSpec == Spec /\ Fairness

-----------------------------------------------------------------------------
(* Properties *)

\* Type correctness of the lock's state, and of the pointers GetPrimaryLock uses
\* without looking: a nil connection is neither asked SELECT 1 nor tried.
TypeOK ==
    /\ open \subseteq Sessions
    /\ holder \in Sessions \cup {None}
    /\ client \in [Sessions -> Replicas \cup {None}]
    /\ primaryLockConn \in [Replicas -> Sessions \cup {None}]
    /\ conn \in [Replicas -> Sessions \cup {None}]
    /\ caller \in [Replicas -> Jobs \cup {None}]
    /\ pc \in [Replicas -> {"idle", "ping", "conn", "try"}]
    /\ running \subseteq Replicas \X Jobs
    /\ status \in [Replicas -> {"down", "up", "closing", "closed"}]
    /\ faults \in 0..MaxFaults
    /\ \A r \in Replicas : /\ pc[r] = "ping" => primaryLockConn[r] # None
                           /\ pc[r] = "try" => conn[r] # None

\* A connection kept in primaryLockConn holds the lock for as long as its
\* session lives: "still the primary while its connection, and so the lock,
\* lives" (GetPrimaryLock).  Faults of both ends and shutdowns included.
LockConnHoldsLock ==
    \A r \in Replicas :
        primaryLockConn[r] \in open => holder = primaryLockConn[r]

\* So two replicas never both have a live connection of the primary lock,
\* whatever their stale beliefs are.
OneLivePrimary ==
    \A r, q \in Replicas :
        primaryLockConn[r] \in open /\ primaryLockConn[q] \in open => r = q

\* A cycle of a job starts only in a step that saw the lock held by this very
\* replica: GetPrimaryLock never answers true from a stale belief.
StartsOnlyWithLock ==
    [][\A r \in Replicas, j \in Jobs :
         <<r, j>> \in running' \ running => holder' # None /\ client'[holder'] = r]_vars

\* The replica whose live session holds the lock keeps it until that session
\* ends: "it never gives it up while it lives, so the primary does not change
\* from call to call" (GetPrimaryLock).
StablePrimary ==
    [][holder # None /\ holder' # holder => holder \notin open']_vars

\* Once faults stop, every job runs again and again on some replica: "then
\* another instance takes it".  The one exception: SELECT 1 failed on a
\* session that lives on, or pg_try_advisory_lock failed after it took the lock,
\* and this session went back to the pool of its process with the lock and is
\* never taken out again.
JobsKeepRunning ==
    \A j \in Jobs : \/ []<>(\E r \in Replicas : <<r, j>> \in running)
                    \/ <>[](\E r \in Replicas : holder \in Pool(r))
=============================================================================
