------------------------- MODULE PrimaryLockProofs -------------------------
(***************************************************************************)
(* Proofs about PrimaryLock for any number of replicas, jobs, sessions and *)
(* faults.  LockConnHoldsLock is not inductive alone: which process has    *)
(* the client end of a session (ClientEnds), and which connections a call  *)
(* of GetPrimaryLock may have at each point (CallState), have to be known. *)
(***************************************************************************)
EXTENDS PrimaryLock, TLAPS

\* A connection a process refers to is one whose client end it has, and the
\* connection a call is trying is not the one kept for the lock.
ClientEnds ==
    \A r \in Replicas :
        /\ primaryLockConn[r] # None => client[primaryLockConn[r]] = r
        /\ conn[r] # None => client[conn[r]] = r

\* What a call of GetPrimaryLock has at each of its points.
CallState ==
    \A r \in Replicas :
        /\ pc[r] # "idle" => caller[r] # None
        /\ pc[r] = "ping" => primaryLockConn[r] # None
        /\ pc[r] \in {"conn", "try"} => primaryLockConn[r] = None
        /\ conn[r] # None <=> pc[r] = "try"

\* The lock is held by an open session only: Postgres releases it otherwise.
HolderOpen == holder # None => holder \in open

IInv == TypeOK /\ ClientEnds /\ CallState /\ HolderOpen /\ LockConnHoldsLock

USE NoneAssumption, FaultsAssumption

LEMMA InitIInv == Init => IInv
  BY DEF Init, IInv, TypeOK, ClientEnds, CallState, HolderOpen, LockConnHoldsLock

\* A fault keeps the counter within its bound.
LEMMA FaultBound ==
  ASSUME TypeOK, Fault \/ UNCHANGED faults
  PROVE  faults' \in 0..MaxFaults
  BY DEF TypeOK, Fault

\* Every step keeps the inductive invariant.
LEMMA NextIInv == IInv /\ [Next]_vars => IInv'
<1> SUFFICES ASSUME IInv, [Next]_vars PROVE IInv'
  OBVIOUS
<1> USE DEF IInv
<1> DEFINE Parts == /\ TypeOK' /\ ClientEnds' /\ CallState'
                    /\ HolderOpen' /\ LockConnHoldsLock'
<1>1. ASSUME NEW r \in Replicas, NEW j \in Jobs, Call(r, j) PROVE Parts
  BY <1>1 DEF Call, TypeOK, ClientEnds, CallState, HolderOpen, LockConnHoldsLock
<1>2. ASSUME NEW r \in Replicas, NEW j \in Jobs, JobEnds(r, j) PROVE Parts
  BY <1>2 DEF JobEnds, TypeOK, ClientEnds, CallState, HolderOpen, LockConnHoldsLock
<1>3. ASSUME NEW r \in Replicas, PingOk(r) PROVE Parts
  BY <1>3 DEF PingOk, Return, TypeOK, ClientEnds, CallState, HolderOpen, LockConnHoldsLock
<1>4. ASSUME NEW r \in Replicas, PingLost(r) PROVE Parts
  <2>1. TypeOK'
    BY <1>4, FaultBound DEF PingLost, ForgetLockConn, TypeOK, CallState
  <2>2. ClientEnds' /\ CallState' /\ HolderOpen' /\ LockConnHoldsLock'
    BY <1>4 DEF PingLost, ForgetLockConn, TypeOK, ClientEnds, CallState, HolderOpen,
                LockConnHoldsLock
  <2> QED BY <2>1, <2>2
<1>5. ASSUME NEW r \in Replicas, PingError(r) PROVE Parts
  <2>1. TypeOK'
    BY <1>5, FaultBound DEF PingError, ForgetLockConn, TypeOK
  <2>2. ClientEnds' /\ CallState' /\ HolderOpen' /\ LockConnHoldsLock'
    BY <1>5 DEF PingError, ForgetLockConn, TypeOK, ClientEnds, CallState, HolderOpen,
                LockConnHoldsLock
  <2> QED BY <2>1, <2>2
<1>6. ASSUME NEW r \in Replicas, Connect(r) PROVE Parts
  <2> PICK s \in Pool(r) \cup Fresh :
        /\ open' = IF s \in Fresh THEN open \cup {s} ELSE open
        /\ client' = [client EXCEPT ![s] = r]
        /\ conn' = [conn EXCEPT ![r] = s]
    BY <1>6 DEF Connect
  <2>1. s \in Sessions /\ (s \in Fresh => client[s] = None)
                       /\ (s \notin Fresh => client[s] = r)
    BY DEF Pool, Fresh
  <2>2. TypeOK'
    BY <1>6, <2>1 DEF Connect, TypeOK
  <2>3. \A q \in Replicas : primaryLockConn[q] # s
    BY <1>6, <2>1 DEF Connect, TypeOK, ClientEnds, CallState
  <2>4. ClientEnds'
    BY <1>6, <2>1, <2>3 DEF Connect, TypeOK, ClientEnds, CallState
  <2>5. CallState' /\ HolderOpen' /\ LockConnHoldsLock'
    BY <1>6, <2>1, <2>3 DEF Connect, TypeOK, CallState, HolderOpen, LockConnHoldsLock
  <2> QED BY <2>2, <2>4, <2>5
<1>7. ASSUME NEW r \in Replicas, ConnectFails(r) PROVE Parts
  <2>1. TypeOK'
    BY <1>7, FaultBound DEF ConnectFails, Return, TypeOK
  <2>2. ClientEnds' /\ CallState' /\ HolderOpen' /\ LockConnHoldsLock'
    BY <1>7 DEF ConnectFails, Return, TypeOK, ClientEnds, CallState, HolderOpen,
                LockConnHoldsLock
  <2> QED BY <2>1, <2>2
<1>8. ASSUME NEW r \in Replicas, TryFails(r) PROVE Parts
  BY <1>8 DEF TryFails, Return, TypeOK, ClientEnds, CallState, HolderOpen, LockConnHoldsLock
<1>9. ASSUME NEW r \in Replicas, TryErrs(r) PROVE Parts
  <2>1. TypeOK'
    BY <1>9, FaultBound DEF TryErrs, Return, TypeOK
  <2>2. \A q \in Replicas : primaryLockConn[q] # conn[r]
    BY <1>9 DEF TryErrs, TypeOK, ClientEnds, CallState
  <2>3. ClientEnds' /\ CallState' /\ HolderOpen' /\ LockConnHoldsLock'
    BY <1>9, <2>2 DEF TryErrs, Return, TypeOK, ClientEnds, CallState, HolderOpen,
                       LockConnHoldsLock
  <2> QED BY <2>1, <2>3
<1>10. ASSUME NEW r \in Replicas, Acquire(r) PROVE Parts
  BY <1>10 DEF Acquire, Return, TypeOK, ClientEnds, CallState, HolderOpen, LockConnHoldsLock
<1>11. ASSUME NEW r \in Replicas, NotAcquired(r) PROVE Parts
  BY <1>11 DEF NotAcquired, Return, TypeOK, ClientEnds, CallState, HolderOpen,
               LockConnHoldsLock
<1>12. ASSUME NEW s \in Sessions, SessionEnds(s) PROVE Parts
  <2>1. TypeOK'
    BY <1>12, FaultBound DEF SessionEnds, Released, TypeOK
  <2>2. ClientEnds' /\ CallState' /\ HolderOpen' /\ LockConnHoldsLock'
    BY <1>12 DEF SessionEnds, Released, TypeOK, ClientEnds, CallState, HolderOpen,
                 LockConnHoldsLock
  <2> QED BY <2>1, <2>2
<1>13. ASSUME NEW r \in Replicas, CloseLockConn(r) PROVE Parts
  <2>1. TypeOK'
    BY <1>13, FaultBound DEF CloseLockConn, TypeOK, CallState
  <2>2. ClientEnds' /\ CallState' /\ HolderOpen' /\ LockConnHoldsLock'
    BY <1>13 DEF CloseLockConn, TypeOK, ClientEnds, CallState, HolderOpen, LockConnHoldsLock
  <2> QED BY <2>1, <2>2
<1>14. ASSUME NEW r \in Replicas, CloseDB(r) PROVE Parts
  BY <1>14 DEF CloseDB, EndSessions, Released, Pool, TypeOK, ClientEnds, CallState,
               HolderOpen, LockConnHoldsLock
<1>15. ASSUME NEW r \in Replicas, Exit(r) \/ Crash(r) PROVE Parts
  <2>1. TypeOK'
    BY <1>15, FaultBound DEF Exit, Crash, Gone, TypeOK
  <2>2. ClientEnds' /\ CallState' /\ HolderOpen' /\ LockConnHoldsLock'
    BY <1>15 DEF Exit, Crash, Gone, TypeOK, ClientEnds, CallState, HolderOpen,
                 LockConnHoldsLock
  <2> QED BY <2>1, <2>2
<1>16. ASSUME NEW r \in Replicas, Start(r) PROVE Parts
  BY <1>16 DEF Start, TypeOK, ClientEnds, CallState, HolderOpen, LockConnHoldsLock
<1>17. ASSUME UNCHANGED vars PROVE Parts
  BY <1>17 DEF vars, TypeOK, ClientEnds, CallState, HolderOpen, LockConnHoldsLock
<1> QED
  BY <1>1, <1>2, <1>3, <1>4, <1>5, <1>6, <1>7, <1>8, <1>10, <1>11, <1>12, <1>13,
     <1>14, <1>15, <1>16, <1>17, <1>9 DEF Next, GetPrimaryLock

\* The inductive invariant holds in every reachable state.
THEOREM Invariance == Spec => []IInv
  BY InitIInv, NextIInv, PTL DEF Spec

\* The state of the lock keeps its types, whatever the replicas, jobs and sessions.
THEOREM TypeCorrect == Spec => []TypeOK
<1>1. IInv => TypeOK BY DEF IInv
<1> QED BY <1>1, Invariance, PTL

\* A connection kept for the primary lock (GetPrimaryLock) holds the lock while
\* its session lives, under lost sessions, crashes and shutdowns.
THEOREM LockConnSafety == Spec => []LockConnHoldsLock
<1>1. IInv => LockConnHoldsLock BY DEF IInv
<1> QED BY <1>1, Invariance, PTL

\* Two replicas never both have a live connection of the primary lock.
THEOREM OneLivePrimarySafety == Spec => []OneLivePrimary
<1>1. IInv => OneLivePrimary
  BY DEF IInv, TypeOK, ClientEnds, LockConnHoldsLock, OneLivePrimary
<1> QED BY <1>1, Invariance, PTL

\* The lock changes hands only when the session that holds it ends: the primary
\* does not change from call to call of GetPrimaryLock.
THEOREM StablePrimarySafety == Spec => StablePrimary
<1>1. ASSUME [Next]_vars, holder # None, holder' # holder
      PROVE  holder \notin open'
  <2>1. \/ \E r \in Replicas : Acquire(r) \/ TryErrs(r) \/ CloseDB(r)
        \/ \E s \in Sessions : SessionEnds(s)
    BY <1>1 DEF Next, GetPrimaryLock, vars, Call, JobEnds, PingOk, PingLost, PingError,
                ForgetLockConn, Connect, ConnectFails, TryFails, NotAcquired, Return,
                CloseLockConn, Exit, Crash, Gone, Start
  <2> QED BY <1>1, <2>1 DEF Acquire, TryErrs, CloseDB, EndSessions, SessionEnds, Released
<1> QED BY <1>1, PTL DEF Spec, StablePrimary

\* A job's cycle starts only in a step in which its replica's session holds the
\* lock: no answer of GetPrimaryLock comes from a stale belief.
THEOREM StartsOnlyWithLockSafety == Spec => StartsOnlyWithLock
<1> DEFINE Starts(r, j) == <<r, j>> \in running' \ running
                             => holder' # None /\ client'[holder'] = r
<1>1. ASSUME IInv, [Next]_vars, NEW r \in Replicas, NEW j \in Jobs,
             <<r, j>> \in running' \ running
      PROVE  holder' # None /\ client'[holder'] = r
  <2>1. \E q \in Replicas : PingOk(q) \/ Acquire(q)
    <3>1. running' # running
      BY <1>1
    <3> QED BY <1>1, <3>1 DEF Next, GetPrimaryLock, vars, Call, JobEnds, PingLost, PingError,
                 ForgetLockConn, Connect, ConnectFails, TryFails, TryErrs, NotAcquired,
                 Return, SessionEnds, CloseLockConn, CloseDB, Exit, Crash, Gone, Start
  <2>2. ASSUME NEW q \in Replicas, PingOk(q) PROVE holder' # None /\ client'[holder'] = r
    BY <1>1, <2>2 DEF IInv, TypeOK, ClientEnds, CallState, LockConnHoldsLock, PingOk, Return
  <2>3. ASSUME NEW q \in Replicas, Acquire(q) PROVE holder' # None /\ client'[holder'] = r
    BY <1>1, <2>3 DEF IInv, TypeOK, ClientEnds, CallState, Acquire, Return
  <2> QED BY <2>1, <2>2, <2>3
<1>2. IInv /\ [Next]_vars => [\A r \in Replicas, j \in Jobs : Starts(r, j)]_vars
  BY <1>1
<1> QED BY <1>2, Invariance, PTL DEF Spec, StartsOnlyWithLock
=============================================================================
