----------------------- MODULE WatcherDispatchProofs -----------------------
(***************************************************************************)
(* Proofs about WatcherDispatch for any projects, size of the queue and    *)
(* number of cycles: an update is on its way until a check has seen it,    *)
(* and the dispatch is a mailbox of one place for each project.            *)
(*                                                                         *)
(* Updates are merged when their project is marked, so NoLostUpdate rests  *)
(* on what the marks mean (MarksAreWaiting); that the worker may remove    *)
(* its mark rests on its project not being in the queue a second time.     *)
(***************************************************************************)
EXTENDS WatcherDispatch, TLAPS

USE CommonAssumption, DispatchAssumption

\* The worker has a project while it needs one, and took the only mark of it.
WorkerHas ==
    /\ worker.pc \in {"unmark", "lock", "handle"} => worker.p \in Evaluated
    /\ worker.pc = "unmark" => worker.p \notin ToSet(queue)

\* Nobody has been told of, or has seen, a cycle that is not stored.
OnlyStored == \A p \in Evaluated : noted[p] <= stored[p] /\ checked[p] <= stored[p]

IInv == DispatchTypeOK /\ WorkerHas /\ OnlyStored /\ MarksAreWaiting /\ NoLostUpdate

-----------------------------------------------------------------------------
(* Sequences *)

LEMMA EmptySet == ToSet(<<>>) = {}
  BY DEF ToSet

LEMMA OneSet == ASSUME NEW e PROVE ToSet(<<e>>) = {e}
  BY DEF ToSet

\* The members of a sequence are what its places hold.
LEMMA Members ==
  ASSUME NEW S, NEW q \in Seq(S), NEW x
  PROVE  x \in ToSet(q) <=> \E i \in 1..Len(q) : q[i] = x
  BY DEF ToSet

\* What a queue without repetitions holds once its head is taken.
LEMMA TailSet ==
  ASSUME NEW S, NEW q \in Seq(S), q # <<>>
  PROVE  /\ Head(q) \in S /\ Tail(q) \in Seq(S) /\ Len(Tail(q)) = Len(q) - 1
         /\ ToSet(q) = {Head(q)} \cup ToSet(Tail(q))
         /\ IsInjective(q) => IsInjective(Tail(q)) /\ Head(q) \notin ToSet(Tail(q))
<1>1. /\ Head(q) = q[1] /\ q[1] \in S /\ Len(q) \in Nat /\ Len(q) >= 1
      /\ Tail(q) \in Seq(S) /\ Len(Tail(q)) = Len(q) - 1
      /\ \A i \in 1..(Len(q) - 1) : Tail(q)[i] = q[i + 1]
  OBVIOUS
<1>2. ToSet(q) = {Head(q)} \cup ToSet(Tail(q))
  <2>1. ASSUME NEW i \in 1..Len(q) PROVE i = 1 \/ (i - 1 \in 1..(Len(q) - 1) /\ Tail(q)[i - 1] = q[i])
    BY <1>1
  <2>2. ASSUME NEW x \in ToSet(q) PROVE x \in {Head(q)} \cup ToSet(Tail(q))
    <3> PICK i \in 1..Len(q) : q[i] = x
      BY <2>2, Members
    <3>1. CASE i = 1
      BY <1>1, <3>1
    <3>2. CASE i # 1
      <4>1. i - 1 \in 1..Len(Tail(q)) /\ Tail(q)[i - 1] = x
        BY <1>1, <2>1, <3>2
      <4> QED BY <1>1, <4>1, Members
    <3> QED BY <3>1, <3>2
  <2>3. ASSUME NEW x \in {Head(q)} \cup ToSet(Tail(q)) PROVE x \in ToSet(q)
    <3>1. CASE x = Head(q)
      BY <1>1, <3>1, Members
    <3>2. CASE x \in ToSet(Tail(q))
      <4> PICK i \in 1..(Len(q) - 1) : Tail(q)[i] = x
        <5>1. \E i \in 1..Len(Tail(q)) : Tail(q)[i] = x
          BY <1>1, <3>2, Members, ZenonT(60)
        <5> QED BY <1>1, <5>1
      <4>1. i + 1 \in 1..Len(q) /\ q[i + 1] = x
        BY <1>1
      <4> QED BY <4>1, Members
    <3> QED BY <2>3, <3>1, <3>2
  <2> QED BY <2>2, <2>3
<1>3. ASSUME IsInjective(q) PROVE IsInjective(Tail(q)) /\ Head(q) \notin ToSet(Tail(q))
  <2>1. \A i, j \in 1..Len(q) : q[i] = q[j] => i = j
    BY <1>1, <1>3 DEF IsInjective
  <2>2. ASSUME NEW i \in 1..(Len(q) - 1), NEW j \in 1..(Len(q) - 1), Tail(q)[i] = Tail(q)[j]
        PROVE  i = j
    <3>1. i + 1 \in 1..Len(q) /\ j + 1 \in 1..Len(q) /\ q[i + 1] = q[j + 1]
      BY <1>1, <2>2
    <3> QED BY <2>1, <3>1
  <2>3. IsInjective(Tail(q))
    BY <1>1, <2>2 DEF IsInjective
  <2>4. Head(q) \notin ToSet(Tail(q))
    <3> SUFFICES ASSUME NEW i \in 1..(Len(q) - 1), Tail(q)[i] = Head(q) PROVE FALSE
      <4>1. Head(q) \in ToSet(Tail(q)) => \E i \in 1..Len(Tail(q)) : Tail(q)[i] = Head(q)
        BY <1>1, Members, ZenonT(60)
      <4> QED BY <1>1, <4>1
    <3>1. i + 1 \in 1..Len(q) /\ 1 \in 1..Len(q) /\ q[i + 1] = q[1] /\ i + 1 # 1
      BY <1>1
    <3> QED BY <2>1, <3>1
  <2> QED BY <2>3, <2>4
<1> QED BY <1>1, <1>2, <1>3

\* A member more; a queue without repetitions stays one.
LEMMA AppendSet ==
  ASSUME NEW S, NEW q \in Seq(S), NEW e \in S
  PROVE  /\ Append(q, e) \in Seq(S) /\ Len(Append(q, e)) = Len(q) + 1
         /\ ToSet(Append(q, e)) = ToSet(q) \cup {e}
         /\ IsInjective(q) /\ e \notin ToSet(q) => IsInjective(Append(q, e))
<1> DEFINE a == Append(q, e)
<1>1. /\ a \in Seq(S) /\ Len(a) = Len(q) + 1 /\ Len(q) \in Nat
      /\ \A i \in 1..Len(q) : a[i] = q[i]
      /\ a[Len(q) + 1] = e
  OBVIOUS
<1>2. \A i \in 1..Len(a) : i \in 1..Len(q) \/ i = Len(q) + 1
  BY <1>1
<1>3. \A i \in 1..Len(q) : i \in 1..Len(a)
  BY <1>1
<1>4. Len(q) + 1 \in 1..Len(a)
  BY <1>1
<1> HIDE DEF a
<1>5. ToSet(a) = ToSet(q) \cup {e}
  BY <1>1, <1>2, <1>3, <1>4, Members
<1>6. ASSUME IsInjective(q), e \notin ToSet(q) PROVE IsInjective(a)
  <2>1. \A i, j \in 1..Len(q) : q[i] = q[j] => i = j
    BY <1>6 DEF IsInjective
  <2>2. \A i \in 1..Len(q) : q[i] # e
    BY <1>6, Members
  <2>3. \A i, j \in 1..Len(a) : a[i] = a[j] => i = j
    BY <1>1, <1>2, <2>1, <2>2
  <2> QED BY <1>1, <2>3 DEF IsInjective
<1> QED BY <1>1, <1>5, <1>6 DEF a

-----------------------------------------------------------------------------
(* The inductive invariant *)

LEMMA InitIInv == DispatchInit => IInv
  BY EmptySet
  DEF DispatchInit, IInv, DispatchTypeOK, WorkerHas, OnlyStored, MarksAreWaiting,
      NoLostUpdate, Resting, IsInjective

\* A project that is settled is one nobody has to be told of.
LEMMA SettleKeeps ==
  ASSUME DispatchTypeOK, OnlyStored, NEW p \in Evaluated, Settle(p),
         UNCHANGED <<stored, noted>>
  PROVE  /\ checked' \in [Evaluated -> Nat] /\ OnlyStored'
         /\ ~(noted'[p] > checked'[p])
         /\ \A o \in Evaluated \ {p} : checked'[o] = checked[o]
  BY SMTT(60) DEF DispatchTypeOK, OnlyStored, Settle

LEMMA NextIInv == IInv /\ [DispatchNext]_dispatchVars => IInv'
<1> SUFFICES ASSUME IInv, [DispatchNext]_dispatchVars PROVE IInv'
  OBVIOUS
<1> USE DEF IInv
<1> DEFINE Parts == DispatchTypeOK' /\ WorkerHas' /\ OnlyStored' /\ MarksAreWaiting' /\ NoLostUpdate'
<1>1. ASSUME NEW p \in Evaluated, Store(p) PROVE Parts
  <2>0. stored' \in [Evaluated -> Nat] /\ stored'[p] \in Nat
    BY <1>1, SMTT(60) DEF Store, DispatchTypeOK
  <2>1. CASE updates = <<>>
    <3>1. updates' = <<p>> /\ ToSet(updates') = {p} /\ ToSet(updates) = {}
      BY <1>1, <2>1, OneSet, EmptySet DEF Store
    <3>2. DispatchTypeOK'
      <4>1. noted' \in [Evaluated -> Nat]
        BY <1>1, <2>0, <2>1 DEF Store, DispatchTypeOK
      <4>2. updates' \in Seq(Evaluated) /\ Len(updates') <= 1
        BY <3>1
      <4> QED BY <1>1, <2>0, <4>1, <4>2 DEF Store, DispatchTypeOK
    <3>3. WorkerHas' /\ MarksAreWaiting'
      BY <1>1 DEF Store, WorkerHas, MarksAreWaiting
    <3>4. OnlyStored'
      BY <1>1, <2>1, SMTT(60) DEF Store, OnlyStored, DispatchTypeOK
    <3>5. NoLostUpdate'
      BY <1>1, <2>1, <3>1 DEF Store, NoLostUpdate, DispatchTypeOK
    <3> QED BY <3>2, <3>3, <3>4, <3>5
  <2>2. CASE updates # <<>>
    <3>1. DispatchTypeOK'
      BY <1>1, <2>0, <2>2 DEF Store, DispatchTypeOK
    <3>2. OnlyStored'
      BY <1>1, <2>2, SMTT(60) DEF Store, OnlyStored, DispatchTypeOK
    <3>3. WorkerHas' /\ MarksAreWaiting' /\ NoLostUpdate'
      BY <1>1, <2>2 DEF Store, WorkerHas, MarksAreWaiting, NoLostUpdate
    <3> QED BY <3>1, <3>2, <3>3
  <2> QED BY <2>1, <2>2
<1>2. ASSUME Receive PROVE Parts
  <2>1. /\ hand' \in Evaluated /\ updates' \in Seq(Evaluated) /\ Len(updates') = Len(updates) - 1
        /\ ToSet(updates) = {hand'} \cup ToSet(updates')
    BY <1>2, TailSet DEF Receive, DispatchTypeOK
  <2>2. DispatchTypeOK'
    BY <1>2, <2>1 DEF Receive, DispatchTypeOK
  <2>3. WorkerHas' /\ OnlyStored' /\ MarksAreWaiting'
    BY <1>2 DEF Receive, WorkerHas, OnlyStored, MarksAreWaiting
  <2>4. NoLostUpdate'
    BY <1>2, <2>1 DEF Receive, NoLostUpdate
  <2> QED BY <2>2, <2>3, <2>4
<1>3. ASSUME Enqueue PROVE Parts
  <2>0. hand \in Evaluated
    BY <1>3 DEF Enqueue, DispatchTypeOK
  <2>1. CASE hand \in pending
    <3>1. DispatchTypeOK' /\ WorkerHas' /\ OnlyStored' /\ MarksAreWaiting'
      BY <1>3, <2>1 DEF Enqueue, DispatchTypeOK, WorkerHas, OnlyStored, MarksAreWaiting
    <3>2. NoLostUpdate'
      BY <1>3, <2>1 DEF Enqueue, NoLostUpdate, MarksAreWaiting
    <3> QED BY <3>1, <3>2
  <2>2. CASE hand \notin pending /\ Len(queue) < QueueSize
    <3>1. /\ queue' \in Seq(Evaluated) /\ Len(queue') = Len(queue) + 1
          /\ ToSet(queue') = ToSet(queue) \cup {hand}
          /\ IsInjective(queue') /\ pending' = pending \cup {hand}
      <4>1. queue' = Append(queue, hand) /\ pending' = pending \cup {hand}
        BY <1>3, <2>2 DEF Enqueue
      <4>2. queue \in Seq(Evaluated) /\ IsInjective(queue) /\ hand \notin ToSet(queue)
        BY <2>2 DEF DispatchTypeOK, MarksAreWaiting
      <4> QED BY <2>0, <4>1, <4>2, AppendSet
    <3>2. DispatchTypeOK'
      BY <1>3, <2>0, <2>2, <3>1, SMTT(60) DEF Enqueue, DispatchTypeOK
    <3>3. WorkerHas' /\ MarksAreWaiting'
      BY <1>3, <2>2, <3>1 DEF Enqueue, WorkerHas, MarksAreWaiting
    <3>4. OnlyStored' /\ NoLostUpdate'
      BY <1>3, <2>2, <3>1 DEF Enqueue, OnlyStored, NoLostUpdate
    <3> QED BY <3>2, <3>3, <3>4
  <2>3. CASE hand \notin pending /\ ~(Len(queue) < QueueSize)
    <3>1. Settle(hand) /\ UNCHANGED <<stored, noted, pending, queue, worker>>
      BY <1>3, <2>3 DEF Enqueue
    <3>2. DispatchTypeOK' /\ OnlyStored'
      BY <1>3, <2>0, <3>1, SettleKeeps DEF Enqueue, DispatchTypeOK
    <3>3. WorkerHas' /\ MarksAreWaiting'
      BY <3>1 DEF WorkerHas, MarksAreWaiting
    <3>4. NoLostUpdate'
      BY <1>3, <2>0, <3>1, SettleKeeps DEF Enqueue, NoLostUpdate
    <3> QED BY <3>2, <3>3, <3>4
  <2> QED BY <2>1, <2>2, <2>3
<1>4. ASSUME TakeFromQueue PROVE Parts
  <2>1. /\ Head(queue) \in Evaluated /\ queue' \in Seq(Evaluated) /\ Len(queue') = Len(queue) - 1
        /\ ToSet(queue) = {Head(queue)} \cup ToSet(queue')
        /\ IsInjective(queue') /\ Head(queue) \notin ToSet(queue')
    BY <1>4, TailSet DEF TakeFromQueue, DispatchTypeOK, MarksAreWaiting
  <2>2. worker = Resting /\ worker' = [pc |-> "unmark", p |-> Head(queue)]
    BY <1>4 DEF TakeFromQueue
  <2>3. DispatchTypeOK' /\ WorkerHas'
    <3>1. worker' \in [pc : {"idle", "unmark", "lock", "handle", "checks"}, p : Evaluated \cup {None}]
      BY <2>1, <2>2
    <3>2. Len(queue') <= QueueSize
      BY <2>1 DEF DispatchTypeOK
    <3>3. WorkerHas'
      BY <2>1, <2>2 DEF WorkerHas
    <3> QED BY <1>4, <2>1, <3>1, <3>2, <3>3 DEF TakeFromQueue, DispatchTypeOK
  <2>4. OnlyStored' /\ MarksAreWaiting'
    BY <1>4, <2>1, <2>2 DEF TakeFromQueue, OnlyStored, MarksAreWaiting, Resting
  <2>5. NoLostUpdate'
    BY <1>4, <2>1, <2>2 DEF TakeFromQueue, NoLostUpdate, Resting
  <2> QED BY <2>3, <2>4, <2>5
<1>5. ASSUME Unmark PROVE Parts
  <2>1. worker' = [pc |-> "lock", p |-> worker.p] /\ worker.pc = "unmark"
    BY <1>5 DEF Unmark, DispatchTypeOK
  <2>2. DispatchTypeOK' /\ WorkerHas' /\ OnlyStored'
    BY <1>5, <2>1 DEF Unmark, DispatchTypeOK, WorkerHas, OnlyStored
  <2>3. MarksAreWaiting' /\ NoLostUpdate'
    BY <1>5, <2>1 DEF Unmark, MarksAreWaiting, NoLostUpdate, WorkerHas
  <2> QED BY <2>2, <2>3
<1>6. ASSUME AskLock PROVE Parts
  <2>0. worker.p \in Evaluated /\ worker.pc = "lock"
    BY <1>6 DEF AskLock, WorkerHas
  <2>1. CASE isPrimary
    <3>1. worker' = [pc |-> "handle", p |-> worker.p]
      BY <1>6, <2>1 DEF AskLock, DispatchTypeOK
    <3>2. DispatchTypeOK' /\ WorkerHas' /\ OnlyStored'
      BY <1>6, <2>0, <2>1, <3>1 DEF AskLock, DispatchTypeOK, WorkerHas, OnlyStored
    <3>3. MarksAreWaiting' /\ NoLostUpdate'
      BY <1>6, <2>0, <2>1, <3>1 DEF AskLock, MarksAreWaiting, NoLostUpdate
    <3> QED BY <3>2, <3>3
  <2>2. CASE ~isPrimary
    <3>1. /\ worker' = Resting /\ Settle(worker.p)
          /\ UNCHANGED <<stored, noted, updates, hand, pending, queue, isPrimary>>
      BY <1>6, <2>2 DEF AskLock
    <3>2. DispatchTypeOK' /\ OnlyStored' /\ WorkerHas'
      BY <2>0, <3>1, SettleKeeps DEF DispatchTypeOK, WorkerHas, Resting
    <3>3. MarksAreWaiting'
      BY <2>0, <3>1 DEF MarksAreWaiting, Resting
    <3>4. NoLostUpdate'
      BY <2>0, <3>1, SettleKeeps DEF NoLostUpdate
    <3> QED BY <3>2, <3>3, <3>4
  <2> QED BY <2>1, <2>2
<1>7. ASSUME HandleProjectUpdate PROVE Parts
  <2>1. /\ worker.p \in Evaluated /\ worker.pc = "handle" /\ Settle(worker.p)
        /\ worker' = [pc |-> "checks", p |-> worker.p]
        /\ UNCHANGED <<stored, noted, updates, hand, pending, queue, isPrimary>>
    BY <1>7 DEF HandleProjectUpdate, WorkerHas, DispatchTypeOK
  <2>2. DispatchTypeOK' /\ OnlyStored' /\ WorkerHas'
    BY <2>1, SettleKeeps DEF DispatchTypeOK, WorkerHas
  <2>3. MarksAreWaiting'
    BY <2>1 DEF MarksAreWaiting
  <2>4. NoLostUpdate'
    BY <2>1, SettleKeeps DEF NoLostUpdate
  <2> QED BY <2>2, <2>3, <2>4
<1>8. ASSUME ChecksEnd \/ Ticker PROVE Parts
  <2>1. /\ worker.pc \in {"checks", "idle"} /\ worker'.pc \in {"checks", "idle"}
        /\ worker'.p \in Evaluated \cup {None}
        /\ worker' \in [pc : {"idle", "unmark", "lock", "handle", "checks"}, p : Evaluated \cup {None}]
        /\ UNCHANGED <<stored, noted, checked, updates, hand, pending, queue, isPrimary>>
    BY <1>8 DEF ChecksEnd, Ticker, Resting
  <2>2. DispatchTypeOK' /\ OnlyStored' /\ WorkerHas'
    BY <2>1 DEF DispatchTypeOK, OnlyStored, WorkerHas
  <2>3. MarksAreWaiting' /\ NoLostUpdate'
    BY <2>1 DEF MarksAreWaiting, NoLostUpdate
  <2> QED BY <2>2, <2>3
<1>9. ASSUME PrimaryChanges PROVE Parts
  <2>1. isPrimary' \in BOOLEAN
    BY <1>9 DEF PrimaryChanges
  <2> QED
    BY <1>9, <2>1 DEF PrimaryChanges, DispatchTypeOK, OnlyStored, WorkerHas, MarksAreWaiting,
                      NoLostUpdate
<1>10. ASSUME DispatchRestarts PROVE Parts
  <2>1. DispatchTypeOK' /\ OnlyStored' /\ WorkerHas'
    BY <1>10 DEF DispatchRestarts, DispatchTypeOK, OnlyStored, WorkerHas, Resting
  <2>2. MarksAreWaiting'
    BY <1>10, EmptySet DEF DispatchRestarts, MarksAreWaiting, Resting, IsInjective
  <2>3. NoLostUpdate'
    BY <1>10 DEF DispatchRestarts, NoLostUpdate, OnlyStored, DispatchTypeOK
  <2> QED BY <2>1, <2>2, <2>3
<1>11. ASSUME UNCHANGED dispatchVars PROVE Parts
  BY <1>11 DEF dispatchVars, DispatchTypeOK, OnlyStored, WorkerHas, MarksAreWaiting, NoLostUpdate
<1> QED
  BY <1>1, <1>2, <1>3, <1>4, <1>5, <1>6, <1>7, <1>8, <1>9, <1>10, <1>11 DEF DispatchNext

\* The inductive invariant holds in every reachable state.
THEOREM DispatchInvariance == DispatchSpec => []IInv
  BY InitIInv, NextIInv, PTL DEF DispatchSpec

\* As long as no check has seen a cycle that was told of, its project is on its way
\* to one: neither the marks of Start nor the merging of updates loses it.
THEOREM NoLostUpdateSafety == DispatchSpec => []NoLostUpdate
<1>1. IInv => NoLostUpdate BY DEF IInv
<1> QED BY <1>1, DispatchInvariance, PTL

\* The marks of pendingProjects are those of the projects that wait, each once.
THEOREM MarksSafety == DispatchSpec => []MarksAreWaiting
<1>1. IInv => MarksAreWaiting BY DEF IInv
<1> QED BY <1>1, DispatchInvariance, PTL

-----------------------------------------------------------------------------
(* The dispatch is a mailbox *)

\* A step that settles some projects as far as they are stored delivers to them.
LEMMA Delivers ==
  ASSUME DispatchTypeOK, OnlyStored, NEW ps \in SUBSET Evaluated, UNCHANGED noted,
         \A p \in Evaluated : checked'[p] = IF p \in ps THEN stored[p] ELSE checked[p]
  PROVE  Box!MailboxNext
<1>1. Box!Deliver(ps)
  BY DEF DispatchTypeOK, OnlyStored, Box!Deliver
<1> QED BY <1>1 DEF Box!MailboxNext

LEMMA SettleDelivers ==
  ASSUME DispatchTypeOK, OnlyStored, NEW p \in Evaluated, Settle(p), UNCHANGED noted
  PROVE  Box!MailboxNext
<1>1. \A o \in Evaluated : checked'[o] = IF o \in {p} THEN stored[o] ELSE checked[o]
  BY DEF DispatchTypeOK, Settle
<1> QED BY <1>1, Delivers

\* Every step of the dispatch is one of the mailbox, or leaves it as it is.
LEMMA StepIsMailboxStep ==
  IInv /\ [DispatchNext]_dispatchVars => [Box!MailboxNext]_(Box!mailboxVars)
<1> SUFFICES ASSUME IInv, [DispatchNext]_dispatchVars
             PROVE  Box!MailboxNext \/ UNCHANGED <<noted, checked>>
  BY DEF Box!mailboxVars
<1> USE DEF IInv
<1>1. ASSUME NEW p \in Evaluated, Store(p) PROVE Box!MailboxNext \/ UNCHANGED <<noted, checked>>
  <2>1. CASE updates = <<>>
    <3>1. noted' = [noted EXCEPT ![p] = stored[p] + 1] /\ UNCHANGED checked
      BY <1>1, <2>1 DEF Store, DispatchTypeOK
    <3>2. noted'[p] > noted[p] /\ noted' = [noted EXCEPT ![p] = noted'[p]]
      BY <3>1 DEF DispatchTypeOK, OnlyStored
    <3>3. Box!Notify(p)
      BY <3>1, <3>2 DEF Box!Notify
    <3> QED BY <3>3 DEF Box!MailboxNext
  <2>2. CASE updates # <<>>
    BY <1>1, <2>2 DEF Store
  <2> QED BY <2>1, <2>2
<1>2. ASSUME Enqueue PROVE Box!MailboxNext \/ UNCHANGED <<noted, checked>>
  <2>1. CASE Settle(hand)
    BY <1>2, <2>1, SettleDelivers DEF Enqueue, DispatchTypeOK
  <2>2. CASE UNCHANGED checked
    BY <1>2, <2>2 DEF Enqueue
  <2> QED BY <1>2, <2>1, <2>2 DEF Enqueue
<1>3. ASSUME AskLock PROVE Box!MailboxNext \/ UNCHANGED <<noted, checked>>
  <2>1. worker.p \in Evaluated /\ UNCHANGED noted /\ (Settle(worker.p) \/ UNCHANGED checked)
    BY <1>3 DEF AskLock, WorkerHas
  <2> QED BY <2>1, SettleDelivers
<1>4. ASSUME HandleProjectUpdate PROVE Box!MailboxNext \/ UNCHANGED <<noted, checked>>
  BY <1>4, SettleDelivers DEF HandleProjectUpdate, WorkerHas
<1>5. ASSUME DispatchRestarts PROVE Box!MailboxNext \/ UNCHANGED <<noted, checked>>
  <2>1. UNCHANGED noted
        /\ \A p \in Evaluated : checked'[p] = IF p \in Evaluated THEN stored[p] ELSE checked[p]
    BY <1>5 DEF DispatchRestarts
  <2> QED BY <2>1, Delivers
<1> QED
  BY <1>1, <1>2, <1>3, <1>4, <1>5
     DEF DispatchNext, Receive, TakeFromQueue, Unmark, ChecksEnd, Ticker, PrimaryChanges,
         dispatchVars

\* The dispatch implements the safety of Mailbox, with noted for what was told and
\* checked for what was settled: a delivery is never older than what was told before
\* it, and nothing else changes either.  (That a delivery comes is liveness.)
THEOREM DispatchIsMailbox == DispatchSpec => Box!MailboxSafety
<1>1. DispatchInit => Box!MailboxInit
  BY DEF DispatchInit, Box!MailboxInit
<1> QED
  BY <1>1, StepIsMailboxStep, DispatchInvariance, PTL DEF DispatchSpec, Box!MailboxSafety
=============================================================================
