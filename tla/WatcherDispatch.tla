-------------------------- MODULE WatcherDispatch --------------------------
(***************************************************************************)
(* How a cycle of the evaluator makes the watchers check a project         *)
(* (world/run.go, watchers/watchers.go): a channel of one update, a        *)
(* goroutine that moves what it receives to a queue without repeating a    *)
(* project that waits in it, and a goroutine that takes the projects from  *)
(* the queue, one after the other, and checks the multi-cluster ones by a  *)
(* ticker in between.                                                      *)
(***************************************************************************)
EXTENDS Common, Sequences, SequencesExt

CONSTANTS
    Evaluated,      \* the projects the evaluator has cycles of
    Multicluster,   \* the projects it skips
    QueueSize,      \* of projectChan
    MaxStores       \* bound: cycles that store points, per project

ASSUME DispatchAssumption ==
    /\ Evaluated \cap Multicluster = {}
    /\ None \notin Evaluated \cup Multicluster
    /\ QueueSize \in Nat \ {0} /\ MaxStores \in Nat

VARIABLES
    stored,     \* [Evaluated -> Nat] the cycles that stored points
    updates,    \* the channel of the evaluator
    hand,       \* what the first goroutine has received, or None
    pending,    \* the projects marked as waiting
    queue,      \* projectChan
    worker,     \* the second goroutine
    isPrimary,  \* what GetPrimaryLock answers
    noted,      \* history: the newest cycle whose update was sent
    checked     \* history: the newest cycle a check or a decision not to check has seen

dispatchVars == <<stored, updates, hand, pending, queue, worker, isPrimary, noted, checked>>

Resting == [pc |-> "idle", p |-> None]

-----------------------------------------------------------------------------
DispatchInit ==
    /\ stored = [p \in Evaluated |-> 0]
    /\ updates = <<>>
    /\ hand = None
    /\ pending = {}
    /\ queue = <<>>
    /\ worker = Resting
    /\ isPrimary = TRUE
    /\ noted = stored /\ checked = stored

\* The end of runProject: the update is dropped when the channel is full.
Store(p) ==
    /\ stored[p] < MaxStores
    /\ stored' = [stored EXCEPT ![p] = @ + 1]
    /\ IF updates = <<>>
       THEN updates' = <<p>> /\ noted' = [noted EXCEPT ![p] = stored'[p]]
       ELSE UNCHANGED <<updates, noted>>
    /\ UNCHANGED <<hand, pending, queue, worker, isPrimary, checked>>

Receive ==
    /\ hand = None /\ updates # <<>>
    /\ hand' = Head(updates)
    /\ updates' = Tail(updates)
    /\ UNCHANGED <<stored, pending, queue, worker, isPrimary, noted, checked>>

\* The project p is done with, as far as it is stored now.
Settle(p) == checked' = [checked EXCEPT ![p] = stored[p]]

\* (mutant of Enqueue: an update that finds the queue full stays marked)
EnqueueKeepsMark ==
    /\ hand # None
    /\ hand' = None
    /\ pending' = pending \cup {hand}
    /\ IF hand \notin pending /\ Len(queue) < QueueSize
       THEN queue' = Append(queue, hand) /\ UNCHANGED checked
       ELSE /\ UNCHANGED queue
            /\ IF hand \in pending THEN UNCHANGED checked ELSE Settle(hand)
    /\ UNCHANGED <<stored, updates, worker, isPrimary, noted>>

\* Under pendingLock: a project that is not marked is marked and queued; when
\* the queue is full the update is given up.
Enqueue ==
    /\ hand # None
    /\ hand' = None
    /\ IF hand \in pending
       THEN UNCHANGED <<pending, queue, checked>>
       ELSE IF Len(queue) < QueueSize
       THEN /\ pending' = pending \cup {hand}
            /\ queue' = Append(queue, hand)
            /\ UNCHANGED checked
       ELSE /\ Settle(hand)
            /\ UNCHANGED <<pending, queue>>
    /\ UNCHANGED <<stored, updates, worker, isPrimary, noted>>

-----------------------------------------------------------------------------
TakeFromQueue ==
    /\ worker = Resting /\ queue # <<>>
    /\ worker' = [pc |-> "unmark", p |-> Head(queue)]
    /\ queue' = Tail(queue)
    /\ UNCHANGED <<stored, updates, hand, pending, isPrimary, noted, checked>>

\* (mutant of Unmark: the mark stays until the check has begun)
UnmarkLater ==
    /\ worker.pc = "unmark"
    /\ worker' = [worker EXCEPT !.pc = "lock"]
    /\ UNCHANGED <<stored, updates, hand, pending, queue, isPrimary, noted, checked>>

\* Under pendingLock.
Unmark ==
    /\ worker.pc = "unmark"
    /\ pending' = pending \ {worker.p}
    /\ worker' = [worker EXCEPT !.pc = "lock"]
    /\ UNCHANGED <<stored, updates, hand, queue, isPrimary, noted, checked>>

\* "not the primary replica: skipping"
AskLock ==
    /\ worker.pc = "lock"
    /\ IF isPrimary
       THEN worker' = [worker EXCEPT !.pc = "handle"] /\ UNCHANGED checked
       ELSE worker' = Resting /\ Settle(worker.p)
    /\ UNCHANGED <<stored, updates, hand, pending, queue, isPrimary, noted>>

\* handleProjectUpdate: it reads the end of the stored results and the world up
\* to it, or gives up at a failed read, and then checks what it read.
HandleProjectUpdate ==
    /\ worker.pc = "handle"
    /\ Settle(worker.p)
    /\ worker' = [worker EXCEPT !.pc = "checks"]
    /\ UNCHANGED <<stored, updates, hand, pending, queue, isPrimary, noted>>

\* The checks are over, and the space manager that may follow them.
ChecksEnd ==
    /\ worker.pc = "checks"
    /\ worker' = Resting
    /\ UNCHANGED <<stored, updates, hand, pending, queue, isPrimary, noted, checked>>

\* The ticker: a check of the multi-cluster projects, on the primary only.
Ticker ==
    /\ worker = Resting /\ isPrimary /\ Multicluster # {}
    /\ worker' = [pc |-> "checks", p |-> None]
    /\ UNCHANGED <<stored, updates, hand, pending, queue, isPrimary, noted, checked>>

-----------------------------------------------------------------------------
PrimaryChanges ==
    /\ isPrimary' = ~isPrimary
    /\ UNCHANGED <<stored, updates, hand, pending, queue, worker, noted, checked>>

\* What waits is gone; the next cycle of a project tells of it again.
DispatchRestarts ==
    /\ updates' = <<>> /\ hand' = None /\ pending' = {} /\ queue' = <<>>
    /\ worker' = Resting
    /\ checked' = stored
    /\ UNCHANGED <<stored, isPrimary, noted>>

DispatchNext ==
    \/ \E p \in Evaluated : Store(p)
    \/ Receive \/ Enqueue \/ TakeFromQueue \/ Unmark \/ AskLock \/ HandleProjectUpdate
    \/ ChecksEnd \/ Ticker \/ PrimaryChanges \/ DispatchRestarts

\* The two goroutines run; a select of two ready cases takes each of them in the
\* long run, so the ticker does not keep the queue waiting for ever.
DispatchFairness ==
    /\ WF_dispatchVars(Receive) /\ WF_dispatchVars(Enqueue) /\ SF_dispatchVars(TakeFromQueue)
    /\ WF_dispatchVars(Unmark) /\ WF_dispatchVars(AskLock) /\ WF_dispatchVars(HandleProjectUpdate)
    /\ WF_dispatchVars(ChecksEnd)

DispatchSpec == DispatchInit /\ [][DispatchNext]_dispatchVars /\ DispatchFairness

-----------------------------------------------------------------------------
DispatchTypeOK ==
    /\ stored \in [Evaluated -> Nat] /\ noted \in [Evaluated -> Nat] /\ checked \in [Evaluated -> Nat]
    /\ updates \in Seq(Evaluated) /\ Len(updates) <= 1
    /\ hand \in Evaluated \cup {None}
    /\ pending \in SUBSET Evaluated
    /\ queue \in Seq(Evaluated) /\ Len(queue) <= QueueSize
    /\ worker \in [pc : {"idle", "unmark", "lock", "handle", "checks"}, p : Evaluated \cup {None}]
    /\ isPrimary \in BOOLEAN

\* The marks are of the projects that wait: of those in the queue, each there
\* once, and of the one just taken.  (A mark without a place in the queue would
\* silence a project for good; a place without a mark, fill the queue.)
MarksAreWaiting ==
    /\ pending = ToSet(queue) \cup (IF worker.pc = "unmark" THEN {worker.p} ELSE {})
    /\ IsInjective(queue)

\* An update that was sent is not lost by the merging of updates: as long as no
\* check has seen the cycle it tells of, its project is on its way to one, before
\* the read of that check.
NoLostUpdate ==
    \A p \in Evaluated : noted[p] > checked[p] =>
        \/ p \in ToSet(updates) \cup ToSet(queue) \cup {hand}
        \/ worker.p = p /\ worker.pc \in {"unmark", "lock", "handle"}

\* The dispatch is a mailbox of one place for each project.
Box == INSTANCE Mailbox WITH Addressees <- Evaluated, told <- noted, settled <- checked

IsMailbox == Box!MailboxSpec
=============================================================================
