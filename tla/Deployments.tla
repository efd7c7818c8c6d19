---------------------------- MODULE Deployments ----------------------------
(***************************************************************************)
(* Deployments of an application (watchers/deployments.go, db/-            *)
(* deployments.go, CalcApplicationDeploymentStatuses): a check looks at    *)
(* the replica sets that were alive in the last hour, derives the rollouts *)
(* from them, saves what is new, takes a snapshot of the metrics some time *)
(* after the end of a rollout, and tells the messengers of its states.     *)
(*                                                                         *)
(* Time is counted in steps, 1 being the first; the hour is Window steps.  *)
(* Replica sets are numbered in the order of their names.  What a snapshot *)
(* contains is left out, and so is a day's age, at which a deployment is   *)
(* not notified any more.  One replica checks at a time: what two do that  *)
(* check beside each other after the primary lock was lost is left out.    *)
(***************************************************************************)
EXTENDS Common, FiniteSets, SequencesExt

CONSTANTS
    ReplicaSets,        \* a set of positive numbers
    DeployMessengers,   \* Slack, Teams, webhook
    Window,             \* how far a world reaches back
    SnapshotAfter,      \* ApplicationDeploymentMinLifetime
    StuckAfter,         \* the threshold of the check
    MaxSteps,           \* bound
    MaxDeployFaults     \* bound: failures and crashes

ASSUME DeploymentsAssumption ==
    /\ ReplicaSets \subseteq Nat \ {0}
    /\ {Window, SnapshotAfter, StuckAfter, MaxSteps, MaxDeployFaults} \subseteq Nat

VARIABLES
    alive,      \* the replica sets with a running pod, step by step
    saved,      \* table application_deployment: [started_at -> row]
    look,       \* the local variables of Check
    heard,      \* history: what a messenger was told of the deployment of a start
    unsaved,    \* history: starts with a failed write, or of which a messenger was
                \* told by a send that failed
    blunders

deployVars == <<alive, saved, look, heard, unsaved, blunders>>

-----------------------------------------------------------------------------
Starts == 1..MaxSteps

\* ApplicationDeploymentState
InProgress == 1
Stuck == 2
Cancelled == 3
Deployed == 4
Summary == 5

NoLook == [pc |-> "idle", to |-> 0, found |-> <<>>, app |-> <<>>, i |-> 0]

DeploymentsInit ==
    /\ alive = <<>>
    /\ saved = [s \in {} |-> 0]
    /\ look = NoLook
    /\ heard = [m \in DeployMessengers |-> [s \in Starts |-> <<>>]]
    /\ unsaved = {}
    /\ blunders = 0

Blunder == blunders < MaxDeployFaults /\ blunders' = blunders + 1

-----------------------------------------------------------------------------
(* calcDeployments *)

\* A rollout begins at t.
Begun(acc, name, t, fin) ==
    [acc EXCEPT !.found = Append(@, [name |-> name, start |-> t, fin |-> fin]),
                !.open = (fin = 0), !.prev = name]

\* The deployment under way, if any, ends with curr alone.
Closed(acc, curr, t) ==
    LET n == Len(acc.found)
    IN  IF ~acc.open THEN acc
        ELSE IF acc.found[n].name = curr
        THEN [acc EXCEPT !.open = FALSE, !.found[n].fin = t]
        ELSE [acc EXCEPT !.open = FALSE]

\* One replica set is alive.
Alone(acc, curr, t) ==
    IF acc.prev = 0 THEN [acc EXCEPT !.prev = curr]
    ELSE IF acc.prev = curr THEN Closed(acc, curr, t)
    ELSE Begun(Closed(acc, curr, t), curr, t, t)

\* (mutant of Several: the first step of the world may begin a rollout)
SeveralAtOnce(acc, names, t) ==
    IF acc.open THEN acc
    ELSE Begun(acc, CHOOSE n \in names \ {acc.prev} : \A o \in names \ {acc.prev} : n <= o, t, 0)

\* Several are: the first of the new ones is being rolled out.
Several(acc, names, t) ==
    IF acc.prev = 0 \/ acc.open THEN acc
    ELSE Begun(acc, CHOOSE n \in names \ {acc.prev} : \A o \in names \ {acc.prev} : n <= o, t, 0)

Rollout(acc, t) ==
    CASE Cardinality(alive[t]) = 0 -> acc
      [] Cardinality(alive[t]) = 1 -> Alone(acc, CHOOSE n \in alive[t] : TRUE, t)
      [] OTHER -> Several(acc, alive[t], t)

\* The deployments that the steps from..to show, in the order of their starts.
CalcDeployments(from, to) ==
    FoldLeft(Rollout, [found |-> <<>>, open |-> FALSE, prev |-> 0],
             [i \in 1..(to + 1 - from) |-> from + i - 1]).found

WindowStart(to) == IF to > Window THEN to - Window ELSE 1

-----------------------------------------------------------------------------
(* Time, and the loading of a world *)

Runs ==
    /\ Len(alive) < MaxSteps
    /\ \E names \in SUBSET ReplicaSets : alive' = Append(alive, names)
    /\ UNCHANGED <<saved, look, heard, unsaved, blunders>>

\* The rows of the application in the order of their starts.
InOrderOfStart(rows) ==
    LET order == SetToSortSeq(DOMAIN rows, LAMBDA a, b : a < b)
    IN  [i \in 1..Len(order) |-> rows[order[i]]]

\* LoadWorld, with the deployments of the application (GetApplicationDeployments).
CheckDeployments ==
    /\ look.pc = "idle"
    /\ look.to < Len(alive)
    /\ look' = [pc |-> "save", to |-> Len(alive), i |-> 1, app |-> InOrderOfStart(saved),
                found |-> CalcDeployments(WindowStart(Len(alive)), Len(alive))]
    /\ UNCHANGED <<alive, saved, heard, unsaved, blunders>>

-----------------------------------------------------------------------------
(* discoverAndSaveDeployments *)

NewRow(d) == [name |-> d.name, start |-> d.start, fin |-> d.fin, snapshot |-> FALSE,
              told |-> [m \in DeployMessengers |-> 0]]

\* SaveApplicationDeployment: a row is found by its start; it gets its end once.
SaveApplicationDeployment(d) ==
    IF d.start \notin DOMAIN saved THEN saved @@ (d.start :> NewRow(d))
    ELSE IF d.fin = 0 \/ saved[d.start].fin # 0 THEN saved
    ELSE [saved EXCEPT ![d.start].fin = d.fin, ![d.start].name = d.name]

\* The known row of the world is left as it was when its end is saved.
SaveNext ==
    LET d == look.found[look.i]
        known == {i \in DOMAIN look.app : look.app[i].start = d.start /\ look.app[i].name = d.name}
    IN  /\ look.pc = "save" /\ look.i <= Len(look.found)
        /\ saved' = IF \E i \in known : look.app[i].fin = d.fin THEN saved
                    ELSE SaveApplicationDeployment(d)
        /\ look' = [look EXCEPT !.i = @ + 1,
                                !.app = IF known = {} THEN Append(@, NewRow(d)) ELSE @]
        /\ UNCHANGED <<alive, heard, unsaved, blunders>>

\* The rest is not saved in this check; the check goes on.
SaveDeploymentFails ==
    /\ look.pc = "save" /\ look.i <= Len(look.found)
    /\ Blunder
    /\ look' = [look EXCEPT !.pc = "snapshot"]
    /\ unsaved' = unsaved \cup {look.found[j].start : j \in look.i..Len(look.found)}
    /\ UNCHANGED <<alive, saved, heard>>

AllSaved ==
    /\ look.pc = "save" /\ look.i > Len(look.found)
    /\ look' = [look EXCEPT !.pc = "snapshot"]
    /\ UNCHANGED <<alive, saved, heard, unsaved, blunders>>

-----------------------------------------------------------------------------
\* When the deployment after the i-th one began, or now.
NextOrNow(i) == IF i < Len(look.app) THEN look.app[i + 1].start ELSE look.to

\* snapshotDeploymentMetrics; the snapshot counts for this check when it could
\* not be saved.
SnapshotMetrics ==
    LET due == {i \in DOMAIN look.app : /\ ~look.app[i].snapshot /\ look.app[i].fin # 0
                                        /\ look.app[i].fin + SnapshotAfter <= NextOrNow(i)}
    IN  /\ look.pc = "snapshot"
        /\ look' = [look EXCEPT !.pc = "notify", !.i = 1,
                                !.app = [i \in DOMAIN look.app |->
                                            [look.app[i] EXCEPT !.snapshot = @ \/ i \in due]]]
        /\ \E lost \in SUBSET due :
              /\ saved' = [s \in DOMAIN saved |->
                             [saved[s] EXCEPT !.snapshot = @ \/ \E i \in due \ lost : look.app[i].start = s]]
              /\ IF lost = {} THEN UNCHANGED blunders ELSE Blunder
        /\ UNCHANGED <<alive, heard, unsaved>>

\* CalcApplicationDeploymentStatuses
StateOf(i) ==
    CASE look.app[i].snapshot                          -> Summary
      [] look.app[i].fin # 0                           -> Deployed
      [] i < Len(look.app)                             -> Cancelled
      [] look.to > look.app[i].start + StuckAfter      -> Stuck
      [] OTHER                                         -> InProgress

\* (mutant of Due: every check tells the state again)
DueAlways(m, i) == TRUE

\* Whether m is still to be told of the state of the i-th deployment.
Due(m, i) == look.app[i].told[m] < StateOf(i)

\* sendNotifications, for the i-th deployment: those due are told.  Some sends may
\* fail, be it after the messenger was told (Slack's reply follows its message, an
\* answer comes too late); what the others told is saved, unless that fails.
SendDeployment ==
    LET i == look.i
        s == look.app[i].start
        due == {m \in DeployMessengers : Due(m, i)}
    IN  /\ look.pc = "notify" /\ i <= Len(look.app)
        /\ look' = [look EXCEPT !.i = @ + 1]
        /\ \E told \in SUBSET due : \E ok \in SUBSET told, kept \in BOOLEAN :
              /\ ok = {} => kept
              /\ IF ok = due /\ kept THEN UNCHANGED blunders ELSE Blunder
              /\ heard' = [m \in DeployMessengers |->
                             IF m \in told THEN [heard[m] EXCEPT ![s] = Append(@, StateOf(i))] ELSE heard[m]]
              /\ saved' = IF kept /\ s \in DOMAIN saved
                          THEN [saved EXCEPT ![s].told = [m \in DeployMessengers |->
                                    IF m \in ok THEN StateOf(i) ELSE look.app[i].told[m]]]
                          ELSE saved
              /\ unsaved' = IF ok = told /\ kept THEN unsaved ELSE unsaved \cup {s}
        /\ UNCHANGED alive

DeploymentsChecked ==
    /\ look.pc = "notify" /\ look.i > Len(look.app)
    /\ look' = [NoLook EXCEPT !.to = look.to]
    /\ UNCHANGED <<alive, saved, heard, unsaved, blunders>>

\* A crash; what follows the last write is lost.
DeploymentsRestart ==
    /\ look.pc # "idle"
    /\ Blunder
    /\ look' = [NoLook EXCEPT !.to = look.to]
    /\ UNCHANGED <<alive, saved, heard, unsaved>>

DeploymentsNext ==
    \/ Runs \/ CheckDeployments \/ SaveNext \/ SaveDeploymentFails \/ AllSaved
    \/ SnapshotMetrics \/ SendDeployment \/ DeploymentsChecked \/ DeploymentsRestart

DeploymentsSpec == DeploymentsInit /\ [][DeploymentsNext]_deployVars

-----------------------------------------------------------------------------
DeploymentsTypeOK ==
    /\ alive \in Seq(SUBSET ReplicaSets)
    /\ DOMAIN saved \subseteq Starts
    /\ \A s \in DOMAIN saved : saved[s].start = s /\ saved[s].fin \in {0} \cup Starts

\* The first step of a world with one replica set alive, or its end.
FirstAlone(to) ==
    CHOOSE t \in WindowStart(to)..to :
        /\ t = to \/ Cardinality(alive[t]) = 1
        /\ \A u \in WindowStart(to)..(t - 1) : Cardinality(alive[u]) # 1

\* The sliding hour shows the rollouts of the whole history.  Whatever the world
\* begins with, a row is a rollout of that history, with its name, its start and,
\* if any, its end; and what began after the first step of the hour at which one
\* replica set was alive is saved when a check is over, with its end, unless a
\* write failed.
RowsAreRollouts ==
    LET rollouts == ToSet(CalcDeployments(1, Len(alive)))
        shown == ToSet(CalcDeployments(1, look.to))
        alone == FirstAlone(look.to)
    IN  /\ \A s \in DOMAIN saved : \E d \in rollouts :
              d.start = s /\ d.name = saved[s].name /\ saved[s].fin \in {0, d.fin}
        /\ look.pc \in {"snapshot", "notify"} =>
              \A d \in shown :
                 \/ d.start <= alone
                 \/ d.start \in DOMAIN saved /\ saved[d.start].fin = d.fin
                 \/ d.start \in unsaved

\* A messenger hears of the states of a deployment in their order, and of none
\* twice as long as what it was told is recorded.  When that could not be saved, or
\* the send failed after the messenger had heard it, it hears of the state of the
\* next check: the same, a later one, or an earlier one than the summary, if the
\* snapshot could not be saved either.  (Slack updates its message and posts another
\* reply.)
HeardInOrder ==
    \A m \in DeployMessengers, s \in Starts : \A i \in 1..(Len(heard[m][s]) - 1) :
        \/ heard[m][s][i] < heard[m][s][i + 1]
        \/ s \in unsaved /\ heard[m][s][i] \in {heard[m][s][i + 1], Summary}

\* "The deployment has been cancelled": who hears that hears it of a rollout that
\* did not end.  This does not hold: the README tells how it fails.
CancelledIsUnfinished ==
    \A m \in DeployMessengers, s \in Starts :
        Cancelled \in ToSet(heard[m][s]) =>
            \E d \in ToSet(CalcDeployments(1, Len(alive))) : d.start = s /\ d.fin = 0
=============================================================================
