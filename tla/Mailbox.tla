------------------------------ MODULE Mailbox ------------------------------
(***************************************************************************)
(* What the dispatch of updates to the watchers promises: of each project  *)
(* there is a newest state somebody was told of, and a newest state        *)
(* somebody dealt with.  Updates are merged, never counted: a delivery     *)
(* deals with everything told before it, and what was told is dealt with   *)
(* some day.                                                               *)
(***************************************************************************)
EXTENDS Naturals

CONSTANT Addressees

VARIABLES
    told,       \* [Addressees -> Nat] the newest version notified
    settled     \* [Addressees -> Nat] the newest version delivered

mailboxVars == <<told, settled>>

MailboxInit == told = [a \in Addressees |-> 0] /\ settled = [a \in Addressees |-> 0]

Notify(a) ==
    /\ told'[a] > told[a] /\ told' = [told EXCEPT ![a] = told'[a]]
    /\ UNCHANGED settled

\* Some are delivered, each with a version not older than the one it was told of.
Deliver(as) ==
    /\ \A a \in Addressees : IF a \in as THEN settled'[a] >= told[a] /\ settled'[a] >= settled[a]
                                         ELSE settled'[a] = settled[a]
    /\ UNCHANGED told

MailboxNext ==
    \/ \E a \in Addressees : Notify(a)
    \/ \E as \in SUBSET Addressees : Deliver(as)

\* What may happen to a mailbox.
MailboxSafety == MailboxInit /\ [][MailboxNext]_mailboxVars

\* What is told is delivered.
Delivery == \A a \in Addressees : (told[a] > settled[a]) ~> (settled[a] >= told[a])

MailboxSpec == MailboxSafety /\ Delivery
=============================================================================
