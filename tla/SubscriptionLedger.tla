-------------------------- MODULE SubscriptionLedger --------------------------
(***************************************************************************)
(* What the subscription journal promises (models.py, SubscriptionEvent):  *)
(* a user is subscribed or not, and every change of that is written down,  *)
(* once, in the step that makes it.  Subscribing again is written down     *)
(* too; nobody is unsubscribed twice in a row.                             *)
(***************************************************************************)
EXTENDS Sequences

CONSTANT Users

VARIABLES
    subscribed,  \* the users who are subscribed
    journal      \* per user, the events in the order in which they happened

Subscribe(u) ==
    /\ subscribed' = subscribed \cup {u}
    /\ journal' = [journal EXCEPT ![u] = Append(@, "subscribed")]

Unsubscribe(u) ==
    /\ u \in subscribed
    /\ subscribed' = subscribed \ {u}
    /\ journal' = [journal EXCEPT ![u] = Append(@, "unsubscribed")]

LedgerInit ==
    /\ subscribed = {}
    /\ journal = [u \in Users |-> <<>>]

LedgerNext == \E u \in Users : Subscribe(u) \/ Unsubscribe(u)

LedgerSpec == LedgerInit /\ [][LedgerNext]_<<subscribed, journal>>
===============================================================================
