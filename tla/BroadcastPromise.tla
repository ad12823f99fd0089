--------------------------- MODULE BroadcastPromise ---------------------------
(***************************************************************************)
(* What a broadcast promises: while it is under way it reaches subscribers *)
(* only, and when it is reported, in one step, the report has one entry    *)
(* for everybody who is subscribed at that moment and nobody else, and     *)
(* says "delivered" of no one who did not receive the text.  It promises   *)
(* neither a single copy nor that "failed" means no copy.                  *)
(***************************************************************************)
EXTENDS Naturals

CONSTANTS Users, Broadcasts, NULL

VARIABLES
    subscribed,  \* the users who are subscribed
    copies,      \* per broadcast and user, how often the text has arrived
    report       \* per broadcast, NULL or a status for every recipient

Change(u) ==
    /\ subscribed' \in {subscribed \cup {u}, subscribed \ {u}}
    /\ UNCHANGED <<copies, report>>

Receive(b, u) ==
    /\ report[b] = NULL /\ u \in subscribed
    /\ copies' = [copies EXCEPT ![b][u] = @ + 1]
    /\ UNCHANGED <<subscribed, report>>

Publish(b) ==
    /\ report[b] = NULL
    /\ \E statuses \in [subscribed -> {"delivered", "failed"}] :
           /\ \A u \in subscribed : statuses[u] = "delivered" => copies[b][u] > 0
           /\ report' = [report EXCEPT ![b] = statuses]
    /\ UNCHANGED <<subscribed, copies>>

PromiseInit ==
    /\ subscribed \subseteq Users
    /\ copies = [b \in Broadcasts |-> [u \in Users |-> 0]]
    /\ report = [b \in Broadcasts |-> NULL]

PromiseNext ==
    \/ \E u \in Users : Change(u)
    \/ \E b \in Broadcasts, u \in Users : Receive(b, u)
    \/ \E b \in Broadcasts : Publish(b)

PromiseSpec == PromiseInit /\ [][PromiseNext]_<<subscribed, copies, report>>
===============================================================================
