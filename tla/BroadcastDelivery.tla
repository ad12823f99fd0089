--------------------------- MODULE BroadcastDelivery ---------------------------
(***************************************************************************)
(* BroadcastService under the admin's broadcast handler.                   *)
(*                                                                         *)
(* The handler opens a UnitOfWork, inserts the broadcast, reads who is     *)
(* subscribed, inserts one recipient row after the other and sends the     *)
(* text to each before the next, and commits at the end.  The first INSERT *)
(* takes SQLite's write lock, which is kept through every send and every   *)
(* pause between two tries: nobody's subscription can change meanwhile,    *)
(* and nobody sees a recipient row before all have been sent.              *)
(*                                                                         *)
(* A send succeeds, is put off by flood control, is lost in the network    *)
(* (before or after Telegram has delivered it), or is refused.             *)
(***************************************************************************)
EXTENDS Integers, FiniteSets

CONSTANTS
    Users,
    Broadcasts,  \* the texts an admin sends to the handler, each once
    NULL,
    MaxRetries   \* max_retries of _send_with_retry, 3 in the code

ASSUME BroadcastAssumption ==
    /\ MaxRetries \in Nat \ {0}
    /\ Broadcasts \cap {"free", "other"} = {}

ASSUME UsersAssumption == IsFiniteSet(Users)

VARIABLES
    subscribed,  \* committed `subscribers`, by user
    lock,        \* SQLite's write lock: "free", "other" (any other writer) or a broadcast
    pc,          \* per broadcast, where its handler is
    todo,        \* the subscribers its loop has still to visit
    user,        \* the one it is sending to
    tries,       \* and how often that has failed
    rows,        \* its recipient rows, by user: a status or NULL, uncommitted until
    totals,      \* the handler ends, as is what it has counted
    report,      \* what has been committed, or NULL
    copies       \* how often the text has arrived, by user

jobVars == <<pc, todo, user, tries, rows, totals>>
vars == <<subscribed, lock, jobVars, report, copies>>

\* "unsubscribed" is missing: get_active returns no inactive row, nor is there any.
BroadcastStatus == {"pending", "delivered", "failed"}
Rows == [Users -> BroadcastStatus \cup {NULL}]
Totals == [total : Nat, delivered : Nat, failed : Nat]
Report == [rows : Rows, totals : Totals]

ASSUME NullAssumption == NULL \notin Users /\ NULL \notin BroadcastStatus /\ NULL \notin Report

NoRows == [u \in Users |-> NULL]
NoTotals == [total |-> 0, delivered |-> 0, failed |-> 0]

Init ==
    /\ subscribed \in SUBSET Users
    /\ lock = "free"
    /\ pc = [b \in Broadcasts |-> "new"]
    /\ todo = [b \in Broadcasts |-> {}]
    /\ user = [b \in Broadcasts |-> NULL]
    /\ tries = [b \in Broadcasts |-> 0]
    /\ rows = [b \in Broadcasts |-> NoRows]
    /\ totals = [b \in Broadcasts |-> NoTotals]
    /\ report = [b \in Broadcasts |-> NULL]
    /\ copies = [b \in Broadcasts |-> [u \in Users |-> 0]]

Goto(b, from, to) == pc[b] = from /\ pc' = [pc EXCEPT ![b] = to]
TakeLock(b) == lock \in {"free", b} /\ lock' = b

\* The admin's text arrives; a UnitOfWork is opened.
BroadcastText(b) ==
    /\ Goto(b, "new", "create")
    /\ UNCHANGED <<subscribed, lock, todo, user, tries, rows, totals, report, copies>>

\* Mutated form of CreateBroadcast: the broadcast is not flushed.
CreateBroadcastUnflushed(b) ==
    /\ Goto(b, "create", "audience")
    /\ UNCHANGED <<subscribed, lock, todo, user, tries, rows, totals, report, copies>>

\* create_broadcast: INSERT and flush.
CreateBroadcast(b) ==
    /\ Goto(b, "create", "audience")
    /\ TakeLock(b)
    /\ UNCHANGED <<subscribed, todo, user, tries, rows, totals, report, copies>>

\* Mutated form of LockTimeout: the wait for the write lock has no limit.
LockTimeoutNever(b) == FALSE

\* "database is locked": another writer kept the lock for too long.
LockTimeout(b) ==
    /\ Goto(b, "create", "raised")
    /\ lock \notin {"free", b}
    /\ UNCHANGED <<subscribed, lock, todo, user, tries, rows, totals, report, copies>>

\* get_active; the segment does not restrict it.
GetActive(b) ==
    /\ Goto(b, "audience", "next")
    /\ todo' = [todo EXCEPT ![b] = subscribed]
    /\ UNCHANGED <<subscribed, lock, user, tries, rows, totals, report, copies>>

\* The next subscriber: a pending row is inserted and flushed.
NextRecipient(b) ==
    /\ Goto(b, "next", "send")
    /\ TakeLock(b)
    /\ \E u \in todo[b] :
           /\ todo' = [todo EXCEPT ![b] = @ \ {u}]
           /\ user' = [user EXCEPT ![b] = u]
           /\ rows' = [rows EXCEPT ![b][u] = "pending"]
    /\ tries' = [tries EXCEPT ![b] = 0]
    /\ totals' = [totals EXCEPT ![b].total = @ + 1]
    /\ UNCHANGED <<subscribed, report, copies>>

\* Mutated form of Sends: one try too many.
SendsOnceMore(b) == pc[b] = "send" /\ tries[b] <= MaxRetries

Sends(b) == pc[b] = "send" /\ tries[b] < MaxRetries

Arrives(b) == copies' = [copies EXCEPT ![b][user[b]] = @ + 1]

MarkRecipient(b, status) ==
    /\ Goto(b, "send", "next")
    /\ rows' = [rows EXCEPT ![b][user[b]] = status]
    /\ totals' = [totals EXCEPT ![b][status] = @ + 1]

SendSucceeds(b) ==
    /\ Sends(b)
    /\ Arrives(b)
    /\ MarkRecipient(b, "delivered")
    /\ UNCHANGED <<subscribed, lock, todo, user, tries, report>>

\* TelegramRetryAfter: sleep and try again, also after the last try.
FloodControl(b) ==
    /\ Sends(b)
    /\ tries' = [tries EXCEPT ![b] = @ + 1]
    /\ UNCHANGED <<subscribed, lock, pc, todo, user, rows, totals, report, copies>>

\* Mutated forms of NetworkError: a failed request counts as a delivery, ...
NetworkErrorDelivered(b) ==
    /\ Sends(b)
    /\ MarkRecipient(b, "delivered")
    /\ UNCHANGED <<subscribed, lock, todo, user, tries, report, copies>>

\* ... or as no try.
NetworkErrorUncounted(b) ==
    /\ Sends(b)
    /\ Arrives(b)
    /\ UNCHANGED <<subscribed, lock, jobVars, report>>

\* TelegramNetworkError: the same, but the text may have arrived.
NetworkError(b) ==
    /\ Sends(b)
    /\ tries' = [tries EXCEPT ![b] = @ + 1]
    /\ Arrives(b) \/ UNCHANGED copies
    /\ UNCHANGED <<subscribed, lock, pc, todo, user, rows, totals, report>>

\* Mutated forms of SendFails: the row stays as it was, ...
SendFailsUnmarked(b) ==
    /\ Goto(b, "send", "next")
    /\ totals' = [totals EXCEPT ![b].failed = @ + 1]
    /\ UNCHANGED <<subscribed, lock, todo, user, tries, rows, report, copies>>

\* ... or the failure is not counted.
SendFailsUncounted(b) ==
    /\ Goto(b, "send", "next")
    /\ rows' = [rows EXCEPT ![b][user[b]] = "failed"]
    /\ UNCHANGED <<subscribed, lock, todo, user, tries, totals, report, copies>>

\* Any other exception, also the RuntimeError after the last try.
SendFails(b) ==
    /\ MarkRecipient(b, "failed")
    /\ UNCHANGED <<subscribed, lock, todo, user, tries, report, copies>>

\* All have been sent: the totals are stored and the UnitOfWork commits.
SendBroadcastEnds(b) ==
    /\ Goto(b, "next", "sent") /\ todo[b] = {}
    /\ report' = [report EXCEPT ![b] = [rows |-> rows[b], totals |-> totals[b]]]
    /\ lock' = "free"
    /\ UNCHANGED <<subscribed, todo, user, tries, rows, totals, copies>>

\* Any other transaction: a tick's, a reminder's or a subscriber's.
OtherWriterBegins ==
    /\ lock = "free" /\ lock' = "other"
    /\ UNCHANGED <<subscribed, jobVars, report, copies>>

OtherWriterEnds ==
    /\ lock = "other" /\ lock' = "free"
    /\ \/ UNCHANGED subscribed
       \/ \E u \in Users : subscribed' \in {subscribed \cup {u}, subscribed \ {u}}
    /\ UNCHANGED <<jobVars, report, copies>>

InFlight == {b \in Broadcasts : pc[b] \notin {"new", "sent", "raised"}}

\* The process dies: what has been sent has been sent, and nothing is written.
Crash ==
    /\ InFlight # {}
    /\ pc' = [b \in Broadcasts |-> IF b \in InFlight THEN "raised" ELSE pc[b]]
    /\ lock' = "free"
    /\ UNCHANGED <<subscribed, todo, user, tries, rows, totals, report, copies>>

Step(b) ==
    \/ CreateBroadcast(b)
    \/ LockTimeout(b)
    \/ GetActive(b)
    \/ NextRecipient(b)
    \/ SendSucceeds(b)
    \/ FloodControl(b)
    \/ NetworkError(b)
    \/ SendFails(b)
    \/ SendBroadcastEnds(b)

Next ==
    \/ \E b \in Broadcasts : BroadcastText(b) \/ Step(b)
    \/ OtherWriterBegins
    \/ OtherWriterEnds
    \/ Crash

Spec == Init /\ [][Next]_vars

\* The event loop resumes the handler: a send ends, a pause ends, and so does the wait
\* for the lock, in one way or the other.
FairSpec == Spec /\ \A b \in Broadcasts : WF_vars(Step(b))

-------------------------------------------------------------------------------
(* Properties.                                                             *)

TypeOK ==
    /\ subscribed \subseteq Users
    /\ lock \in {"free", "other"} \cup Broadcasts
    /\ pc \in [Broadcasts -> {"new", "create", "audience", "next", "send", "sent", "raised"}]
    /\ todo \in [Broadcasts -> SUBSET Users]
    /\ user \in [Broadcasts -> Users \cup {NULL}]
    /\ tries \in [Broadcasts -> 0 .. MaxRetries]
    /\ rows \in [Broadcasts -> Rows]
    /\ totals \in [Broadcasts -> Totals]
    /\ report \in [Broadcasts -> Report \cup {NULL}]
    /\ copies \in [Broadcasts -> [Users -> Nat]]

\* A user whose unsubscription is committed receives nothing more, not even from a
\* broadcast that read its audience before (the lock, not the loop's check, sees to it).
ArrivesAtSubscribers ==
    \A b \in Broadcasts, u \in Users :
        copies'[b][u] # copies[b][u] => u \in subscribed /\ u \in subscribed'
OnlySubscribersReceive == [][ArrivesAtSubscribers]_vars

\* The totals an admin sees are the rows counted, in every mixture of outcomes.
TotalsCountRows ==
    \A b \in Broadcasts : report[b] # NULL =>
        LET Having(statuses) == Cardinality({u \in Users : report[b].rows[u] \in statuses})
        IN  /\ report[b].totals.total = Having(BroadcastStatus)
            /\ report[b].totals.delivered = Having({"delivered"})
            /\ report[b].totals.failed = Having({"failed"})

\* No committed row is pending, so a scheduler tick, which sends "Напоминание" to every
\* pending recipient it reads, finds none, before and after every crash.
NothingPending ==
    \A b \in Broadcasts : report[b] # NULL =>
        \A u \in Users : report[b].rows[u] # "pending"

\* However tries fail, a text reaches a recipient at most MaxRetries times.
CopiesBounded == \A b \in Broadcasts, u \in Users : copies[b][u] <= MaxRetries

\* Broadcasts keep BroadcastPromise: in one step a report appears that covers exactly the
\* current subscribers, and whoever it calls delivered has the text.
ReportedStatuses(b) ==
    IF report[b] = NULL THEN NULL
    ELSE [u \in {v \in Users : report[b].rows[v] # NULL} |-> report[b].rows[u]]
Promise == INSTANCE BroadcastPromise WITH
               report <- [b \in Broadcasts |-> ReportedStatuses(b)]
KeepsPromise == Promise!PromiseSpec

\* A broadcast ends whatever the network does: the admin gets an answer or an error.
BroadcastsEnd == \A b \in Broadcasts : b \in InFlight ~> b \notin InFlight
===============================================================================
