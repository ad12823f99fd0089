----------------------------- MODULE Subscriptions -----------------------------
(***************************************************************************)
(* SubscriptionService under its two handlers, on SQLite.                  *)
(*                                                                         *)
(* A handler opens a UnitOfWork, reads the subscriber's row, and writes    *)
(* what follows from it.  The read is a statement of its own: the driver   *)
(* begins a transaction only at the first INSERT, UPDATE or DELETE, which  *)
(* takes the database's one write lock; the rest of the transaction, up to *)
(* COMMIT, is invisible to everybody else.  Between the read and the first *)
(* write any other handler may commit, also one of the same user: updates  *)
(* are handled concurrently.                                               *)
(*                                                                         *)
(* A row is updated and deleted by its primary key, and SQLite hands out   *)
(* max + 1, so the key of a deleted last row is used again.                *)
(***************************************************************************)
EXTENDS Integers, Sequences, FiniteSets, Functions

CONSTANTS
    Users,
    Profiles,    \* (username, full_name) as Telegram sends them
    Handlers,    \* handler invocations that may be in flight at once
    NULL,
    MaxEvents    \* bound: journal entries, those of handlers in flight included

ASSUME SubscriptionAssumption ==
    /\ MaxEvents \in Nat
    /\ Handlers \cap {"free", "sender"} = {}

VARIABLES
    rows,          \* committed `subscribers`
    journal,       \* committed `subscription_events`, per user, by id
    lock,          \* SQLite's write lock: "free", "sender" (a tick, a broadcast) or a handler
    draftRows,     \* both tables as the lock's owner sees them; outside a
    draftJournal,  \* handler's transaction, the committed ones
    req,           \* per handler: the update it works on, NULL when it is free
    manner         \* whether users wait for one answer before they press again; fixed at
                   \* the start

dbVars == <<rows, journal>>
draftVars == <<draftRows, draftJournal>>
vars == <<rows, journal, lock, draftRows, draftJournal, req, manner>>

Manner == {"patient", "hasty"}
Patient == manner = "patient"

Operation == {"subscribe", "unsubscribe"}
Event == {"subscribed", "unsubscribed"}
Row == [id : Nat, user : Users, profile : Profiles]
Request ==
    [pc : {"select", "flush", "record", "delete", "commit"}, op : Operation,
     user : Users, profile : Profiles, seen : Row \cup {NULL}]

ASSUME NullAssumption == NULL \notin Row /\ NULL \notin Request

RowOf(table, u) == {row \in table : row.user = u}
NextIds(table) == {i \in {1} \cup {row.id + 1 : row \in table} : \A row \in table : row.id < i}
EmptyJournal == [u \in Users |-> <<>>]

Init ==
    /\ rows = {} /\ draftRows = {}
    /\ journal = EmptyJournal /\ draftJournal = EmptyJournal
    /\ lock = "free"
    /\ req = [h \in Handlers |-> NULL]
    /\ manner \in Manner

At(h, pc) == req[h] # NULL /\ req[h].pc = pc
Goto(h, pc) == req' = [req EXCEPT ![h] = [@ EXCEPT !.pc = pc]]
Finish(h) == req' = [req EXCEPT ![h] = NULL]
TakeLock(h) == lock \in {"free", h} /\ lock' = h

InFlight == {h \in Handlers : req[h] # NULL}
EventsWritten == FoldFunction(LAMBDA q, n : Len(q) + n, 0, journal)

\* The dispatcher starts a handler for an update of user u.
Begin(h, o, u, p) ==
    /\ req[h] = NULL
    /\ EventsWritten + Cardinality(InFlight) < MaxEvents
    /\ Patient => \A g \in InFlight : req[g].user # u
    /\ req' = [req EXCEPT ![h] =
                  [pc |-> "select", op |-> o, user |-> u, profile |-> p, seen |-> NULL]]
    /\ UNCHANGED <<dbVars, lock, draftVars>>

\* SELECT ... WHERE user_id = u.  Without a row, subscribe will insert one; ...
SelectNothing(h) ==
    /\ At(h, "select")
    /\ RowOf(rows, req[h].user) = {}
    /\ IF req[h].op = "subscribe" THEN Goto(h, "flush") ELSE Finish(h)
    /\ UNCHANGED <<dbVars, lock, draftVars>>

\* ... with one, both go on from the row they have read.
SelectRow(h) ==
    /\ At(h, "select")
    /\ \E row \in RowOf(rows, req[h].user) :
           req' = [req EXCEPT ![h] =
                      [@ EXCEPT !.seen = row,
                                !.pc = IF req[h].op = "subscribe" THEN "flush" ELSE "record"]]
    /\ UNCHANGED <<dbVars, lock, draftVars>>

\* subscribe's first flush.  A new row is inserted, ...
FlushInsert(h) ==
    /\ At(h, "flush") /\ req[h].seen = NULL
    /\ RowOf(draftRows, req[h].user) = {}
    /\ TakeLock(h)
    /\ \E i \in NextIds(draftRows) :
           draftRows' = draftRows \cup
               {[id |-> i, user |-> req[h].user, profile |-> req[h].profile]}
    /\ Goto(h, "record")
    /\ UNCHANGED <<dbVars, draftJournal>>

\* ... an unchanged one is not written at all, ...
FlushNothing(h) ==
    /\ At(h, "flush") /\ req[h].seen # NULL
    /\ req[h].seen.profile = req[h].profile
    /\ Goto(h, "record")
    /\ UNCHANGED <<dbVars, lock, draftVars>>

\* ... and a changed one is written to whatever row has its key by now.
FlushUpdate(h) ==
    /\ At(h, "flush") /\ req[h].seen # NULL
    /\ req[h].seen.profile # req[h].profile
    /\ TakeLock(h)
    /\ \E row \in draftRows :
           /\ row.id = req[h].seen.id
           /\ draftRows' = (draftRows \ {row}) \cup {[row EXCEPT !.profile = req[h].profile]}
    /\ Goto(h, "record")
    /\ UNCHANGED <<dbVars, draftJournal>>

\* The handler's exception leaves the UnitOfWork through rollback.
Rollback(h) ==
    /\ Finish(h)
    /\ draftRows' = rows /\ draftJournal' = journal
    /\ UNCHANGED dbVars

\* IntegrityError: the user's row was inserted after the SELECT.
\* StaleDataError: no row has the key any more.
FlushFails(h) ==
    /\ At(h, "flush") /\ lock = "free"
    /\ IF req[h].seen = NULL
       THEN RowOf(rows, req[h].user) # {}
       ELSE /\ req[h].seen.profile # req[h].profile
            /\ \A row \in rows : row.id # req[h].seen.id
    /\ Rollback(h)
    /\ UNCHANGED lock

\* Mutated form of EventOf: the name of the operation is stored.
EventOfRaw(o) == o

EventOf(o) == IF o = "subscribe" THEN "subscribed" ELSE "unsubscribed"

\* Mutated forms of Record: the event is forgotten, ...
RecordNothing(h) ==
    /\ At(h, "record")
    /\ TakeLock(h)
    /\ Goto(h, IF req[h].op = "subscribe" THEN "commit" ELSE "delete")
    /\ UNCHANGED <<dbVars, draftVars>>

\* ... or committed on its own.
RecordCommitted(h) ==
    /\ At(h, "record")
    /\ TakeLock(h)
    /\ draftJournal' = [draftJournal EXCEPT ![req[h].user] = Append(@, EventOf(req[h].op))]
    /\ journal' = draftJournal'
    /\ Goto(h, IF req[h].op = "subscribe" THEN "commit" ELSE "delete")
    /\ UNCHANGED <<rows, draftRows>>

\* events.record: INSERT and flush.
Record(h) ==
    /\ At(h, "record")
    /\ TakeLock(h)
    /\ draftJournal' = [draftJournal EXCEPT ![req[h].user] = Append(@, EventOf(req[h].op))]
    /\ Goto(h, IF req[h].op = "subscribe" THEN "commit" ELSE "delete")
    /\ UNCHANGED <<dbVars, draftRows>>

\* Mutated forms of Delete: the row stays, as it did before the journal existed, ...
DeleteNothing(h) ==
    /\ At(h, "delete")
    /\ Goto(h, "commit")
    /\ UNCHANGED <<dbVars, lock, draftVars>>

\* ... or the rows with the same names go.
DeleteByProfile(h) ==
    /\ At(h, "delete")
    /\ draftRows' = {row \in draftRows : row.profile # req[h].seen.profile}
    /\ Goto(h, "commit")
    /\ UNCHANGED <<dbVars, lock, draftJournal>>

\* session.delete(sub), flushed by the commit: DELETE ... WHERE id = the key read.
Delete(h) ==
    /\ At(h, "delete")
    /\ draftRows' = {row \in draftRows : row.id # req[h].seen.id}
    /\ Goto(h, "commit")
    /\ UNCHANGED <<dbVars, lock, draftJournal>>

\* UnitOfWork.__aexit__ without an exception.
Commit(h) ==
    /\ At(h, "commit")
    /\ rows' = draftRows /\ journal' = draftJournal
    /\ lock' = "free"
    /\ Finish(h)
    /\ UNCHANGED draftVars

\* Mutated form of LockTimeout: the wait for the write lock has no limit.
LockTimeoutNever(h) == FALSE

\* "database is locked": the first write waited too long for another transaction.
LockTimeout(h) ==
    /\ At(h, "flush") \/ At(h, "record")
    /\ lock \notin {"free", h}
    /\ Finish(h)
    /\ UNCHANGED <<dbVars, lock, draftVars>>

\* A tick or a broadcast, whose own tables are not these, keeps the lock while it sends.
SenderTakesLock ==
    /\ lock = "free" /\ lock' = "sender"
    /\ UNCHANGED <<dbVars, draftVars, req>>

SenderReturnsLock ==
    /\ lock = "sender" /\ lock' = "free"
    /\ UNCHANGED <<dbVars, draftVars, req>>

\* The process dies; SQLite rolls the open transaction back.
Crash ==
    /\ InFlight # {}
    /\ req' = [h \in Handlers |-> NULL]
    /\ lock' = "free"
    /\ draftRows' = rows /\ draftJournal' = journal
    /\ UNCHANGED dbVars

Step(h) ==
    \/ SelectNothing(h)
    \/ SelectRow(h)
    \/ FlushInsert(h)
    \/ FlushNothing(h)
    \/ FlushUpdate(h)
    \/ FlushFails(h)
    \/ Record(h)
    \/ Delete(h)
    \/ Commit(h)
    \/ LockTimeout(h)

Next ==
    /\ UNCHANGED manner
    /\ \/ \E h \in Handlers, o \in Operation, u \in Users, p \in Profiles : Begin(h, o, u, p)
       \/ \E h \in Handlers : Step(h)
       \/ SenderTakesLock
       \/ SenderReturnsLock
       \/ Crash

Spec == Init /\ [][Next]_vars

\* The event loop resumes every handler.
FairSpec == Spec /\ \A h \in Handlers : WF_vars(Step(h) /\ UNCHANGED manner)

-------------------------------------------------------------------------------
(* Properties.                                                             *)

TypeOK ==
    /\ rows \subseteq Row /\ draftRows \subseteq Row
    /\ journal \in [Users -> Seq(Event)] /\ draftJournal \in [Users -> Seq(Event)]
    /\ lock \in {"free", "sender"} \cup Handlers
    /\ req \in [Handlers -> Request \cup {NULL}]
    /\ manner \in Manner

\* Each user's row follows from the last event in the journal: present after
\* "subscribed", absent after "unsubscribed" (the promise of SubscriptionEvent).  It is
\* claimed for users who wait; requests of one user that overlap break it.
LastEventTells ==
    \A u \in Users : RowOf(rows, u) # {} <=>
        journal[u] # <<>> /\ journal[u][Len(journal[u])] = "subscribed"
JournalTellsRows == Patient => LastEventTells

\* Every behaviour of users who wait is one of the ledger: a row and its event become
\* visible in the same step, in every interleaving of different users and around every
\* crash.  The ledger sees nothing of the others.
Ledger == INSTANCE SubscriptionLedger WITH
              subscribed <- IF Patient THEN {u \in Users : RowOf(rows, u) # {}} ELSE {},
              journal <- IF Patient THEN journal ELSE EmptyJournal
KeepsLedger == Ledger!LedgerSpec

\* A handler of a user who waits changes nobody else's row, although it deletes by a key
\* it read before its transaction began.
CommitsOwnRow ==
    \A h \in Handlers : Commit(h) =>
        \A u \in Users \ {req[h].user} : RowOf(rows', u) = RowOf(rows, u)
OwnRowOnly == [][Patient => CommitsOwnRow]_vars

\* A row is never without the event that explains it, however handlers of the same
\* user overlap and wherever one of them dies.
RowsAreJournaled ==
    \A row \in rows : \E i \in 1 .. Len(journal[row.user]) : journal[row.user][i] = "subscribed"

\* Every update is answered or fails; none is stuck behind a lock.
UpdatesEnd == \A h \in Handlers : req[h] # NULL ~> req[h] = NULL

-------------------------------------------------------------------------------
(* A claim of the repository that the code does not meet.                  *)

\* A user who leaves takes their own row away (service.py:231), whoever has pressed what
\* in the meantime.
OwnRowAlways == [][CommitsOwnRow]_vars
===============================================================================
