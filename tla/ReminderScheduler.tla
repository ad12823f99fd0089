--------------------------- MODULE ReminderScheduler ---------------------------
(***************************************************************************)
(* scheduler_tick against the handlers that share its database file.       *)
(*                                                                         *)
(* One tick runs at a time (APScheduler, max_instances=1).  It captures    *)
(* `now` once, reads the due rows, then sends, one awaited call per user;  *)
(* handlers, the clock, another writer and a crash come in between.  The   *)
(* tick's UnitOfWork wraps a session it does not own, so it never commits: *)
(* the UPDATEs of mark_done live in `marked` until the session closes, and *)
(* with the first of them the tick holds SQLite's only write lock.         *)
(*                                                                         *)
(* The third loop of the tick belongs to module BroadcastDelivery, where   *)
(* the rows it reads are written.  Rows come back in no promised order.    *)
(***************************************************************************)
EXTENDS ReminderTable

CONSTANTS
    MaxClock,    \* bound: the last minute of a behaviour
    MaxCrashes   \* bound: how often the process dies

ASSUME BoundsAssumption == MaxClock \in Nat /\ MaxCrashes \in Nat

VARIABLES
    table,       \* committed rows of `reminders`
    recipients,  \* committed rows of `reminder_recipients`, per reminder
    clock,       \* datetime.now(UTC), in minutes
    up,          \* the process runs
    timer,       \* APScheduler has a next wakeup before it
    crashes,
    lock,        \* who is inside a write transaction: "free", "tick", "other"
    pc,          \* where scheduler_tick stands
    now,         \* its local `now`
    due,         \* reminders its current loop has still to visit
    recurring,   \* `due_recurring`, kept while the first loop runs
    audience,    \* the recipients loaded with each reminder (selectinload)
    current,     \* the loop variable `reminder`, NULL between two iterations
    todo,        \* the users of the inner loop still to be sent to
    marked,      \* uncommitted UPDATEs of mark_done
    sentMinute,  \* _RECURRING_SENT_MINUTE
    attempts,    \* history: send_callback calls of this process
    completed,   \* history: reminders marked in a tick that came to its end
    deleteAsked  \* history: reminders whose author confirmed the deletion

tickVars == <<pc, now, due, recurring, audience, current, todo, marked>>
dbVars == <<table, recipients>>
historyVars == <<attempts, completed, deleteAsked>>
vars == <<table, recipients, clock, up, timer, crashes, lock, pc, now, due, recurring, audience,
          current, todo, marked, sentMinute, attempts, completed, deleteAsked>>

Attempt == [reminder : Reminders, user : Users, minute : Minute]

NobodyLoaded == [r \in Reminders |-> {}]
NothingSent == [r \in Reminders |-> NULL]

Init ==
    /\ table = [r \in Reminders |-> NULL]
    /\ recipients = NobodyLoaded
    /\ clock = 0
    /\ up = TRUE /\ timer = TRUE
    /\ crashes = 0
    /\ lock = "free"
    /\ pc = "idle"
    /\ now = 0
    /\ due = {} /\ recurring = {}
    /\ audience = NobodyLoaded
    /\ current = NULL
    /\ todo = {}
    /\ marked = {}
    /\ sentMinute = NothingSent
    /\ attempts = {} /\ completed = {} /\ deleteAsked = {}

-------------------------------------------------------------------------------
(* The handlers.  Each runs in a UnitOfWork of its own that commits on the *)
(* way out; the write lock makes INSERT and COMMIT one step.               *)

\* time_entered -> create_reminder.  While another transaction holds the write
\* lock for longer than SQLite waits, the INSERT fails and nothing changes.
CreateReminder(r, form) ==
    /\ up /\ lock = "free"
    /\ table[r] = NULL
    /\ table' = [table EXCEPT ![r] = NewRow(form)]
    /\ UNCHANGED <<recipients, clock, up, timer, crashes, lock, sentMinute>>
    /\ UNCHANGED tickVars /\ UNCHANGED historyVars

\* add_recipient; uq_reminder_recipient refuses a second row for the same pair.
AddRecipient(r, u) ==
    /\ up /\ lock = "free"
    /\ table[r] # NULL
    /\ u \notin recipients[r]
    /\ recipients' = [recipients EXCEPT ![r] = @ \cup {u}]
    /\ UNCHANGED <<table, clock, up, timer, crashes, lock, sentMinute>>
    /\ UNCHANGED tickVars /\ UNCHANGED historyVars

\* delete_reminder_confirm -> cancel_reminder(r, u).  A row that exists is asked
\* for `user_id`, an attribute Reminder does not have: the AttributeError leaves
\* the UnitOfWork through rollback, whoever u is.
CancelReminder(r, u) ==
    /\ up
    /\ table[r] # NULL
    /\ deleteAsked' = IF u = table[r].creator THEN deleteAsked \cup {r} ELSE deleteAsked
    /\ UNCHANGED <<clock, up, timer, crashes, lock, sentMinute, attempts, completed>>
    /\ UNCHANGED dbVars /\ UNCHANGED tickVars

\* A broadcast, which keeps its write transaction open while it sends.
OtherWriterBegins ==
    /\ up /\ lock = "free"
    /\ lock' = "other"
    /\ UNCHANGED <<clock, up, timer, crashes, sentMinute>>
    /\ UNCHANGED dbVars /\ UNCHANGED tickVars /\ UNCHANGED historyVars

OtherWriterEnds ==
    /\ lock = "other"
    /\ lock' = "free"
    /\ UNCHANGED <<clock, up, timer, crashes, sentMinute>>
    /\ UNCHANGED dbVars /\ UNCHANGED tickVars /\ UNCHANGED historyVars

-------------------------------------------------------------------------------
(* scheduler_tick, cut at its awaits.                                      *)

\* APScheduler's wakeup.  It submits the job, moves the job's next run time on with an
\* UPDATE of the same database file, and only then sets its timer again.  The UPDATE is
\* made synchronously, so whoever holds the write lock cannot give it back meanwhile:
\* "database is locked" leaves wakeup, and the timer is not set any more.
Rearmed == timer' = (lock = "free")

\* A wakeup that finds no tick running starts one, ...
StartTick ==
    /\ up /\ timer /\ pc = "idle"
    /\ pc' = "readOnce"
    /\ now' = clock
    /\ Rearmed
    /\ UNCHANGED <<clock, up, crashes, lock, due, recurring, audience, current, todo,
                   marked, sentMinute>>
    /\ UNCHANGED dbVars /\ UNCHANGED historyVars

\* ... and one that finds the last tick still running does not (max_instances=1), but
\* writes the run time all the same.
SkipTick ==
    /\ up /\ timer /\ pc # "idle"
    /\ Rearmed
    /\ UNCHANGED <<clock, up, crashes, lock, sentMinute>>
    /\ UNCHANGED dbVars /\ UNCHANGED tickVars /\ UNCHANGED historyVars

Loaded(read) ==
    [r \in Reminders |-> IF r \in read THEN Audience(table[r], recipients[r]) ELSE audience[r]]

ReadOnce ==
    /\ pc = "readOnce"
    /\ LET read == {r \in Reminders : DueOnce(table[r], now)} IN
           /\ due' = read
           /\ audience' = Loaded(read)
    /\ pc' = "readRecurring"
    /\ UNCHANGED <<clock, up, timer, crashes, lock, now, recurring, current, todo, marked, sentMinute>>
    /\ UNCHANGED dbVars /\ UNCHANGED historyVars

ReadRecurring ==
    /\ pc = "readRecurring"
    /\ LET read == {r \in Reminders : OnWeekday(table[r], now)} IN
           /\ recurring' = read
           /\ audience' = Loaded(read)
    /\ pc' = "once"
    /\ UNCHANGED <<clock, up, timer, crashes, lock, now, due, current, todo, marked, sentMinute>>
    /\ UNCHANGED dbVars /\ UNCHANGED historyVars

\* Mutated form of VisitOnce: the creator is not appended to the recipients.
VisitOnceWithoutCreator(r) ==
    /\ pc = "once" /\ current = NULL
    /\ r \in due
    /\ due' = due \ {r}
    /\ current' = r
    /\ todo' = recipients[r]
    /\ UNCHANGED <<clock, up, timer, crashes, lock, pc, now, recurring, audience, marked, sentMinute>>
    /\ UNCHANGED dbVars /\ UNCHANGED historyVars

\* for reminder in due_once
VisitOnce(r) ==
    /\ pc = "once" /\ current = NULL
    /\ r \in due
    /\ due' = due \ {r}
    /\ current' = r
    /\ todo' = audience[r]
    /\ UNCHANGED <<clock, up, timer, crashes, lock, pc, now, recurring, audience, marked, sentMinute>>
    /\ UNCHANGED dbVars /\ UNCHANGED historyVars

AttemptAt(r, u, m) == [reminder |-> r, user |-> u, minute |-> m]

\* One send_callback call, of either loop.  Whether it returns or raises, the loop
\* goes on to the next user in the same state: the exception is only counted.
SendTo(u) ==
    /\ current # NULL
    /\ u \in todo
    /\ todo' = todo \ {u}
    /\ attempts' = attempts \cup {AttemptAt(current, u, now)}
    /\ UNCHANGED <<clock, up, timer, crashes, lock, pc, now, due, recurring, audience, current,
                   marked, sentMinute, completed, deleteAsked>>
    /\ UNCHANGED dbVars

\* Mutated form of MarkDone: the first failing send leaves the inner loop.
MarkDoneEarly ==
    /\ pc = "once" /\ current # NULL
    /\ lock \in {"free", "tick"}
    /\ lock' = "tick"
    /\ marked' = marked \cup {current}
    /\ current' = NULL
    /\ todo' = {}
    /\ UNCHANGED <<clock, up, timer, crashes, pc, now, due, recurring, audience, sentMinute>>
    /\ UNCHANGED dbVars /\ UNCHANGED historyVars

\* mark_done: the UPDATE takes, or already has, the write lock.
MarkDone ==
    /\ pc = "once" /\ current # NULL /\ todo = {}
    /\ lock \in {"free", "tick"}
    /\ lock' = "tick"
    /\ marked' = marked \cup {current}
    /\ current' = NULL
    /\ UNCHANGED <<clock, up, timer, crashes, pc, now, due, recurring, audience, todo, sentMinute>>
    /\ UNCHANGED dbVars /\ UNCHANGED historyVars

\* The session closes without a commit: SQLite rolls the UPDATEs back.
CloseSession ==
    /\ pc' = "idle"
    /\ due' = {} /\ recurring' = {}
    /\ audience' = NobodyLoaded
    /\ current' = NULL
    /\ todo' = {}
    /\ marked' = {}

\* The other writer kept the lock for longer than SQLite waits: "database is
\* locked" reaches the outer except and the rest of the tick is dropped.
MarkDoneLocked ==
    /\ pc = "once" /\ current # NULL /\ todo = {}
    /\ lock = "other"
    /\ CloseSession
    /\ UNCHANGED <<clock, up, timer, crashes, lock, now, sentMinute>>
    /\ UNCHANGED dbVars /\ UNCHANGED historyVars

OnceLoopEnds ==
    /\ pc = "once" /\ current = NULL /\ due = {}
    /\ pc' = "recurring"
    /\ due' = recurring
    /\ recurring' = {}
    /\ UNCHANGED <<clock, up, timer, crashes, lock, now, audience, current, todo, marked, sentMinute>>
    /\ UNCHANGED dbVars /\ UNCHANGED historyVars

\* for reminder in due_recurring: not its minute, or already sent in this one.
SkipRecurring(r) ==
    /\ pc = "recurring" /\ current = NULL
    /\ r \in due
    /\ ~AtItsMinute(table[r], now) \/ sentMinute[r] = now
    /\ due' = due \ {r}
    /\ UNCHANGED <<clock, up, timer, crashes, lock, pc, now, recurring, audience, current, todo,
                   marked, sentMinute>>
    /\ UNCHANGED dbVars /\ UNCHANGED historyVars

\* Mutated forms of VisitRecurring: the minute guard is not consulted ...
VisitRecurringUnguarded(r) ==
    /\ pc = "recurring" /\ current = NULL
    /\ r \in due
    /\ AtItsMinute(table[r], now)
    /\ due' = due \ {r}
    /\ current' = r
    /\ todo' = audience[r]
    /\ UNCHANGED <<clock, up, timer, crashes, lock, pc, now, recurring, audience, marked, sentMinute>>
    /\ UNCHANGED dbVars /\ UNCHANGED historyVars

\* ... and the weekday alone makes the reminder due.
VisitRecurringAllDay(r) ==
    /\ pc = "recurring" /\ current = NULL
    /\ r \in due
    /\ sentMinute[r] # now
    /\ sentMinute' = [sentMinute EXCEPT ![r] = now]
    /\ due' = due \ {r}
    /\ current' = r
    /\ todo' = audience[r]
    /\ UNCHANGED <<clock, up, timer, crashes, lock, pc, now, recurring, audience, marked>>
    /\ UNCHANGED dbVars /\ UNCHANGED historyVars

\* ... or its minute: the guard is set before the first send.
VisitRecurring(r) ==
    /\ pc = "recurring" /\ current = NULL
    /\ r \in due
    /\ AtItsMinute(table[r], now)
    /\ sentMinute[r] # now
    /\ sentMinute' = [sentMinute EXCEPT ![r] = now]
    /\ due' = due \ {r}
    /\ current' = r
    /\ todo' = audience[r]
    /\ UNCHANGED <<clock, up, timer, crashes, lock, pc, now, recurring, audience, marked>>
    /\ UNCHANGED dbVars /\ UNCHANGED historyVars

RecurringSent ==
    /\ pc = "recurring" /\ current # NULL /\ todo = {}
    /\ current' = NULL
    /\ UNCHANGED <<clock, up, timer, crashes, lock, pc, now, due, recurring, audience, todo,
                   marked, sentMinute>>
    /\ UNCHANGED dbVars /\ UNCHANGED historyVars

\* Mutated form of EndTick: the session is dropped without being closed.
EndTickUnclosed ==
    /\ pc = "recurring" /\ current = NULL /\ due = {}
    /\ CloseSession
    /\ completed' = completed \cup marked
    /\ UNCHANGED <<clock, up, timer, crashes, lock, now, sentMinute, attempts, deleteAsked>>
    /\ UNCHANGED dbVars

EndTick ==
    /\ pc = "recurring" /\ current = NULL /\ due = {}
    /\ CloseSession
    /\ lock' = IF lock = "tick" THEN "free" ELSE lock
    /\ completed' = completed \cup marked
    /\ UNCHANGED <<clock, up, timer, crashes, now, sentMinute, attempts, deleteAsked>>
    /\ UNCHANGED dbVars

-------------------------------------------------------------------------------
(* The environment.                                                        *)

MinutePasses ==
    /\ clock < MaxClock
    /\ clock' = clock + 1
    /\ UNCHANGED <<up, timer, crashes, lock, sentMinute>>
    /\ UNCHANGED dbVars /\ UNCHANGED tickVars /\ UNCHANGED historyVars

\* The process dies: its memory and every open transaction are gone.
Crash ==
    /\ up /\ crashes < MaxCrashes
    /\ up' = FALSE /\ timer' = FALSE
    /\ crashes' = crashes + 1
    /\ CloseSession
    /\ lock' = "free"
    /\ sentMinute' = NothingSent
    /\ attempts' = {}
    /\ UNCHANGED <<clock, now, completed, deleteAsked>>
    /\ UNCHANGED dbVars

Restart ==
    /\ ~up
    /\ up' = TRUE /\ timer' = TRUE
    /\ UNCHANGED <<clock, crashes, lock, sentMinute>>
    /\ UNCHANGED dbVars /\ UNCHANGED tickVars /\ UNCHANGED historyVars

-------------------------------------------------------------------------------
TickStep ==
    \/ ReadOnce
    \/ ReadRecurring
    \/ \E r \in Reminders : VisitOnce(r)
    \/ \E u \in Users : SendTo(u)
    \/ MarkDone
    \/ MarkDoneLocked
    \/ OnceLoopEnds
    \/ \E r \in Reminders : SkipRecurring(r)
    \/ \E r \in Reminders : VisitRecurring(r)
    \/ RecurringSent
    \/ EndTick

HandlerStep ==
    \/ \E r \in Reminders, form \in Forms : CreateReminder(r, form)
    \/ \E r \in Reminders, u \in Users : AddRecipient(r, u)
    \/ \E r \in Reminders, u \in Users : CancelReminder(r, u)
    \/ OtherWriterBegins
    \/ OtherWriterEnds

Next ==
    \/ StartTick
    \/ SkipTick
    \/ TickStep
    \/ HandlerStep
    \/ MinutePasses
    \/ Crash
    \/ Restart

Spec == Init /\ [][Next]_vars

\* APScheduler starts a tick every interval for as long as its timer is set, the event
\* loop resumes every await of it, the container restarts a dead process, time
\* passes, and a broadcast is a finite loop.
Fairness ==
    /\ WF_vars(StartTick)
    /\ WF_vars(TickStep)
    /\ WF_vars(Restart)
    /\ WF_vars(MinutePasses)
    /\ WF_vars(OtherWriterEnds)

FairSpec == Spec /\ Fairness

-------------------------------------------------------------------------------
(* Properties.                                                             *)

TypeOK ==
    /\ table \in [Reminders -> Row \cup {NULL}]
    /\ recipients \in [Reminders -> SUBSET Users]
    /\ clock \in Minute
    /\ up \in BOOLEAN /\ timer \in BOOLEAN
    /\ crashes \in Nat
    /\ lock \in {"free", "tick", "other"}
    /\ pc \in {"idle", "readOnce", "readRecurring", "once", "recurring"}
    /\ now \in Minute
    /\ due \subseteq Reminders /\ recurring \subseteq Reminders
    /\ audience \in [Reminders -> SUBSET Users]
    /\ current \in Reminders \cup {NULL}
    /\ todo \subseteq Users
    /\ marked \subseteq Reminders
    /\ sentMinute \in [Reminders -> Minute \cup {NULL}]
    /\ attempts \subseteq Attempt
    /\ completed \subseteq Reminders
    /\ deleteAsked \subseteq Reminders

\* A process never sends a recurring reminder twice to the same user for the same
\* calendar minute, although several ticks run in it: what _RECURRING_SENT_MINUTE
\* is there for.
RecurringOncePerMinute ==
    pc = "recurring" => \A u \in todo : AttemptAt(current, u, now) \notin attempts

\* A tick that comes to its end has kept its promise to everybody it loaded: every
\* one-off was attempted for each of its recipients, whatever the other sends did,
\* and marked; every recurring reminder of this minute was attempted for its
\* creator, in this tick or in an earlier one of the minute.
TickLeavesNobodyOut ==
    pc = "recurring" /\ current = NULL /\ due = {} =>
        \A r \in Reminders : audience[r] # {} =>
            IF table[r].type = "once"
            THEN r \in marked /\ \A u \in audience[r] : AttemptAt(r, u, now) \in attempts
            ELSE AtItsMinute(table[r], now) =>
                     AttemptAt(r, table[r].creator, now) \in attempts

\* The tick owns SQLite's write lock exactly while it has UPDATEs it has not rolled
\* back: a lock that outlived its tick would block every handler from then on.
WriteLockBelongsToMarks == lock = "tick" <=> marked # {}

\* A one-off that is due is in the end attempted for everybody in its audience,
\* through crashes, failed sends and ticks cut short, provided that other writers
\* leave the database alone from some time on and that APScheduler's timer survives.
\* That neither is a matter of course is TicksGoOn.
OneOffReachesEveryone ==
    <>[](lock # "other") /\ []<>timer =>
        \A r \in Reminders, u \in Users :
            (DueOnce(table[r], clock) /\ u \in Audience(table[r], recipients[r]))
                ~> (\E m \in 0 .. MaxClock : AttemptAt(r, u, m) \in attempts)

\* The write lock a tick takes before its remaining sends is given back.
TickReturnsWriteLock == lock = "tick" ~> lock = "free"

\* The tick, for all its steps, does to its users only what ReminderPromise allows.
Promise == INSTANCE ReminderPromise
KeepsPromise == Promise!PromiseSpec

-------------------------------------------------------------------------------
(* Claims of the repository that the code does not meet.                   *)

\* "Scheduler logs tick failures and continues" (docs/ARCHITECTURE.md:37): whatever a
\* tick or a broadcast runs into, the next tick comes.  A wakeup during either's write
\* transaction is the last one of its process.
TicksGoOn == []<>(pc = "readOnce")

\* "One-off" (README.md:34): a reminder marked done by a tick that came to its end
\* is not read as due, and sent, again.  The tick never commits what it marks.
DoneIsNotRepeated == [][ReadOnce => due' \cap completed = {}]_vars

\* The author may cancel (service.py:85): a reminder whose author confirmed the
\* deletion is not read as due any more.
DeletedIsNotRead ==
    [][ /\ ReadOnce => due' \cap deleteAsked = {}
        /\ ReadRecurring => recurring' \cap deleteAsked = {} ]_vars
===============================================================================
