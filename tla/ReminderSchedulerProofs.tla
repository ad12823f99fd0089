----------------------- MODULE ReminderSchedulerProofs -----------------------
(***************************************************************************)
(* Proofs about ReminderScheduler for every set of reminders, users and    *)
(* forms, every calendar and every bound: type correctness, the minute     *)
(* guard of recurring reminders, what a tick owes to whom it loaded, the   *)
(* write lock, the implementation of ReminderPromise, and a bound on the   *)
(* steps of a tick.                                                        *)
(***************************************************************************)
EXTENDS ReminderScheduler, FiniteSetTheorems, TLAPS

USE CalendarAssumption, BoundsAssumption, NullAssumption, FormsAssumption

\* A form is inserted as a well-formed row, whatever the dialog collected.
LEMMA NewRowIsRow == ASSUME NEW form \in Forms PROVE NewRow(form) \in Row /\ NewRow(form) # NULL
<1>1. form \in Form
  OBVIOUS
<1>2. NewRow(form) \in Row
  BY <1>1 DEF NewRow, Form, Row, Minute, MinuteOfDay, ReminderType, ReminderStatus
<1>3. QED
  BY <1>2

\* The variables keep their types: every handler, every step of a tick, a crash and
\* a restart included.
THEOREM TypeCorrect == Spec => []TypeOK
<1> USE DEF TypeOK
<1>1. Init => TypeOK
  BY DEF Init, NobodyLoaded, NothingSent, Minute
<1>2. TypeOK /\ [Next]_vars => TypeOK'
  <2> SUFFICES ASSUME TypeOK, [Next]_vars PROVE TypeOK'
    OBVIOUS
  <2> USE DEF dbVars, tickVars, historyVars, Minute
  <2>1. CASE StartTick \/ SkipTick
    BY <2>1 DEF StartTick, SkipTick, Rearmed
  <2>2. CASE ReadOnce
    BY <2>2 DEF ReadOnce, Loaded, Audience, DueOnce, Live, Row
  <2>3. CASE ReadRecurring
    BY <2>3 DEF ReadRecurring, Loaded, Audience, OnWeekday, Live, Row
  <2>4. ASSUME NEW r \in Reminders, VisitOnce(r) PROVE TypeOK'
    BY <2>4 DEF VisitOnce
  <2>5. ASSUME NEW u \in Users, SendTo(u) PROVE TypeOK'
    BY <2>5 DEF SendTo, AttemptAt, Attempt
  <2>6. CASE MarkDone
    BY <2>6 DEF MarkDone
  <2>7. CASE MarkDoneLocked
    BY <2>7 DEF MarkDoneLocked, CloseSession, NobodyLoaded
  <2>8. CASE OnceLoopEnds
    BY <2>8 DEF OnceLoopEnds
  <2>9. ASSUME NEW r \in Reminders, SkipRecurring(r) PROVE TypeOK'
    BY <2>9 DEF SkipRecurring
  <2>10. ASSUME NEW r \in Reminders, VisitRecurring(r) PROVE TypeOK'
    BY <2>10 DEF VisitRecurring
  <2>11. CASE RecurringSent
    BY <2>11 DEF RecurringSent
  <2>12. CASE EndTick
    BY <2>12 DEF EndTick, CloseSession, NobodyLoaded
  <2>13. ASSUME NEW r \in Reminders, NEW form \in Forms, CreateReminder(r, form) PROVE TypeOK'
    BY <2>13, NewRowIsRow DEF CreateReminder
  <2>14. ASSUME NEW r \in Reminders, NEW u \in Users, AddRecipient(r, u) PROVE TypeOK'
    BY <2>14 DEF AddRecipient
  <2>15. ASSUME NEW r \in Reminders, NEW u \in Users, CancelReminder(r, u) PROVE TypeOK'
    BY <2>15 DEF CancelReminder
  <2>16. CASE OtherWriterBegins \/ OtherWriterEnds
    BY <2>16 DEF OtherWriterBegins, OtherWriterEnds
  <2>17. CASE MinutePasses
    BY <2>17 DEF MinutePasses
  <2>18. CASE Crash
    <3>1. crashes' \in Nat
      BY <2>18 DEF Crash
    <3>2. sentMinute' \in [Reminders -> Minute \cup {NULL}]
      BY <2>18 DEF Crash, NothingSent
    <3>3. audience' \in [Reminders -> SUBSET Users]
      BY <2>18 DEF Crash, CloseSession, NobodyLoaded
    <3>4. QED
      BY <2>18, <3>1, <3>2, <3>3 DEF Crash, CloseSession
  <2>19. CASE Restart
    BY <2>19 DEF Restart
  <2>20. CASE UNCHANGED vars
    BY <2>20 DEF vars
  <2>21. QED
    BY <2>1, <2>2, <2>3, <2>4, <2>5, <2>6, <2>7, <2>8, <2>9, <2>10, <2>11, <2>12, <2>13,
       <2>14, <2>15, <2>16, <2>17, <2>18, <2>19, <2>20 DEF Next, TickStep, HandlerStep
<1>3. QED
  BY <1>1, <1>2, PTL DEF Spec

-------------------------------------------------------------------------------
(* The inductive invariant.  RecurringOncePerMinute alone is not inductive: *)
(* that the guard keeps a second tick out rests on attempts never being    *)
(* later than the guard's minute, on the guard never being later than the  *)
(* tick, and on the rows a tick has loaded staying what they were.         *)

\* What the loops have still to visit was due when it was read, and still is.
LoadedRows ==
    /\ pc \in {"readRecurring", "once"} => \A r \in due : DueOnce(table[r], now)
    /\ pc = "once" => \A r \in recurring : OnWeekday(table[r], now)
    /\ pc = "recurring" => \A r \in due : OnWeekday(table[r], now)

\* Users loaded with a reminder are in its audience, which only grows.
LoadedAudience ==
    \A r \in Reminders : audience[r] # {} =>
        table[r] # NULL /\ audience[r] \subseteq Audience(table[r], recipients[r])

\* The row being sent, and what its loop established before the first send.
VisitedRow ==
    /\ current = NULL => todo = {}
    /\ current # NULL =>
           /\ pc \in {"once", "recurring"}
           /\ todo \subseteq audience[current]
           /\ pc = "once" => DueOnce(table[current], now)
           /\ pc = "recurring" =>
                  /\ OnWeekday(table[current], now)
                  /\ AtItsMinute(table[current], now)
                  /\ sentMinute[current] = now

\* The guard is never ahead of the tick, nor an attempt ahead of the guard.
MinuteGuard ==
    /\ now <= clock
    /\ \A r \in Reminders : sentMinute[r] # NULL => sentMinute[r] <= now
    /\ \A a \in attempts :
           /\ table[a.reminder] # NULL
           /\ table[a.reminder].type = "recurring" =>
                  sentMinute[a.reminder] # NULL /\ a.minute <= sentMinute[a.reminder]

SchedulerInv == LoadedRows /\ LoadedAudience /\ VisitedRow /\ MinuteGuard /\ RecurringOncePerMinute

\* SchedulerInv is established at the start and kept by every step.
LEMMA InvHolds == Spec => []SchedulerInv
<1>1. Init => SchedulerInv
  BY DEF Init, SchedulerInv, LoadedRows, LoadedAudience, VisitedRow, MinuteGuard,
         RecurringOncePerMinute, NobodyLoaded, NothingSent
<1>2. TypeOK /\ SchedulerInv /\ [Next]_vars => SchedulerInv'
  <2> SUFFICES ASSUME TypeOK, SchedulerInv, [Next]_vars PROVE SchedulerInv'
    OBVIOUS
  <2> USE DEF SchedulerInv, dbVars, tickVars, historyVars, Minute, TypeOK, LoadedRows,
              LoadedAudience, VisitedRow, MinuteGuard, RecurringOncePerMinute
  <2>1. CASE StartTick \/ SkipTick
    BY <2>1 DEF StartTick, SkipTick, Rearmed
  <2>2. CASE ReadOnce
    BY <2>2 DEF ReadOnce, Loaded, DueOnce, Live
  <2>3. CASE ReadRecurring
    BY <2>3 DEF ReadRecurring, Loaded, OnWeekday, Live
  <2>4. ASSUME NEW r \in Reminders, VisitOnce(r) PROVE SchedulerInv'
    BY <2>4 DEF VisitOnce
  <2>5. ASSUME NEW u \in Users, SendTo(u) PROVE SchedulerInv'
    BY <2>5 DEF SendTo, AttemptAt, Attempt, DueOnce, OnWeekday, Live
  <2>6. CASE MarkDone
    BY <2>6 DEF MarkDone
  <2>7. CASE MarkDoneLocked
    BY <2>7 DEF MarkDoneLocked, CloseSession, NobodyLoaded
  <2>8. CASE OnceLoopEnds
    BY <2>8 DEF OnceLoopEnds
  <2>9. ASSUME NEW r \in Reminders, SkipRecurring(r) PROVE SchedulerInv'
    BY <2>9 DEF SkipRecurring
  <2>10. ASSUME NEW r \in Reminders, VisitRecurring(r) PROVE SchedulerInv'
    <3>1. OnWeekday(table[r], now)
      BY <2>10 DEF VisitRecurring
    <3>2. \A a \in attempts : a.reminder = r => a.minute < now
      BY <2>10, <3>1 DEF VisitRecurring, Attempt, OnWeekday
    <3>3. \A u \in Users : AttemptAt(r, u, now) \notin attempts
      BY <3>2 DEF AttemptAt
    <3>4. MinuteGuard'
      BY <2>10 DEF VisitRecurring, Attempt
    <3>5. LoadedRows' /\ LoadedAudience' /\ VisitedRow'
      BY <2>10, <3>1 DEF VisitRecurring
    <3>6. RecurringOncePerMinute'
      BY <2>10, <3>3 DEF VisitRecurring, AttemptAt
    <3>7. QED
      BY <3>4, <3>5, <3>6
  <2>11. CASE RecurringSent
    BY <2>11 DEF RecurringSent
  <2>12. CASE EndTick
    BY <2>12 DEF EndTick, CloseSession, NobodyLoaded
  <2>13. ASSUME NEW r \in Reminders, NEW form \in Forms, CreateReminder(r, form)
         PROVE SchedulerInv'
    BY <2>13, NewRowIsRow DEF CreateReminder, DueOnce, OnWeekday, Live, Attempt
  <2>14. ASSUME NEW r \in Reminders, NEW u \in Users, AddRecipient(r, u) PROVE SchedulerInv'
    <3>1. \A q \in Reminders : recipients[q] \subseteq recipients'[q]
      BY <2>14 DEF AddRecipient
    <3>2. LoadedAudience'
      BY <2>14, <3>1 DEF AddRecipient, Audience
    <3>3. LoadedRows' /\ VisitedRow' /\ MinuteGuard' /\ RecurringOncePerMinute'
      BY <2>14 DEF AddRecipient
    <3>4. QED
      BY <3>2, <3>3
  <2>15. ASSUME NEW r \in Reminders, NEW u \in Users, CancelReminder(r, u) PROVE SchedulerInv'
    BY <2>15 DEF CancelReminder
  <2>16. CASE OtherWriterBegins \/ OtherWriterEnds
    BY <2>16 DEF OtherWriterBegins, OtherWriterEnds
  <2>17. CASE MinutePasses
    BY <2>17 DEF MinutePasses
  <2>18. CASE Crash
    BY <2>18 DEF Crash, CloseSession, NobodyLoaded, NothingSent
  <2>19. CASE Restart
    BY <2>19 DEF Restart
  <2>20. CASE UNCHANGED vars
    BY <2>20 DEF vars
  <2>21. QED
    BY <2>1, <2>2, <2>3, <2>4, <2>5, <2>6, <2>7, <2>8, <2>9, <2>10, <2>11, <2>12, <2>13,
       <2>14, <2>15, <2>16, <2>17, <2>18, <2>19, <2>20 DEF Next, TickStep, HandlerStep
<1>3. QED
  BY <1>1, <1>2, TypeCorrect, PTL DEF Spec

\* For every set of reminders and users and every calendar, one process sends a
\* recurring reminder to a user at most once per calendar minute.
THEOREM OncePerMinute == Spec => []RecurringOncePerMinute
<1>1. SchedulerInv => RecurringOncePerMinute
  BY DEF SchedulerInv
<1>2. QED
  BY <1>1, InvHolds, PTL

-------------------------------------------------------------------------------
(* TickLeavesNobodyOut.  For each reminder loaded, the tick either still    *)
(* has it before it, or is sending it, or has kept the promise; and a       *)
(* recurring reminder is only skipped in a minute in which this process has *)
(* attempted it, which is what the guard stands for.                        *)

Attempted(r, u) == AttemptAt(r, u, now) \in attempts

\* A one-off that was loaded: to be visited, being sent, or sent to all and marked.
OnceKept(r) ==
    \/ r \in due \/ r = current
    \/ r \in marked /\ \A u \in audience[r] : Attempted(r, u)

\* A recurring one: its creator is among those it was loaded with, and it is to be visited,
\* being sent, not of this minute, or has been sent.
RecurringKept(r) ==
    /\ table[r].creator \in audience[r]
    /\ pc = "recurring" =>
           \/ r \in due \/ r = current
           \/ AtItsMinute(table[r], now) => Attempted(r, table[r].creator)

LoadedKept ==
    \A r \in Reminders : audience[r] # {} =>
        /\ pc \in {"readRecurring", "once", "recurring"}
        /\ table[r].type = "once" =>
               /\ OnceKept(r)
               /\ pc = "readRecurring" => r \in due
               /\ pc = "recurring" => r \notin due /\ r # current
        /\ table[r].type = "recurring" =>
               RecurringKept(r) /\ pc # "readRecurring" /\ (pc = "once" => r \in recurring)

\* What is to be visited has been loaded.
VisitsLoaded ==
    /\ \A r \in due \cup recurring : audience[r] # {}
    /\ current # NULL => audience[current] # {}
    /\ pc \in {"idle", "readOnce"} => due = {} /\ recurring = {}
    /\ pc = "readRecurring" => recurring = {}

\* Whom the row being sent has already been sent to.
SentSoFar ==
    current # NULL => \A u \in audience[current] : u \in todo \/ Attempted(current, u)

\* The minute guard of a reminder tells that its creator was, or is about to be, attempted.
GuardTells ==
    \A r \in Reminders : sentMinute[r] # NULL =>
        /\ table[r] # NULL
        /\ \/ AttemptAt(r, table[r].creator, sentMinute[r]) \in attempts
           \/ pc = "recurring" /\ r = current /\ sentMinute[r] = now
                /\ table[r].creator \in todo

LeavingInv == LoadedKept /\ VisitsLoaded /\ SentSoFar /\ GuardTells

LEMMA LeavingHolds == Spec => []LeavingInv
<1>1. Init => LeavingInv
  BY DEF Init, LeavingInv, LoadedKept, VisitsLoaded, SentSoFar, GuardTells, NobodyLoaded,
         NothingSent
<1>2. TypeOK /\ SchedulerInv /\ LeavingInv /\ [Next]_vars => LeavingInv'
  <2> SUFFICES ASSUME TypeOK, SchedulerInv, LeavingInv, [Next]_vars PROVE LeavingInv'
    OBVIOUS
  <2> USE DEF LeavingInv, dbVars, tickVars, historyVars, Minute, TypeOK, LoadedKept,
              VisitsLoaded, SentSoFar, GuardTells, OnceKept, RecurringKept, Attempted
  <2>0. /\ LoadedRows /\ LoadedAudience /\ VisitedRow
        /\ \A r \in Reminders : DueOnce(table[r], now) => table[r].type = "once"
        /\ \A r \in Reminders : OnWeekday(table[r], now) => table[r].type = "recurring"
        /\ \A r \in Reminders : audience[r] # {} => table[r] # NULL
    BY DEF SchedulerInv, DueOnce, OnWeekday, LoadedAudience
  <2>1. CASE StartTick \/ SkipTick
    BY <2>1 DEF StartTick, SkipTick, Rearmed
  <2>2. CASE ReadOnce
    BY <2>2 DEF ReadOnce, Loaded, Audience, DueOnce, Live, Row
  <2>3. CASE ReadRecurring
    BY <2>0, <2>3 DEF ReadRecurring, Loaded, Audience, OnWeekday, Live, Row, LoadedRows, DueOnce
  <2>4. ASSUME NEW r \in Reminders, VisitOnce(r) PROVE LeavingInv'
    BY <2>0, <2>4 DEF VisitOnce
  <2>5. ASSUME NEW u \in Users, SendTo(u) PROVE LeavingInv'
    BY <2>0, <2>5 DEF SendTo, VisitedRow
  <2>6. CASE MarkDone
    BY <2>0, <2>6 DEF MarkDone
  <2>7. CASE MarkDoneLocked
    BY <2>7 DEF MarkDoneLocked, CloseSession, NobodyLoaded
  <2>8. CASE OnceLoopEnds
    BY <2>0, <2>8 DEF OnceLoopEnds, LoadedRows
  <2>9. ASSUME NEW r \in Reminders, SkipRecurring(r) PROVE LeavingInv'
    BY <2>0, <2>9 DEF SkipRecurring
  <2>10. ASSUME NEW r \in Reminders, VisitRecurring(r) PROVE LeavingInv'
    <3>1. /\ pc = "recurring" /\ pc' = pc /\ current = NULL /\ current' = r /\ r \in due
          /\ due' = due \ {r} /\ todo' = audience[r]
          /\ sentMinute' = [sentMinute EXCEPT ![r] = now]
          /\ UNCHANGED <<table, now, recurring, audience, marked, attempts>>
      BY <2>10 DEF VisitRecurring
    <3>2. table[r].type = "recurring" /\ audience[r] # {} /\ table[r] # NULL
      BY <2>0, <3>1 DEF LoadedRows
    <3>3. table[r].creator \in audience[r]
      BY <3>2
    <3>4. VisitsLoaded' /\ SentSoFar'
      BY <3>1, <3>2
    <3>5. GuardTells'
      BY <3>1, <3>2, <3>3
    <3>6. LoadedKept'
      BY <3>1, <3>2
    <3>7. QED
      BY <3>4, <3>5, <3>6
  <2>11. CASE RecurringSent
    BY <2>0, <2>11 DEF RecurringSent
  <2>12. CASE EndTick
    BY <2>12 DEF EndTick, CloseSession, NobodyLoaded
  <2>13. ASSUME NEW r \in Reminders, NEW form \in Forms, CreateReminder(r, form)
         PROVE LeavingInv'
    <3>1. audience[r] = {} /\ sentMinute[r] = NULL
      BY <2>0, <2>13 DEF CreateReminder
    <3>2. \A q \in Reminders : q # r => table'[q] = table[q]
      BY <2>13 DEF CreateReminder
    <3>3. QED
      BY <2>13, <3>1, <3>2, NewRowIsRow DEF CreateReminder
  <2>14. ASSUME NEW r \in Reminders, NEW u \in Users, AddRecipient(r, u) PROVE LeavingInv'
    BY <2>14 DEF AddRecipient
  <2>15. ASSUME NEW r \in Reminders, NEW u \in Users, CancelReminder(r, u) PROVE LeavingInv'
    BY <2>15 DEF CancelReminder
  <2>16. CASE OtherWriterBegins \/ OtherWriterEnds
    BY <2>16 DEF OtherWriterBegins, OtherWriterEnds
  <2>17. CASE MinutePasses
    BY <2>17 DEF MinutePasses
  <2>18. CASE Crash
    BY <2>18 DEF Crash, CloseSession, NobodyLoaded, NothingSent
  <2>19. CASE Restart
    BY <2>19 DEF Restart
  <2>20. CASE UNCHANGED vars
    BY <2>20 DEF vars
  <2>21. QED
    BY <2>1, <2>2, <2>3, <2>4, <2>5, <2>6, <2>7, <2>8, <2>9, <2>10, <2>11, <2>12, <2>13,
       <2>14, <2>15, <2>16, <2>17, <2>18, <2>19, <2>20 DEF Next, TickStep, HandlerStep
<1>3. QED
  BY <1>1, <1>2, TypeCorrect, InvHolds, PTL DEF Spec

\* A tick that comes to its end has attempted every one-off it loaded for everybody it was
\* loaded with, and every recurring reminder of the minute for its creator, however its
\* sends failed and whatever was inserted meanwhile (scheduler.py, scheduler_tick).
THEOREM NobodyIsLeftOut == Spec => []TickLeavesNobodyOut
<1>1. TypeOK /\ SchedulerInv /\ LeavingInv => TickLeavesNobodyOut
  <2> SUFFICES ASSUME TypeOK, SchedulerInv, LeavingInv, pc = "recurring", current = NULL, due = {},
                      NEW r \in Reminders, audience[r] # {}
               PROVE  IF table[r].type = "once"
                      THEN r \in marked /\ \A u \in audience[r] : AttemptAt(r, u, now) \in attempts
                      ELSE AtItsMinute(table[r], now) =>
                               AttemptAt(r, table[r].creator, now) \in attempts
    BY DEF TickLeavesNobodyOut
  <2>1. table[r].type \in {"once", "recurring"} /\ r # current
    BY DEF TypeOK, SchedulerInv, LoadedAudience, Row, ReminderType
  <2>2. QED
    BY <2>1 DEF LeavingInv, LoadedKept, OnceKept, RecurringKept, Attempted
<1>2. QED
  BY <1>1, TypeCorrect, InvHolds, LeavingHolds, PTL

\* The tick owns the write lock exactly while it has UPDATEs to roll back: no path
\* through a tick, a crash or another writer leaves the lock behind.
THEOREM WriteLock == Spec => []WriteLockBelongsToMarks
<1> USE DEF WriteLockBelongsToMarks
<1>1. Init => WriteLockBelongsToMarks
  BY DEF Init
<1>2. WriteLockBelongsToMarks /\ [Next]_vars => WriteLockBelongsToMarks'
  <2> SUFFICES ASSUME WriteLockBelongsToMarks, [Next]_vars PROVE WriteLockBelongsToMarks'
    OBVIOUS
  <2> USE DEF tickVars
  <2>1. CASE StartTick \/ ReadOnce \/ ReadRecurring \/ OnceLoopEnds \/ RecurringSent
    BY <2>1 DEF StartTick, ReadOnce, ReadRecurring, OnceLoopEnds, RecurringSent
  <2>2. ASSUME NEW r \in Reminders, VisitOnce(r) \/ SkipRecurring(r) \/ VisitRecurring(r)
        PROVE WriteLockBelongsToMarks'
    BY <2>2 DEF VisitOnce, SkipRecurring, VisitRecurring
  <2>3. ASSUME NEW u \in Users, SendTo(u) PROVE WriteLockBelongsToMarks'
    BY <2>3 DEF SendTo
  <2>4. CASE MarkDone
    BY <2>4 DEF MarkDone
  <2>5. CASE MarkDoneLocked \/ EndTick \/ Crash
    BY <2>5 DEF MarkDoneLocked, EndTick, Crash, CloseSession
  <2>6. ASSUME NEW r \in Reminders, NEW form \in Forms, CreateReminder(r, form)
        PROVE WriteLockBelongsToMarks'
    BY <2>6 DEF CreateReminder
  <2>7. ASSUME NEW r \in Reminders, NEW u \in Users, AddRecipient(r, u) \/ CancelReminder(r, u)
        PROVE WriteLockBelongsToMarks'
    BY <2>7 DEF AddRecipient, CancelReminder
  <2>8. CASE OtherWriterBegins \/ OtherWriterEnds
    BY <2>8 DEF OtherWriterBegins, OtherWriterEnds
  <2>9. CASE SkipTick \/ MinutePasses \/ Restart
    BY <2>9 DEF SkipTick, MinutePasses, Restart
  <2>10. CASE UNCHANGED vars
    BY <2>10 DEF vars
  <2>11. QED
    BY <2>1, <2>2, <2>3, <2>4, <2>5, <2>6, <2>7, <2>8, <2>9, <2>10
       DEF Next, TickStep, HandlerStep
<1>3. QED
  BY <1>1, <1>2, PTL DEF Spec

\* Every behaviour of the scheduler is one ReminderPromise allows: a send is an
\* attempt the promise justifies, the handlers insert rows, a crash forgets, and
\* everything else a tick does is invisible.
THEOREM ImplementsPromise == Spec => KeepsPromise
<1>1. Init => Promise!PromiseInit
  BY DEF Init, Promise!PromiseInit, NobodyLoaded
<1>2. TypeOK /\ SchedulerInv /\ [Next]_vars => [Promise!PromiseNext]_(Promise!promiseVars)
  <2> SUFFICES ASSUME TypeOK, SchedulerInv, [Next]_vars
               PROVE [Promise!PromiseNext]_(Promise!promiseVars)
    OBVIOUS
  <2> DEFINE Invisible == UNCHANGED <<table, recipients, clock, attempts>>
  <2>1. ASSUME NEW u \in Users, SendTo(u) PROVE Promise!PromiseNext
    <3>1. /\ current \in Reminders
          /\ u \in Audience(table[current], recipients[current])
          /\ table[current] # NULL
      BY <2>1 DEF SendTo, TypeOK, SchedulerInv, VisitedRow, LoadedAudience
    <3>2. now \in 0 .. clock
      BY DEF TypeOK, Minute, SchedulerInv, MinuteGuard
    <3>3. /\ Due(table[current], now)
          /\ table[current].type = "recurring" => AttemptAt(current, u, now) \notin attempts
      BY <2>1 DEF SendTo, SchedulerInv, VisitedRow, RecurringOncePerMinute, Due, DueOnce,
                  OnWeekday
    <3>4. Promise!AttemptTo(current, u, now)
      BY <2>1, <3>1, <3>3
         DEF SendTo, AttemptAt, dbVars, Promise!AttemptTo, Promise!Audience, Audience,
             Promise!Due, Promise!DueOnce, Promise!OnWeekday, Promise!AtItsMinute,
             Promise!Live, Promise!WeekdayOf, Promise!MinuteOfDayOf, Due, DueOnce,
             OnWeekday, AtItsMinute, Live, WeekdayOf, MinuteOfDayOf
    <3>5. QED
      BY <3>1, <3>2, <3>4 DEF Promise!PromiseNext
  <2>2. ASSUME NEW r \in Reminders, NEW form \in Forms, CreateReminder(r, form)
        PROVE Promise!PromiseNext
    BY <2>2 DEF CreateReminder, historyVars, Promise!PromiseNext, Promise!InsertReminder,
                Promise!NewRow, NewRow
  <2>3. ASSUME NEW r \in Reminders, NEW u \in Users, AddRecipient(r, u)
        PROVE Promise!PromiseNext
    BY <2>3 DEF AddRecipient, historyVars, Promise!PromiseNext, Promise!InsertRecipient
  <2>4. CASE MinutePasses
    BY <2>4 DEF MinutePasses, dbVars, historyVars, Promise!PromiseNext, Promise!MinutePasses
  <2>5. CASE Crash
    BY <2>5 DEF Crash, dbVars, Promise!PromiseNext, Promise!Forget
  <2>6. CASE StartTick \/ SkipTick \/ ReadOnce \/ ReadRecurring
    BY <2>6 DEF StartTick, SkipTick, ReadOnce, ReadRecurring, dbVars, historyVars,
                Promise!promiseVars
  <2>7. ASSUME NEW r \in Reminders, VisitOnce(r) \/ SkipRecurring(r) \/ VisitRecurring(r)
        PROVE Invisible
    BY <2>7 DEF VisitOnce, SkipRecurring, VisitRecurring, dbVars, historyVars
  <2>8. CASE MarkDone \/ MarkDoneLocked \/ OnceLoopEnds \/ RecurringSent \/ EndTick
    BY <2>8 DEF MarkDone, MarkDoneLocked, OnceLoopEnds, RecurringSent, EndTick, dbVars,
                historyVars, Promise!promiseVars
  <2>9. ASSUME NEW r \in Reminders, NEW u \in Users, CancelReminder(r, u) PROVE Invisible
    BY <2>9 DEF CancelReminder, dbVars
  <2>10. CASE OtherWriterBegins \/ OtherWriterEnds \/ Restart
    BY <2>10 DEF OtherWriterBegins, OtherWriterEnds, Restart, dbVars, historyVars,
                 Promise!promiseVars
  <2>11. CASE UNCHANGED vars
    BY <2>11 DEF vars, Promise!promiseVars
  <2>12. QED
    BY <2>1, <2>2, <2>3, <2>4, <2>5, <2>6, <2>7, <2>8, <2>9, <2>10, <2>11
       DEF Next, TickStep, HandlerStep, Promise!promiseVars
<1>3. QED
  BY <1>1, <1>2, TypeCorrect, InvHolds, PTL DEF Spec, KeepsPromise, Promise!PromiseSpec
-------------------------------------------------------------------------------
(* How long a tick takes: a bound on the steps it has left, which falls     *)
(* with each of them, however many reminders were read and whatever the     *)
(* handlers insert meanwhile.  TickReturnsWriteLock rests on it.            *)

\* What a visited reminder costs at most: the visit, a send to each user, and its end.
Turn == Cardinality(Users) + 2

Sending == IF current = NULL THEN 0 ELSE Cardinality(todo) + 1

TickEffort ==
    CASE pc = "readOnce"      -> 2 * (Turn * Cardinality(Reminders)) + 4
      [] pc = "readRecurring" -> Turn * Cardinality(due) + Turn * Cardinality(Reminders) + 3
      [] pc = "once"          ->
             Turn * Cardinality(due) + Turn * Cardinality(recurring) + Sending + 2
      [] pc = "recurring"     -> Turn * Cardinality(due) + Sending + 1
      [] OTHER                -> 0

\* A tick has work left until it is idle again, and holds the lock only while it has.
TickEffortInv ==
    /\ TickEffort \in Nat
    /\ TickEffort > 0 <=> pc # "idle"
    /\ lock = "tick" => TickEffort > 0

TickNearer ==
    /\ TickStep => TickEffort' < TickEffort
    /\ ~StartTick => TickEffort' <= TickEffort

LEMMA TurnGrows ==
    ASSUME NEW m \in Nat, NEW n \in Nat, m <= n, Turn \in Nat
    PROVE  Turn * m \in Nat /\ Turn * m <= Turn * n /\ Turn * (m + 1) = Turn * m + Turn
<1> DEFINE k == Turn
<1> HIDE DEF k
<1>1. k * m \in Nat /\ k * (m + 1) = k * m + k
  BY DEF k
<1>2. k * (n - m) \in Nat /\ k * (n - m) = k * n - k * m
  BY DEF k
<1>3. k * m <= k * n
  BY <1>1, <1>2 DEF k
<1>4. QED
  BY <1>1, <1>3 DEF k

\* Reading and visiting whole sets of reminders and users ends.
LEMMA Sizes ==
    /\ Cardinality(Users) \in Nat /\ Turn \in Nat /\ Cardinality(Reminders) \in Nat
    /\ \A S \in SUBSET Users :
           /\ IsFiniteSet(S) /\ Cardinality(S) \in Nat
           /\ Cardinality(S) <= Cardinality(Users)
    /\ \A S \in SUBSET Reminders :
           /\ IsFiniteSet(S) /\ Cardinality(S) \in Nat
           /\ Turn * Cardinality(S) \in Nat
           /\ Turn * Cardinality(S) <= Turn * Cardinality(Reminders)
<1>1. Cardinality(Users) \in Nat /\ Cardinality(Reminders) \in Nat
  BY SizeAssumption, FS_CardinalityType
<1>2. Turn \in Nat
  BY <1>1 DEF Turn
<1>3. \A S \in SUBSET Users :
          /\ IsFiniteSet(S) /\ Cardinality(S) \in Nat
          /\ Cardinality(S) <= Cardinality(Users)
  BY SizeAssumption, FS_Subset, FS_CardinalityType
<1>4. ASSUME NEW S \in SUBSET Reminders
      PROVE  /\ IsFiniteSet(S) /\ Cardinality(S) \in Nat
             /\ Turn * Cardinality(S) \in Nat
             /\ Turn * Cardinality(S) <= Turn * Cardinality(Reminders)
  <2>1. /\ IsFiniteSet(S) /\ Cardinality(S) \in Nat
        /\ Cardinality(S) <= Cardinality(Reminders)
    BY SizeAssumption, FS_Subset, FS_CardinalityType
  <2>2. QED
    BY <1>1, <1>2, <2>1, TurnGrows
<1>5. QED
  BY <1>1, <1>2, <1>3, <1>4

\* One reminder fewer to visit is one turn less.
LEMMA OneVisited ==
    ASSUME NEW S \in SUBSET Reminders, NEW r \in S
    PROVE  Turn * Cardinality(S) = Turn * Cardinality(S \ {r}) + Turn
<1>1. /\ IsFiniteSet(S) /\ Cardinality(S) \in Nat /\ Cardinality(S \ {r}) \in Nat
      /\ Turn \in Nat
  BY Sizes
<1>2. Cardinality(S \ {r}) = Cardinality(S) - 1
  BY <1>1, FS_RemoveElement
<1>3. Cardinality(S) = Cardinality(S \ {r}) + 1
  BY <1>1, <1>2
<1>4. QED
  BY <1>1, <1>3, TurnGrows

LEMMA EffortNatural ==
    ASSUME TypeOK
    PROVE  /\ Sending \in Nat /\ Sending < Turn
           /\ TickEffort \in Nat
           /\ TickEffort > 0 <=> pc # "idle"
<1>1. Cardinality(todo) \in Nat /\ Cardinality(todo) <= Cardinality(Users)
  BY Sizes DEF TypeOK
<1>2. Sending \in Nat /\ Sending < Turn
  BY <1>1, Sizes DEF Sending, Turn
<1>3. /\ Turn * Cardinality(due) \in Nat /\ Turn * Cardinality(recurring) \in Nat
      /\ Turn * Cardinality(Reminders) \in Nat
  BY Sizes DEF TypeOK
<1>4. pc \in {"idle", "readOnce", "readRecurring", "once", "recurring"}
  BY DEF TypeOK
<1>5. QED
  BY <1>2, <1>3, <1>4 DEF TickEffort

\* A step that leaves the loops of the tick alone leaves its effort alone.
LEMMA EffortFrame ==
    ASSUME pc' = pc, due' = due, recurring' = recurring, current' = current, todo' = todo
    PROVE  TickEffort' = TickEffort
BY DEF TickEffort, Sending

\* What each step of a tick does to its effort.
LEMMA StepIsNearer ==
    ASSUME TypeOK, TypeOK', SchedulerInv, TickStep
    PROVE  TickEffort' < TickEffort /\ TickEffort' <= TickEffort
<1>1. /\ due \in SUBSET Reminders /\ recurring \in SUBSET Reminders
      /\ due' \in SUBSET Reminders /\ recurring' \in SUBSET Reminders
      /\ todo \in SUBSET Users /\ todo' \in SUBSET Users
      /\ pc \in {"idle", "readOnce", "readRecurring", "once", "recurring"}
      /\ NULL \notin Reminders
  BY DEF TypeOK
<1>2. /\ Turn * Cardinality(due) \in Nat /\ Turn * Cardinality(recurring) \in Nat
      /\ Turn * Cardinality(due') \in Nat /\ Turn * Cardinality(recurring') \in Nat
      /\ Turn * Cardinality(Reminders) \in Nat
      /\ Turn * Cardinality(due') <= Turn * Cardinality(Reminders)
      /\ Turn * Cardinality(recurring') <= Turn * Cardinality(Reminders)
  BY <1>1, Sizes
<1>3. /\ Sending \in Nat /\ Sending' \in Nat /\ Turn \in Nat /\ Turn' = Turn
      /\ Sending' < Turn /\ TickEffort \in Nat
  <2>1. Sending \in Nat /\ Turn \in Nat /\ TickEffort \in Nat
    BY EffortNatural, Sizes
  <2>2. Cardinality(todo') \in Nat /\ Cardinality(todo') <= Cardinality(Users)
    BY <1>1, Sizes
  <2>3. QED
    BY <2>1, <2>2, Sizes DEF Sending, Turn
<1>4. ASSUME ReadOnce PROVE TickEffort' < TickEffort
  <2>1. pc = "readOnce" /\ pc' = "readRecurring"
    BY <1>4 DEF ReadOnce
  <2>2. /\ TickEffort = 2 * (Turn * Cardinality(Reminders)) + 4
        /\ TickEffort' = Turn * Cardinality(due') + Turn * Cardinality(Reminders) + 3
    BY <2>1 DEF TickEffort, Turn
  <2>3. QED
    BY <1>2, <2>2
<1>5. ASSUME ReadRecurring PROVE TickEffort' < TickEffort
  <2>1. pc = "readRecurring" /\ pc' = "once" /\ due' = due /\ current' = NULL
    BY <1>5 DEF ReadRecurring, SchedulerInv, VisitedRow
  <2>2. /\ TickEffort = Turn * Cardinality(due) + Turn * Cardinality(Reminders) + 3
        /\ TickEffort' = Turn * Cardinality(due) + Turn * Cardinality(recurring') + 0 + 2
    BY <2>1 DEF TickEffort, Sending, Turn
  <2>3. QED
    BY <1>2, <2>2
<1>6. ASSUME NEW r \in Reminders, VisitOnce(r) \/ VisitRecurring(r) \/ SkipRecurring(r)
      PROVE  TickEffort' < TickEffort
  <2>1. /\ pc \in {"once", "recurring"} /\ pc' = pc /\ current = NULL
        /\ recurring' = recurring /\ r \in due /\ due' = due \ {r}
    BY <1>6 DEF VisitOnce, VisitRecurring, SkipRecurring
  <2>2. Turn * Cardinality(due) = Turn * Cardinality(due') + Turn
    BY <1>1, <2>1, OneVisited
  <2>3. Sending = 0
    BY <2>1 DEF Sending
  <2>4. CASE pc = "once"
    <3>1. /\ TickEffort = Turn * Cardinality(due') + Turn
                              + Turn * Cardinality(recurring) + 0 + 2
          /\ TickEffort' = Turn * Cardinality(due')
                              + Turn * Cardinality(recurring) + Sending' + 2
      BY <2>1, <2>2, <2>3, <2>4 DEF TickEffort, Turn
    <3>2. QED
      BY <1>2, <1>3, <3>1
  <2>5. CASE pc = "recurring"
    <3>1. /\ TickEffort = Turn * Cardinality(due') + Turn + 0 + 1
          /\ TickEffort' = Turn * Cardinality(due') + Sending' + 1
      BY <2>1, <2>2, <2>3, <2>5 DEF TickEffort, Turn
    <3>2. QED
      BY <1>2, <1>3, <3>1
  <2>6. QED
    BY <2>1, <2>4, <2>5
<1>7. ASSUME UNCHANGED <<pc, due, recurring>>, pc \in {"once", "recurring"}, Sending' < Sending
      PROVE  TickEffort' < TickEffort
  <2>1. CASE pc = "once"
    <3>1. /\ TickEffort = Turn * Cardinality(due) + Turn * Cardinality(recurring) + Sending + 2
          /\ TickEffort' = Turn * Cardinality(due) + Turn * Cardinality(recurring) + Sending' + 2
      BY <1>7, <2>1 DEF TickEffort, Turn
    <3>2. QED
      BY <1>2, <1>3, <1>7, <3>1
  <2>2. CASE pc = "recurring"
    <3>1. /\ TickEffort = Turn * Cardinality(due) + Sending + 1
          /\ TickEffort' = Turn * Cardinality(due) + Sending' + 1
      BY <1>7, <2>2 DEF TickEffort, Turn
    <3>2. QED
      BY <1>2, <1>3, <1>7, <3>1
  <2>3. QED
    BY <1>7, <2>1, <2>2
<1>8. ASSUME NEW u \in Users, SendTo(u) PROVE TickEffort' < TickEffort
  <2>1. /\ current # NULL /\ current' = current /\ u \in todo /\ todo' = todo \ {u}
        /\ UNCHANGED <<pc, due, recurring>>
    BY <1>8 DEF SendTo
  <2>2. pc \in {"once", "recurring"}
    BY <2>1 DEF SchedulerInv, VisitedRow
  <2>3. /\ IsFiniteSet(todo) /\ Cardinality(todo) \in Nat
        /\ Cardinality(todo \ {u}) = Cardinality(todo) - 1
    <3>1. IsFiniteSet(todo) /\ Cardinality(todo) \in Nat
      BY <1>1, Sizes
    <3>2. QED
      BY <2>1, <3>1, FS_RemoveElement
  <2>4. Sending' < Sending
    BY <2>1, <2>3 DEF Sending
  <2>5. QED
    BY <1>7, <2>1, <2>2, <2>4
<1>9. ASSUME MarkDone \/ RecurringSent PROVE TickEffort' < TickEffort
  <2>1. /\ current # NULL /\ todo = {} /\ current' = NULL
        /\ UNCHANGED <<pc, due, recurring>> /\ pc \in {"once", "recurring"}
    BY <1>9 DEF MarkDone, RecurringSent
  <2>2. Sending' < Sending
    BY <1>3, <2>1, FS_EmptySet DEF Sending
  <2>3. QED
    BY <1>7, <2>1, <2>2
<1>10. ASSUME OnceLoopEnds PROVE TickEffort' < TickEffort
  <2>1. /\ pc = "once" /\ pc' = "recurring" /\ due' = recurring /\ due = {}
        /\ current = NULL /\ current' = NULL
    BY <1>10 DEF OnceLoopEnds
  <2>2. /\ TickEffort = Turn * Cardinality(due) + Turn * Cardinality(recurring) + 0 + 2
        /\ TickEffort' = Turn * Cardinality(recurring) + 0 + 1
    BY <2>1 DEF TickEffort, Sending, Turn
  <2>3. QED
    BY <1>2, <2>2
<1>11. ASSUME MarkDoneLocked \/ EndTick PROVE TickEffort' < TickEffort
  <2>1. pc' = "idle" /\ pc # "idle"
    BY <1>11 DEF MarkDoneLocked, EndTick, CloseSession
  <2>2. TickEffort' = 0 /\ TickEffort > 0
    BY <2>1, EffortNatural DEF TickEffort
  <2>3. QED
    BY <2>2
<1>12. TickEffort' < TickEffort
  BY <1>4, <1>5, <1>6, <1>8, <1>9, <1>10, <1>11 DEF TickStep
<1>13. TickEffort' \in Nat
  BY <1>2, <1>3 DEF TickEffort, Turn
<1>14. QED
  BY <1>3, <1>12, <1>13

\* The tick holds the lock only inside its loops.
LockInTick == lock = "tick" => pc \in {"once", "recurring"}

LEMMA LockStep == ASSUME LockInTick, [Next]_vars PROVE LockInTick'
<1> USE DEF LockInTick, tickVars
<1>1. CASE StartTick \/ ReadOnce \/ ReadRecurring \/ OnceLoopEnds \/ RecurringSent
  BY <1>1 DEF StartTick, ReadOnce, ReadRecurring, OnceLoopEnds, RecurringSent
<1>2. ASSUME NEW r \in Reminders, VisitOnce(r) \/ SkipRecurring(r) \/ VisitRecurring(r)
      PROVE  LockInTick'
  BY <1>2 DEF VisitOnce, SkipRecurring, VisitRecurring
<1>3. ASSUME NEW u \in Users, SendTo(u) PROVE LockInTick'
  BY <1>3 DEF SendTo
<1>4. CASE MarkDone \/ MarkDoneLocked \/ EndTick \/ Crash
  BY <1>4 DEF MarkDone, MarkDoneLocked, EndTick, Crash, CloseSession
<1>5. CASE SkipTick \/ HandlerStep \/ MinutePasses \/ Restart
  BY <1>5 DEF SkipTick, HandlerStep, CreateReminder, AddRecipient, CancelReminder, OtherWriterBegins,
     OtherWriterEnds, MinutePasses, Restart
<1>6. CASE UNCHANGED vars
  BY <1>6 DEF vars
<1>7. QED
  BY <1>1, <1>2, <1>3, <1>4, <1>5, <1>6 DEF Next, TickStep

\* A tick has fewer steps left after each of its own and never more, whatever the handlers
\* insert, other writers and a crash do, and it holds the write lock only while it has some
\* left: what it visits is what it read, and nobody is sent to twice in one visit.
THEOREM TicksAreShort == Spec => []TickEffortInv /\ [][TickNearer]_vars
<1>1. Spec => []LockInTick
  <2>1. Init => LockInTick
    BY DEF Init, LockInTick
  <2>2. QED
    BY <2>1, LockStep, PTL DEF Spec
<1>2. TypeOK /\ LockInTick => TickEffortInv
  BY EffortNatural DEF TickEffortInv, LockInTick
<1>3. TypeOK /\ TypeOK' /\ SchedulerInv /\ [Next]_vars => [TickNearer]_vars
  <2> SUFFICES ASSUME TypeOK, TypeOK', SchedulerInv, Next PROVE TickNearer
    OBVIOUS
  <2>1. TickEffort \in Nat
    BY EffortNatural
  <2>2. TickStep => TickEffort' < TickEffort /\ TickEffort' <= TickEffort
    BY StepIsNearer
  <2> SUFFICES ASSUME ~StartTick, ~TickStep PROVE TickEffort' <= TickEffort
    BY <2>2 DEF TickNearer
  <2>3. CASE SkipTick \/ HandlerStep \/ MinutePasses \/ Restart
    <3>1. UNCHANGED tickVars
      BY <2>3 DEF SkipTick, HandlerStep, CreateReminder, AddRecipient, CancelReminder,
         OtherWriterBegins, OtherWriterEnds, MinutePasses, Restart
    <3>2. TickEffort' = TickEffort
      BY <3>1, EffortFrame DEF tickVars
    <3>3. QED
      BY <2>1, <3>2
  <2>4. CASE Crash
    <3>1. TickEffort' = 0
      BY <2>4 DEF Crash, CloseSession, TickEffort
    <3>2. QED
      BY <2>1, <3>1
  <2>5. QED
    BY <2>3, <2>4 DEF Next
<1>4. QED
  BY <1>1, <1>2, <1>3, TypeCorrect, InvHolds, PTL DEF Spec
===============================================================================
