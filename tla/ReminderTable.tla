----------------------------- MODULE ReminderTable -----------------------------
(***************************************************************************)
(* The rows of `reminders`, the two queries the scheduler reads them with, *)
(* and the rows the reminder dialog can insert.  Free text is left out: no *)
(* decision of the program looks at it.                                    *)
(***************************************************************************)
EXTENDS Calendar, FiniteSets

CONSTANTS
    Reminders,   \* primary keys
    Users,       \* Telegram user ids
    Forms,       \* completed dialogs: what time_entered can hand to create_reminder
    NULL         \* SQL NULL, and a key that is not in the table

ReminderType == {"once", "recurring"}
ReminderStatus == {"active", "done", "cancelled"}

\* What time_entered passes on: a one-off has a date and no cron_day; a
\* recurring one has a time of day, and the cron_day of the last weekday button
\* pressed, or none when no such button was pressed.
Form ==
    [creator : Users, type : {"once"}, fire_at : Minute, cron_day : {NULL}]
        \cup
    [creator : Users, type : {"recurring"}, fire_at : MinuteOfDay,
     cron_day : Weekday \cup {NULL}]

Row ==
    [creator : Users, type : ReminderType, fire_at : Minute \cup {NULL},
     cron_day : Weekday \cup {NULL}, status : ReminderStatus, is_active : BOOLEAN]

\* Tables and the users of Telegram are finite.
ASSUME SizeAssumption == IsFiniteSet(Reminders) /\ IsFiniteSet(Users)
ASSUME FormsAssumption == Forms \subseteq Form
ASSUME NullAssumption == NULL \notin Nat /\ NULL \notin Row /\ NULL \notin Reminders

\* Mutated form of NewRow: the status column has no default.
NewRowWithoutDefault(form) ==
    [creator |-> form.creator, type |-> form.type, fire_at |-> form.fire_at,
     cron_day |-> form.cron_day, status |-> NULL, is_active |-> TRUE]

\* create_reminder: status and is_active get their column defaults.
NewRow(form) ==
    [creator |-> form.creator, type |-> form.type, fire_at |-> form.fire_at,
     cron_day |-> form.cron_day, status |-> "active", is_active |-> TRUE]

Live(row) == row # NULL /\ row.status = "active" /\ row.is_active /\ row.fire_at # NULL

\* get_due_once_with_recipients(now)
DueOnce(row, now) == Live(row) /\ row.type = "once" /\ row.fire_at <= now

\* get_recurring_by_weekday_with_recipients(now.weekday())
OnWeekday(row, now) == Live(row) /\ row.type = "recurring" /\ row.cron_day = WeekdayOf(now)

\* The exact (hour, minute) comparison scheduler_tick makes on top of the query.
AtItsMinute(row, now) == row.fire_at = MinuteOfDayOf(now)

Due(row, now) == DueOnce(row, now) \/ (OnWeekday(row, now) /\ AtItsMinute(row, now))

\* The recipients a reminder is sent to: those added to it, and its creator.
Audience(row, added) == added \cup {row.creator}
===============================================================================
