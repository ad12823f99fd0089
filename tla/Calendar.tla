------------------------------- MODULE Calendar -------------------------------
(***************************************************************************)
(* Time as the scheduler sees it.  The program compares an aware datetime  *)
(* with stored ones only down to the minute, so time is a natural number   *)
(* of minutes.  An absolute minute m stands for a `minute_key` of          *)
(* scheduler_tick ("2026-01-31-09-30"); its weekday and its minute of the  *)
(* day are what `now.weekday()` and `(now.hour, now.minute)` return.  The  *)
(* real week has 7 days of 1440 minutes; TLC uses shorter ones.            *)
(***************************************************************************)
EXTENDS Integers

CONSTANTS MinutesPerDay, DaysPerWeek

ASSUME CalendarAssumption ==
    /\ MinutesPerDay \in Nat \ {0}
    /\ DaysPerWeek \in Nat \ {0}

Minute == Nat                      \* absolute minutes, one per minute_key
Weekday == 0 .. DaysPerWeek - 1
MinuteOfDay == 0 .. MinutesPerDay - 1

\* now.weekday(): the cron_day a recurring reminder has to carry to be read.
WeekdayOf(m) == (m \div MinutesPerDay) % DaysPerWeek

\* (now.hour, now.minute), the pair compared with the reminder's fire_at.
MinuteOfDayOf(m) == m % MinutesPerDay
===============================================================================
