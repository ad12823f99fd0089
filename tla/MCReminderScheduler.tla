-------------------------- MODULE MCReminderScheduler --------------------------
(***************************************************************************)
(* Small instances of ReminderScheduler.  A week of two days of two        *)
(* minutes: every minute of the bound differs from the next in its minute  *)
(* of the day, and the weekday changes in the middle.                      *)
(***************************************************************************)
EXTENDS ReminderScheduler, TLC

CONSTANTS r1, r2, ann, bob

OneOff(u, m) == [creator |-> u, type |-> "once", fire_at |-> m, cron_day |-> NULL]
Weekly(u, m, d) == [creator |-> u, type |-> "recurring", fire_at |-> m, cron_day |-> d]

\* A one-off, a weekly reminder, and a weekly one whose day was never chosen.
MixedForms == {OneOff(ann, 1), Weekly(ann, 1, 0), Weekly(bob, 0, NULL)}
OneOffForms == {OneOff(ann, 1)}

ReminderSymmetry == Permutations({r1, r2})
===============================================================================
