---------------------------- MODULE ReminderPromise ----------------------------
(***************************************************************************)
(* What a user may rely on, whatever the scheduler does internally: an     *)
(* attempt to deliver a reminder is only ever made to somebody of its      *)
(* audience, and is justified by a minute, not later than the present, at  *)
(* which the reminder is due; a recurring one is attempted at most once    *)
(* per person and minute.  The guard against repetition is process-local   *)
(* in the program, so a restart forgets the attempts.                      *)
(***************************************************************************)
EXTENDS ReminderTable

VARIABLES
    table,       \* committed rows of `reminders`
    recipients,  \* committed rows of `reminder_recipients`
    clock,       \* the present minute
    attempts     \* attempts of this process: [reminder, user, minute]

promiseVars == <<table, recipients, clock, attempts>>

Attempt == [reminder : Reminders, user : Users, minute : Minute]

PromiseInit ==
    /\ table = [r \in Reminders |-> NULL]
    /\ recipients = [r \in Reminders |-> {}]
    /\ clock \in Nat
    /\ attempts = {}

InsertReminder(r, form) ==
    /\ table[r] = NULL
    /\ table' = [table EXCEPT ![r] = NewRow(form)]
    /\ UNCHANGED <<recipients, clock, attempts>>

InsertRecipient(r, u) ==
    /\ table[r] # NULL
    /\ u \notin recipients[r]
    /\ recipients' = [recipients EXCEPT ![r] = @ \cup {u}]
    /\ UNCHANGED <<table, clock, attempts>>

MinutePasses ==
    /\ clock' = clock + 1
    /\ UNCHANGED <<table, recipients, attempts>>

AttemptTo(r, u, m) ==
    LET a == [reminder |-> r, user |-> u, minute |-> m] IN
    /\ table[r] # NULL
    /\ u \in Audience(table[r], recipients[r])
    /\ Due(table[r], m)
    /\ table[r].type = "recurring" => a \notin attempts
    /\ attempts' = attempts \cup {a}
    /\ UNCHANGED <<table, recipients, clock>>

Forget ==
    /\ attempts' = {}
    /\ UNCHANGED <<table, recipients, clock>>

PromiseNext ==
    \/ \E r \in Reminders, form \in Forms : InsertReminder(r, form)
    \/ \E r \in Reminders, u \in Users : InsertRecipient(r, u)
    \/ MinutePasses
    \/ \E r \in Reminders, u \in Users, m \in 0 .. clock : AttemptTo(r, u, m)
    \/ Forget

PromiseSpec == PromiseInit /\ [][PromiseNext]_promiseVars
===============================================================================
