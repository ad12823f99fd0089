------------------------------- MODULE Lifecycle -------------------------------
(***************************************************************************)
(* bot.py: a process starts, serves and ends, again and again.             *)
(*                                                                         *)
(* Each mode is a list of awaited steps.  A step may raise, which ends the *)
(* process there; a process may be killed anywhere.  What a process leaves *)
(* behind are its tables and, at Telegram, a registered webhook and the    *)
(* updates nobody has taken.  The next process may run in the other mode.  *)
(*                                                                         *)
(* `scheduler.stop()` is a coroutine nobody awaits, so it is not a step:   *)
(* the scheduler runs until the process is gone.                           *)
(***************************************************************************)
EXTENDS Naturals, Sequences

CONSTANTS
    Updates,    \* updates that users send to Telegram
    Secrets,    \* the texts that ADMIN_PASSWORD may hold, other than the empty one
    NULL,
    MaxStarts   \* bound: processes in a behaviour

ASSUME LifecycleAssumption == MaxStarts \in Nat /\ NULL \notin Secrets

VARIABLES
    up,        \* a process runs
    mode,      \* which of the two functions main calls
    pc,        \* position in its Script
    signals,   \* who handles SIGTERM and SIGINT
    event,     \* shutdown_event
    polling,   \* the start_polling task
    jobs,      \* the APScheduler scheduler runs
    tick,      \* scheduler_tick runs
    site,      \* the HTTP server listens
    tables,    \* the tables exist in the database file
    hook,      \* Telegram has a webhook of ours
    update,    \* what became of each update
    fresh,     \* history: updates sent since this process began to wait
    password,  \* settings.admin_password, NULL while no process runs
    starts

processVars == <<up, mode, pc, signals, event, polling, jobs, tick, site, password>>
vars == <<processVars, tables, hook, update, fresh, starts>>

Mode == {"webhook", "polling"}

\* What ADMIN_PASSWORD may hold.
Passwords == Secrets \cup {""}

\* Mutated scripts: the scheduler before the tables, ...
WebhookScriptJobsFirst ==
    <<"signals", "commands", "jobs", "tables", "site", "unhook", "hook", "wait",
      "unhookOnly", "cleanup", "close">>
\* ... the site closed under a registered webhook, ...
WebhookScriptCleanupFirst ==
    <<"signals", "commands", "tables", "jobs", "site", "unhook", "hook", "wait",
      "cleanup", "unhookOnly", "close">>
\* ... the deletion of the startup used for the shutdown as well, ...
WebhookScriptDropLast ==
    <<"signals", "commands", "tables", "jobs", "site", "unhook", "hook", "wait",
      "unhook", "cleanup", "close">>
\* ... the session closed twice, ...
WebhookScriptClosesTwice ==
    <<"signals", "commands", "tables", "jobs", "site", "unhook", "hook", "wait",
      "unhookOnly", "close", "cleanup", "close">>
\* ... and a poller that trusts no webhook was left behind.
PollingScriptKeepsHook ==
    <<"signals", "commands", "tables", "site", "jobs", "spawn", "wait",
      "stopPolling", "close", "cleanup">>

WebhookScript ==
    <<"signals", "commands", "tables", "jobs", "site", "unhook", "hook", "wait",
      "unhookOnly", "cleanup", "close">>
PollingScript ==
    <<"signals", "unhook", "commands", "tables", "site", "jobs", "spawn", "wait",
      "stopPolling", "close", "cleanup">>
Script == IF mode = "webhook" THEN WebhookScript ELSE PollingScript

At(step) == up /\ pc <= Len(Script) /\ Script[pc] = step

Init ==
    /\ up = FALSE /\ mode \in Mode /\ pc = 1
    /\ signals = "default" /\ event = FALSE /\ polling = "off"
    /\ jobs = FALSE /\ tick = FALSE /\ site = FALSE
    /\ tables = FALSE /\ hook = FALSE
    /\ update = [u \in Updates |-> "unsent"] /\ fresh = {}
    /\ password = NULL
    /\ starts = 0

-------------------------------------------------------------------------------
(* main.                                                                   *)

\* Mutated form of Valid: an empty ADMIN_PASSWORD is let through.
ValidAny(secret) == TRUE

\* settings.validate_on_startup: of what it refuses, an empty password is what the
\* rest of the program would otherwise go on with.
Valid(secret) == secret # ""

Start(m, secret) ==
    /\ ~up /\ starts < MaxStarts
    /\ Valid(secret)
    /\ up' = TRUE /\ mode' = m /\ pc' = 1
    /\ fresh' = {}
    /\ password' = secret
    /\ starts' = starts + 1
    /\ UNCHANGED <<signals, event, polling, jobs, tick, site, tables, hook, update>>

\* Memory, sockets and tasks go with the process, a running tick among them.
Exit ==
    /\ up' = FALSE /\ pc' = 1
    /\ signals' = "default" /\ event' = FALSE /\ polling' = "off"
    /\ jobs' = FALSE /\ tick' = FALSE /\ site' = FALSE
    /\ password' = NULL
    /\ UNCHANGED <<mode, fresh, starts>>

\* A call of the current step raises, or the process is killed.
Die ==
    /\ up
    /\ Exit
    /\ UNCHANGED <<tables, hook, update>>

Go == pc' = pc + 1 /\ UNCHANGED <<up, mode, password, starts>>

AddSignalHandlers ==
    /\ At("signals") /\ Go
    /\ signals' = "event"
    /\ UNCHANGED <<event, polling, jobs, tick, site, tables, hook, update, fresh>>

\* set_commands and cache.init, session.close.
Call ==
    /\ At("commands") \/ At("close")
    /\ Go
    /\ UNCHANGED <<signals, event, polling, jobs, tick, site, tables, hook, update, fresh>>

\* aiogram: stop_polling raises when no polling runs.  Behind Wait none does, so the two
\* steps that follow are not reached and the process ends here.
StopPolling ==
    /\ At("stopPolling")
    /\ polling # "running"
    /\ Exit
    /\ UNCHANGED <<tables, hook, update>>

CreateTables ==
    /\ At("tables") /\ Go
    /\ tables' = TRUE
    /\ UNCHANGED <<signals, event, polling, jobs, tick, site, hook, update, fresh>>

StartScheduler ==
    /\ At("jobs") /\ Go
    /\ jobs' = TRUE
    /\ UNCHANGED <<signals, event, polling, tick, site, tables, hook, update, fresh>>

StartSite ==
    /\ At("site") /\ Go
    /\ site' = TRUE
    /\ UNCHANGED <<signals, event, polling, jobs, tick, tables, hook, update, fresh>>

\* delete_webhook(drop_pending_updates=True)
DeleteWebhookAndDrop ==
    /\ At("unhook") /\ Go
    /\ hook' = FALSE
    /\ update' = [u \in Updates |-> IF update[u] = "pending" THEN "dropped" ELSE update[u]]
    /\ UNCHANGED <<signals, event, polling, jobs, tick, site, tables, fresh>>

SetWebhook ==
    /\ At("hook") /\ Go
    /\ hook' = TRUE
    /\ UNCHANGED <<signals, event, polling, jobs, tick, site, tables, update, fresh>>

\* create_task(start_polling)
SpawnPolling ==
    /\ At("spawn") /\ Go
    /\ polling' = "created"
    /\ UNCHANGED <<signals, event, jobs, tick, site, tables, hook, update, fresh>>

\* Mutated form of WaitIsOver: both modes wait as polling does.
WaitIsOverForBoth == event /\ polling = "stopped"

\* `await shutdown_event.wait()`, and asyncio.wait with the default ALL_COMPLETED.
WaitIsOver == event /\ (mode = "polling" => polling = "stopped")

Wait ==
    /\ At("wait") /\ WaitIsOver /\ Go
    /\ UNCHANGED <<signals, event, polling, jobs, tick, site, tables, hook, update, fresh>>

DeleteWebhook ==
    /\ At("unhookOnly") /\ Go
    /\ hook' = FALSE
    /\ UNCHANGED <<signals, event, polling, jobs, tick, site, tables, update, fresh>>

Cleanup ==
    /\ At("cleanup") /\ Go
    /\ site' = FALSE
    /\ UNCHANGED <<signals, event, polling, jobs, tick, tables, hook, update, fresh>>

\* The script is over and asyncio.run cancels every task that is left.
Return ==
    /\ up /\ pc > Len(Script)
    /\ Exit
    /\ UNCHANGED <<tables, hook, update>>

-------------------------------------------------------------------------------
(* What runs beside main.                                                  *)

\* aiogram: start_polling replaces the signal handlers with its own.
PollingBegins ==
    /\ polling = "created"
    /\ polling' = "running" /\ signals' = "polling"
    /\ UNCHANGED <<up, mode, pc, event, jobs, tick, site, password, tables, hook, update,
                   fresh, starts>>

\* start_polling raises.
PollingFails ==
    /\ polling = "running"
    /\ polling' = "stopped"
    /\ UNCHANGED <<up, mode, pc, signals, event, jobs, tick, site, password, tables, hook,
                   update, fresh, starts>>

\* SIGTERM or SIGINT: kills, sets the event, or stops polling.
Signal ==
    /\ up
    /\ IF signals = "default"
       THEN Exit
       ELSE /\ event' = (event \/ signals = "event")
            /\ polling' = IF signals = "polling" /\ polling = "running" THEN "stopped"
                          ELSE polling
            /\ UNCHANGED <<up, mode, pc, signals, jobs, tick, site, password, fresh, starts>>
    /\ UNCHANGED <<tables, hook, update>>

StartTick ==
    /\ jobs /\ ~tick
    /\ tick' = TRUE
    /\ UNCHANGED <<up, mode, pc, signals, event, polling, jobs, site, password, tables, hook,
                   update, fresh, starts>>

EndTick ==
    /\ tick
    /\ tick' = FALSE
    /\ UNCHANGED <<up, mode, pc, signals, event, polling, jobs, site, password, tables, hook,
                   update, fresh, starts>>

Send(u) ==
    /\ update[u] = "unsent"
    /\ update' = [update EXCEPT ![u] = "pending"]
    /\ fresh' = IF At("wait") THEN fresh \cup {u} ELSE fresh
    /\ UNCHANGED <<processVars, tables, hook, starts>>

\* Telegram posts to a registered webhook whose site listens, also to one that an
\* earlier process registered; a poller asks for updates.
Serving == (hook /\ site /\ mode = "webhook") \/ polling = "running"

Deliver(u) ==
    /\ update[u] = "pending"
    /\ Serving
    /\ update' = [update EXCEPT ![u] = "handled"]
    /\ UNCHANGED <<processVars, tables, hook, fresh, starts>>

-------------------------------------------------------------------------------
Advance ==
    \/ AddSignalHandlers
    \/ Call
    \/ CreateTables
    \/ StartScheduler
    \/ StartSite
    \/ DeleteWebhookAndDrop
    \/ SetWebhook
    \/ SpawnPolling
    \/ Wait
    \/ StopPolling
    \/ DeleteWebhook
    \/ Cleanup
    \/ Return
    \/ PollingBegins

ProcessStep ==
    \/ \E m \in Mode, secret \in Passwords : Start(m, secret)
    \/ Die
    \/ Advance
    \/ PollingFails
    \/ Signal
    \/ StartTick
    \/ EndTick

Next ==
    \/ ProcessStep
    \/ \E u \in Updates : Send(u) \/ Deliver(u)

Spec == Init /\ [][Next]_vars

\* The event loop resumes main and the polling task when what they await is there.
FairSpec == Spec /\ WF_vars(Advance)

-------------------------------------------------------------------------------
(* Properties.                                                             *)

LifecycleTypeOK ==
    /\ up \in BOOLEAN /\ mode \in Mode /\ pc \in 1 .. 12
    /\ signals \in {"default", "event", "polling"} /\ event \in BOOLEAN
    /\ polling \in {"off", "created", "running", "stopped"}
    /\ jobs \in BOOLEAN /\ tick \in BOOLEAN /\ site \in BOOLEAN
    /\ tables \in BOOLEAN /\ hook \in BOOLEAN
    /\ update \in [Updates -> {"unsent", "pending", "handled", "dropped"}]
    /\ fresh \subseteq Updates
    /\ password \in Passwords \cup {NULL}
    /\ starts \in 0 .. MaxStarts

\* No update is handled and no tick runs before the tables exist: in neither mode does
\* a step that lets updates or ticks in come before the step that creates them, and
\* a webhook left by a process that died brings updates only to tables that it
\* or an earlier one created.
NothingRunsUnprepared ==
    [][ tick' \/ (\E u \in Updates : update'[u] = "handled" /\ update[u] # "handled")
            => tables ]_vars

\* A process that serves has the one way in that its mode needs: polling is never
\* refused for a webhook that an earlier process left behind, and a webhook leads to
\* a listening site for as long as its process serves.
OneWayIn ==
    /\ polling = "running" => ~hook
    /\ At("wait") /\ mode = "webhook" => hook /\ site

\* A shutdown that runs takes the webhook back before the site goes: Telegram is not
\* left posting to a closed port, except by a death.
SiteOutlivesHook ==
    [][ site /\ ~site' /\ At("cleanup") => ~hook ]_vars

\* The drop at startup throws away what was sent to nobody; an update sent while a
\* process waits is never dropped by that process, its shutdown included.
ServedIsNotDropped ==
    [][ \A u \in fresh : update'[u] = "dropped" => update[u] = "dropped" \/ fresh' = {} ]_vars

\* In webhook mode a signal that does not kill the process ends it in order, at whatever
\* step of the startup or of the wait it finds it.  A poller need not end: one
\* signal reaches either the event or start_polling, and the wait is for both.
StopsWhenAsked == up /\ mode = "webhook" /\ event ~> ~up
===============================================================================
