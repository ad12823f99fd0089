# A verification project for botkit-reminder

TLA+ models of the reminder bot, the TLC runs that check them on small instances and the
theorems TLAPS proves about them for every instance. Paths such as
`src/src/reminder/scheduler.py:109` are relative to the directory that holds both the
repository (`src/`) and this one (`tla/`).

## 1. The system

One Python process: an aiogram dispatcher (webhook or polling), an APScheduler job, one
SQLite file through SQLAlchemy's async sessions, and Redis for dialog state and throttling.
Everything runs on one event loop, so code between two `await`s is atomic and everything
else interleaves: updates are handled concurrently, also two of one user.

### 1.1 Components

| component | state it keeps | operations | correct when |
|---|---|---|---|
| Reminder scheduler (`src/src/reminder/scheduler.py`) | `_RECURRING_SENT_MINUTE` and APScheduler's timer in memory, its job in the database file, the tick's own session | wakeups, `scheduler_tick`, `Scheduler.start/stop` | a due one-off reaches its whole audience, once; a recurring one reaches its author once in its minute; ticks go on; a tick leaves no lock behind |
| Reminder service (`src/src/reminder/service.py:34-118`) | tables `reminders`, `reminder_recipients` | create, add recipient, cancel, mark done | the author's deletion ends the reminder; nobody else's does |
| Subscriptions (`service.py:198-254`) | tables `subscribers`, `subscription_events` | subscribe, unsubscribe, history, counter | a row exists exactly when the last event says so; a user's update touches that user's row |
| Broadcasts (`service.py:121-195`) | tables `broadcasts`, `broadcast_recipients` | create, send with retries | only subscribers receive; the report tells what happened; every broadcast ends |
| Unit of work (`src/src/core/uow/__init__.py`) | an SQLAlchemy session, one SQLite transaction | commit or roll back on exit, only when it owns the session | all of a handler's writes become visible, or none |
| Dialog (`src/src/reminder/handlers.py`) | FSM state and data per user, in Redis | keyboards, texts, the order of the routes | what is created is what was entered |
| Life cycle (`src/bot.py`) | tasks, signal handlers, the shutdown event; the webhook at Telegram | start, serve, signal, stop, in two modes | nothing is served unprepared; what is sent to a process that serves is not thrown away; in webhook mode a request to stop is followed |
| Admin gate (`src/src/core/auth.py`, `src/src/admin/handlers.py`) | authorised users, failed attempts, in memory; "asked for the password", in Redis | password dialog, `admin_only` | only who gave the configured password gets behind it; guesses are limited |
| Throttling (`src/src/core/throttling.py`) | one Redis key per user | GET and SET around every message | messages of a user are let through an interval apart; what is dropped was preceded by one that was not |
| Error handler (`src/src/core/errors.py`) | none | count, log (`RetryMiddleware` is registered nowhere) | an error stops nothing else |
| Cache (`src/src/core/cache.py`) | keys in the same Redis database, a dictionary | get, set, delete, clear | called by nothing in the program |
| Repository gates (`src/scripts/check-coverage.py`, `src/scripts/check-repo-contract.py`, `src/.github/validate_compose.py`) | none | read files, exit 0, 1 or 2 | green means that what is checked holds |
| Callback data, configuration, metrics, logging, tracing, Sentry, texts | none | pure functions, output | |

### 1.2 How they interact

* Handlers, the tick and a broadcast share one SQLite file. It has one write lock, taken by
  the first INSERT, UPDATE or DELETE of a transaction and kept until COMMIT or ROLLBACK;
  whoever waits too long gets "database is locked". Reads before the first write are
  statements of their own.
* The tick wraps a session it opened itself in a `UnitOfWork`, which then does not own it
  and never commits.
* The tick's third loop sends whatever `broadcast_recipients` rows are committed and
  pending; only a broadcast writes such rows.
* An update is routed by the FSM state read when it arrives. Its handler then awaits Redis,
  Telegram and SQLite one after the other, with other updates in between.
* The FSM state survives the process (Redis), the admin gate and the minute guard do not.
* A process leaves to the next one its tables, its Redis keys, a webhook it did not take
  back, and the updates Telegram still keeps.
* APScheduler keeps its job in the same SQLite file, through a synchronous engine of its own,
  and writes the next run time there at every wakeup, before it sets its timer again.
* The throttle stands in front of every message handler and of what it awaits; its keys, in
  Redis, outlive the process, the messages on their way through it do not.

### 1.3 What is hard here

Interleaved handlers of one user; rows and keys read before the write transaction begins; a
write lock held across network sends; a crash between a send and its record; a retry after
an error that hid a delivery; a clock that moves on while a tick sends; keyboards of old
messages; signals that change hands while a process starts; a webhook left by a process that
died; two messages between one GET and SET; a timer that is set only if a write succeeds.
`PROJECT.json` lists each at its line under "hazards", with the
properties that cover it or the reason why none does.

## 2. Modules

| module | models | abstract specification | proofs |
|---|---|---|---|
| `Calendar`, `ReminderTable` | minutes, weekdays, the rows and the two queries of the tick | | |
| `ReminderScheduler` | `scheduler_tick` and the wakeups that start it, against the handlers, another writer, the clock, crashes | `ReminderPromise` | `ReminderSchedulerProofs` |
| `Subscriptions` | subscribe and unsubscribe, cut at their statements | `SubscriptionLedger` | `SubscriptionsProofs` |
| `BroadcastDelivery` | `create_broadcast`, `send_broadcast`, `_send_with_retry` | `BroadcastPromise` | `BroadcastDeliveryProofs` |
| `Dialog` | the FSM of one user, the admin gate in front of broadcasts | | `DialogProofs` |
| `Lifecycle` | `bot.py` in both modes, signals, aiogram's polling task, process after process | | `LifecycleProofs` |
| `Throttling` | extends `Lifecycle`: delivered messages on their way through the throttle | | `ThrottlingProofs` |
| `AdminGate` | extends `Throttling`: the password dialog in front of the process's gate | | `AdminGateProofs` |
| `ExitCodes`, `CoverageFloors`, `RepoContract`, `ComposeGate` | the three scripts CI trusts, as functions from what they read to an exit code | `Covered`, `Honours` | `GateProofs` |

`MC...` modules only give the constants of the small instances. An operator whose comment
begins with "Mutated form" is a plausible mistake in the definition that follows it: each
property has one that breaks it.

**ReminderScheduler.** `pc` is the await at which the tick stands; `due`, `audience`,
`current` and `todo` are its loop variables; `marked` holds the UPDATEs of `mark_done` that
no commit follows; `sentMinute` is `_RECURRING_SENT_MINUTE`. `SendTo` is one
`send_callback`, whether it returns or raises, since both loops only count an exception.
`CancelReminder` changes nothing: `cancel_reminder` reads `reminder.user_id`, which the
model class does not have, and the `AttributeError` rolls back. `attempts`, `completed` and
`deleteAsked` are history, read by properties only. `timer` says that APScheduler has a next
wakeup before it. A wakeup with no tick running starts one (`StartTick`), one during a tick
does not (`SkipTick`, `max_instances=1`), and both end with the UPDATE of the job in the same
database file. That UPDATE is synchronous: while it waits, the event loop stands still, so a
write transaction that is open in this process stays open, the UPDATE fails with "database is
locked", and the timer is not set again (`Rearmed`). Only the next process has one.

**Subscriptions.** `rows` and `journal` are committed, `draftRows` and `draftJournal` are
what the owner of `lock` sees. A request moves from its SELECT (`seen`) over the flush and
`events.record` to the DELETE and the COMMIT. Keys are SQLite's `max + 1`, so the key of a
deleted last row is given again; the flush of an unchanged row writes nothing; the flush of
a row that is gone fails. `manner` is fixed at the start: patient users wait for one answer
before they press again, hasty ones do not.

**BroadcastDelivery.** Per broadcast: `pc`, the users still to be sent to, the current user
and the tries, the rows and totals of its open transaction. `FloodControl` is
`TelegramRetryAfter`, `NetworkError` leaves open whether the text arrived (`copies`), and
`SendFails` is any other exception, the one after the last try included. `report` is what
its COMMIT makes visible.

**Dialog.** `state` and `data` are the two Redis keys; a handler's `pc` is the call it
awaits next, `local` the data it read last, `shown` the message whose keyboard it edits.
`update_data` is `GetData` and `SetData`, `clear` is `ClearState` and `ClearData`, and
`Asks` (the next question) comes before `SetState`, as in the code. `MessageRoute` is the
order of registration: menu texts registered behind the reminder states are taken as texts
in them. `orderly` is fixed at the start: an orderly user waits and answers the last
question, repeats an answer that got no reaction, and after `/start` insists on it; a hasty
one types and presses anything the chat allows, also while handlers are in flight. The
handlers of `admin/handlers.py` are not there because they are never reached: the reminder
router is included first (`src/src/reminder/__init__.py:10-11`).
`created` and `broadcast` are what the dialog has inserted and committed since it was opened.

**Lifecycle.** Each of the two functions of `bot.py` is a `Script`, a list of awaited steps,
and `pc` is the position in it. `signals` says who handles SIGTERM and SIGINT: the default
action, the event, or `start_polling`, which replaces the handlers when it begins. `polling`
is the task that `asyncio.wait` waits for. `Die` is an exception of the current step or a
kill; `Exit` resets what a process owns and leaves `tables`, `hook` and `update`. The next
process may run in the other mode, which is a change of `WEBHOOK_URL`. `fresh` is history:
the updates sent since the process began to wait. `Scheduler.stop()` is not a step because
nobody awaits it. `StopPolling` ends the process: behind `Wait` no polling runs, and
`stop_polling` raises then, so the last two steps of that script are never taken.

**Throttling.** An update that `Deliver` hands over moves from "get" over "set" to "through",
or is "dropped"; `read` is the time the middleware read before its first await. A Redis call
that raises lets the message through, and a SET whose answer is lost may have been executed.
`Besides` is any other step of `Lifecycle`; one that ends the process loses the messages on
their way, while the stamp, in Redis, stays. `excused` is history: the messages of which the
interval says nothing, because they overlapped between GET and SET, Redis failed, or the GET
took as long as the interval. The key contains `handler.__name__`, which is the same for
every handler: aiogram wraps them all in one function.

**AdminGate.** Both routers register a handler for "admin:password", and `register_routers`
includes the reminder router first (`src/src/reminder/__init__.py:10-11`), so `RightPassword`
and `WrongPassword` are the handler in `handlers.py`, which compares without asking the gate.
The one in `admin/handlers.py`, the only caller of `is_throttled` and `record_failure`, is
never called and not modelled. `tries` is history: the comparisons with a wrong password.
`ServiceStep` is any step of the modules below; one that ends the process empties the gate,
while `asked`, in Redis, stays.

**The gates.** Reports, repositories and compose files are records of what the rules ask
about. Every early return keeps its place in `CoverageExit`, `ContractExit` and
`ComposeExit`. Nothing runs beside these scripts, so they have theorems and no runs.

## 3. Runs

| run | instance | asks | answer |
|---|---|---|---|
| `scheduler_safety` | two reminders, two users, three minutes of two weekdays, one crash | type, once per minute, nobody left out, the lock belongs to marks, refinement of `ReminderPromise` | holds, 1,337,306 states |
| `scheduler_liveness` | one-offs, one crash | a due one-off is attempted for its audience as long as the timer lives; the tick returns the lock | holds, 222,171 |
| `scheduler_stops` | two one-offs, two minutes, no crash | ticks go on | violated: a wakeup during a write transaction |
| `scheduler_one_off` | no crash | a completed one-off is not repeated | violated: `mark_done` is never committed |
| `scheduler_deletion` | no crash | a deletion ends the reminder | violated: `AttributeError` in `cancel_reminder` |
| `subscriptions` | two users, patient or hasty, three handlers, four events | type, rows are journaled, every update ends; for patient users: journal and rows agree, refinement of `SubscriptionLedger`, own row only | holds, 209,768 |
| `subscriptions_foreign_row` | two handlers, five events | own row only, whoever presses what | violated: a reused key |
| `broadcast` | two broadcasts, two users, two tries | type, totals, nothing pending, bounded copies, only subscribers receive, refinement of `BroadcastPromise`, every broadcast ends | holds, 986,700 |
| `dialog` | two handlers, two keyboards, six updates of a hasty user, two mishaps of an orderly one | type, the state has its data, created as entered, one-offs have dates, broadcasts pass the gate, work done twice only after a mishap | holds, 1,616,037 |
| `dialog_day_lost` | one handler, no mishap | recurring reminders have a weekday | violated: two type keyboards |
| `service` | two processes after each other, in either mode; two messages of a user in three half seconds, one wrong password | type, one way in, nothing served without tables, the site outlives the webhook, no served update dropped, messages an interval apart, what is dropped has a cause, no default password, a webhook process stops when asked | holds, 1,368,143 |
| `attempt_limit` | the same with one message, a limit of two in two half seconds, three tries | at most two wrong passwords are compared in a window | violated: the handler that is called does not ask the gate |

### 3.1 Bounds, and why they are enough

* Scheduler: `MaxClock` 2 with days of two minutes gives three minutes, two of one weekday
  and one of the next, so that a tick can overrun a minute and a weekday; two reminders let
  one tick work on one while the other changes; a one-off, a weekly one and a weekly one
  without a day are the shapes the dialog can hand over. One crash is enough to forget the
  minute guard once.
* Subscriptions: the lost row and the reused key need two overlapping handlers of one user,
  the second also another user's insert in between; the third handler adds one that overlaps
  with both. `MaxEvents` counts the events of handlers in flight as well.
* Broadcast: two tries are a first and a last one; the code's three add a middle one that
  differs in nothing, and the theorems hold for every `MaxRetries`. The second broadcast
  waits for the first one's lock.
* Dialog: six updates are a whole one-off dialog and one update that overlaps with its last
  step. The orderly user's updates are not bounded. Deadlock is not looked for in these
  runs: a hasty user whose updates are used up really is at the end.
* Service: the hazards between processes need a first one that dies and a second one that
  finds what it left; a third finds nothing else. `Rate` 1 and `Second` 2 are the half second
  of `bot.py`, of which `int(rate_limit * 2)` cuts nothing off; three moments of that length
  let a second message come before, at and after the end of the first one's interval.
  `MaxTries` 1 is enough where no property counts tries; `attempt_limit` needs one more than
  the limit. The code's window of 300 s and limit of 5 are both 2 there.
* Symmetry is used over users, keys, handlers and values where nothing orders them, and in
  no run with a liveness property.

### 3.2 Fairness

* `ReminderScheduler`: weak fairness of starting a tick (APScheduler's interval), of a
  tick's steps (the event loop resumes every await), of `Restart` (the container's restart
  policy), of the clock, and of the other writer's end (a broadcast is a finite loop). None
  of the handlers is fair. `OneOffReachesEveryone` in addition assumes that other writers
  leave the database alone from some time on, because otherwise "database is locked" may meet
  every tick before its later reminders, and that APScheduler's timer is set again and again.
  `StartTick` is fair only while it is set, and nothing in the code sees to that but a
  restart: the run `scheduler_stops` shows a process in which it is lost. A tick can
  also take the timer away by itself, if a wakeup finds it behind its first `mark_done`; the
  hypothesis then says that the process is restarted.
* `Subscriptions`, `BroadcastDelivery`: weak fairness of the steps of each handler, nothing
  of those who hold the lock: SQLite's wait has a limit (`LockTimeout`), which is why every
  update still ends.
* `AdminGate` over `Lifecycle`: weak fairness of `Advance`, the steps of `main` and of the
  polling task: the event loop resumes both. None for signals, deaths, ticks, users,
  Telegram or time. `StopsWhenAsked` therefore starts where the process has been asked. It is
  a claim of the webhook mode only; a poller need not end (section 4).
* `Dialog` and `Throttling` claim no liveness.

## 4. Where code and text disagree

Each of the first six is the counterexample of a run of its own. The models of the passing
runs contain the same behaviour: nothing was corrected in them.

1. `mark_done` is never committed (`scheduler.py:109`): a sent one-off is sent again by
   every tick; README.md:34 says "One-off and recurring reminders". Run `scheduler_one_off`.
2. `cancel_reminder` reads an attribute that does not exist (`service.py:87`): no author can
   delete a reminder; `service.py:85` says the author can. Run `scheduler_deletion`.
3. A stale unsubscribe deletes the row of the user who was given the same key
   (`service.py:236`, `service.py:231`). Run `subscriptions_foreign_row`.
4. A second type keyboard yields a recurring reminder without a weekday (`handlers.py:126`),
   which no query of the scheduler returns (README.md:34). Run `dialog_day_lost`.
5. A wakeup of APScheduler during a write transaction of the bot, of a broadcast or of a tick
   past its first `mark_done`, is the last one of the process (`scheduler.py:43`);
   `docs/ARCHITECTURE.md:37` says "Scheduler logs tick failures and continues.", and line 19
   that it "ticks every `scheduler_interval_seconds`". Run `scheduler_stops`.
6. The attempt limit that `auth.py:36-38` says is "actually enforced" is not: the handler
   that asks the gate is registered behind the one that does not
   (`src/src/reminder/__init__.py:10`). Run `attempt_limit`.

Met while modelling, and without a run of their own:

* A tick that sends through a minute loses that minute's recurring reminders
  (`scheduler.py:114`); README.md:37 says drift is kept small.
* An overlapping unsubscribe removes the row of a subscription that is confirmed and
  journaled (`service.py:212`, `handlers.py:60`): `LastEventTells` fails for hasty users in
  the instance of run `subscriptions`, which is why `JournalTellsRows` claims it for patient
  users only. No property of a passing run says more of such an overlap than
  `RowsAreJournaled`.
* A poller that is signalled once polling has begun stops polling and goes on waiting for an
  event that signal did not set (`bot.py:94`); it ends by itself only if another signal came
  before polling began. `stop_polling` then raises, so the session and the site are not
  closed in that mode (`bot.py:100-102`). No run asks how a poller ends, since no text
  says it.
* Old buttons and overlapping updates make a hasty user's reminder from answers to different
  questions (`handlers.py:124-126`). `CreatesWhatWasEntered` and `StateHasItsData` are
  claims for an orderly user; for a hasty one `OneOffHasDate` is what is left.
* `Scheduler.stop` is a coroutine function called without `await` (`bot.py:73`,
  `bot.py:99`).
* `docs/ARCHITECTURE.md:36` says that `RetryMiddleware` retries transient errors; it is
  registered nowhere, and so nothing is. The error handler's flood notice looks for
  `event.message`, which the event aiogram passes does not have, and is suppressed.
* `check-repo-contract.py:9-11` reserves exit code 2 for a contract that cannot be reached;
  a missing one raises `SystemExit` with a text, which exits 1. Its branch for "nothing was
  checked" is dead (`CannotVerifyMeansNoRoot`): two assertions are always made.
* `int(rate_limit * 2)` (`throttling.py`) cuts a fraction off: with a rate limit that is not
  a multiple of half a second a key may expire before twice the interval, and
  `SpacedWhenExact` says so in its assumption.
* `validate_compose.py` repeats at lines 174, 182 and 190 what it refused above them
  (`RepeatedChecksHold`), and empty `ports` pass.

## 5. Theorems

TLAPS proves these for every value of the constants, from the assumptions named in the
modules and from nothing else.

* `ReminderSchedulerProofs`: `TypeCorrect`, `OncePerMinute`, `WriteLock`,
  `ImplementsPromise`. The inductive invariant `SchedulerInv` says that what the tick has
  loaded are rows that exist (`LoadedRows`), with an audience that is part of the present
  one (`LoadedAudience`: recipients are only added), that the visited row is one of them
  (`VisitedRow`), and that the guard of a minute is set before the attempts of that minute
  (`MinuteGuard`). Without the last one `RecurringOncePerMinute` is not inductive: it says
  nothing of ticks before. `NobodyIsLeftOut` adds `LeavingInv`: a reminder that was loaded
  is still to be visited, being sent, or has been sent to all it was loaded with
  (`LoadedKept`, `VisitsLoaded`), whoever is no longer in `todo` has been attempted
  (`SentSoFar`), and a minute guard tells of an attempt made or about to be made
  (`GuardTells`). `TicksAreShort` is the part of `TickReturnsWriteLock` that needs no
  fairness: `TickEffort` counts the steps a tick has left at most, one turn of
  `|Users| + 2` per reminder still to be visited; it falls with every step of the tick and
  rises with nothing but the start of the next, because both loops go through what was read
  at the start and not through what handlers insert meanwhile. The tick has the lock only
  while the number is positive (`LockInTick`). It assumes finite tables (`SizeAssumption`).
* `SubscriptionsProofs`: `TypeCorrect` and `RowsJournaled` for any overlap,
  from `OverlapInv` (drafts are journaled too, and who writes owns the lock).
  `PatientJournal`, `PatientOwnRow` and `PatientLedger` are about patient users; `PatientInv`
  relates what a request has read to the committed rows, which holds because no other
  request of the same user is in flight. Without the assumption the code violates the first
  two (section 4).
* `BroadcastDeliveryProofs`: `TypeCorrect`, `NonePending`, `BoundedCopies`,
  `OnlySubscribers`, `ImplementsPromise`. `BroadcastInv` ties the rows of the open
  transaction to the users already served, and the subscribers to the audience for as long
  as the broadcast has the write lock: that lock, and no check in the loop, keeps a user who
  leaves meanwhile out of the race. `TotalsAreRowsCounted` counts the rows of a broadcast in
  any finite set of users (`CountInv`): each turn of the loop moves one user from pending to
  one of the two totals. `BroadcastsAreShort` is the part of `BroadcastsEnd` that needs no
  fairness: `Effort(b)`, a number that is positive exactly while the handler is in flight,
  falls with every step of the handler and rises only with the text that starts it, and is at most
  `(MaxRetries + 2) * |Users| + 2` when the broadcast gets the write lock. That bounds how
  often the handler can be resumed with the lock in its hands, in the number of users; how
  long one pause of flood control lasts is Telegram's choice.
* `DialogProofs`: `DialogTypeCorrect`, `OneOffsHaveDates`, `BroadcastsAlwaysPassTheGate`
  for any user, however many handlers overlap. `Shapes` says which handler can stand at which
  call and with what it was called. That broadcasts pass the gate is inductive
  beside it: `broadcast_text` starts at the gate whatever state routed the text to it, only
  the end of the process takes an authorisation away, and it ends every handler. `AskedForTimeOfWholeReminder` is
  about the orderly user: one handler is in flight (`Alone`), what it holds is what storage
  holds (`Busy`), and no state that takes an answer is left while `type` or the day can be
  missing (`Resting`). For a hasty user the run `dialog_day_lost` has the counterexample.
  `RepeatsFollowMishaps` adds `Unrepeated`: nothing is created on the way to an insert, and a
  dialog that has done its work is open at most as often as a mishap has happened: those
  that end a handler before `clear()` are what leaves it open. A hasty user, and Telegram's copies after a broadcast that failed to
  commit, are outside of it: two times, or two texts, in flight at once are both taken.
  `CreatesWhatWasEnteredAlways` compares `data` with `entered`, which no invariant above
  does. They differ while an answer is on its way between `get_data` and `set_data`, and
  `Recalls` says by how much at each of the two calls; `Recorded` says that they agree
  otherwise, for as long as a question is open, and that the state asks what was asked last.
  Without that second part a text could answer the question of another state. It holds for
  an orderly user before the first mishap: a failing Redis leaves an answer noted and not
  stored. `OrderlyRemindersHaveDays` needs no such condition: `Resting` already keeps the
  state of the time out of reach of data without a day (`Dated` carries it to the insert).
* `LifecycleProofs`: `TypeCorrect`, `OneWayInAlways`, `NothingRunsUnpreparedEver`,
  `SiteOutlivesHookAlways`, `ServedIsNotDroppedEver`, for any number of processes and
  updates. `LifecycleInv` says what each position of a script has set up (`TablesExist`,
  `Hooked`, `Waited`) and that what a process owns is there only while it runs (`Owned`).
* `ThrottlingProofs`: `ThrottleKeepsLifecycle` (every step is a step of the process or leaves
  it alone, so the theorems of `Lifecycle` hold beside the throttle), `ThrottleTypeCorrect`,
  `DroppedHasCauseAlways` and `SpacedWhenExact`, which assumes that twice the rate is a whole
  number of seconds. `DroppedHasCause` rests on who wrote the stamp: each stamp is the time a
  message of that user read that was let through (`Signed`), and a message that was let
  through stays so. `SpacingInv` says that the stamp is as young as every message let through
  that is not excused and a message on its way as young as those, by a whole interval once it
  has passed the GET, and that of two on their way the interval says nothing.
* `AdminGateProofs`: `GateKeepsThrottle`, and from it `DefaultPasswordNeverUsed`: a process
  that runs was started with a password (`PasswordSet`). `GateTypeCorrect` from `GateInv`,
  which has the finite sets of tries that a count needs.
* `GateProofs`: exit code 0 of `check-coverage.py` is given if and only if every listed
  module was measured and meets its floor (`GreenMeansCovered`), and no other module's
  coverage makes up for one that does not (`NoPermissionBought`); a green contract check
  means that the repository honours the contract (`GreenMeansHonoured`); a compose file that
  passes names its image by a tag, has every variable and no certificate, and publishes its
  ports on the loopback only (`PassMeansDeployable`).

Model-checked only: the five liveness properties (`OneOffReachesEveryone`,
`TickReturnsWriteLock`, `UpdatesEnd`, `BroadcastsEnd`, `StopsWhenAsked`), which need
fairness and ENABLED, and the violations, which are single counterexamples. Every invariant
and every action property of the passing runs is a theorem.

## 6. Not modelled

* Job store: of APScheduler's table only the write at a wakeup is modelled. Misfires are not:
  `coalesce` and `misfire_grace_time` choose between ticks that are all the same.
* The cache is initialised at start and called by nothing; `RetryMiddleware` is registered
  nowhere; the error handler's counters and flood notice are output. That a raised exception
  ends there is `CallFails` of `Dialog`.
* The admin router's password handler, `is_throttled` and `record_failure`: never called.
* Admin statistics, menus that only read, callback data, configuration, container, metrics,
  logging, tracing, Sentry: no state that anything here depends on, or read once at start.
* `backup_database`, `migrations`, the FastAPI application of `core/webhook.py` and the
  payments shim are called by nothing in the program.
* Text: no decision looks at it. Time zones: the program has none per user; typed times are
  taken as UTC, and the models count minutes.
* An order of rows: no query of the tick has an ORDER BY.
* PostgreSQL, named in `docs/ARCHITECTURE.md`: the code opens SQLite files only.
* Unit of work and the database file are modelled where they are used (sessions, COMMIT,
  ROLLBACK, the write lock); the methods nothing calls are not.
* What a process logs, and how the gates word what they find.

## 7. Plan

1. The same for the handlers: numbers that fall, as `TickEffort` and `Effort` do, for a
   handler of `Subscriptions` (for `UpdatesEnd`), and the guards of its steps written out,
   to prove that one of them always holds.
2. `Dialog` with `BroadcastDelivery`: what subscribers receive of a broadcast whose text is
   sent again, by a hasty user or after a failed COMMIT.
3. Callback data as operators checked against a reference definition.
4. `Throttling` in front of `Dialog`: which overlaps half a second leaves possible.
5. `ReminderScheduler` with `BroadcastDelivery`: how long a broadcast's lock must be for a
   wakeup to meet it, and what of the next process's first tick.
