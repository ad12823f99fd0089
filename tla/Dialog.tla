--------------------------------- MODULE Dialog ---------------------------------
(***************************************************************************)
(* One user's conversation with the bot: the finite state machine of the   *)
(* dialog handlers, kept in Redis, and the admin gate, kept in memory.     *)
(*                                                                         *)
(* An update is routed by the state read when it arrives, and its handler  *)
(* then awaits one storage, Telegram or database call after the other.     *)
(* update_data is a get and a set, clear is a set_state and a set_data,    *)
(* and a question is sent before the state that takes its answer is set.   *)
(* Updates of one user are not serialised, and the inline keyboard of an   *)
(* older message stays pressable for as long as the message shows it.      *)
(*                                                                         *)
(* Dialogs of different users share nothing but the database.              *)
(***************************************************************************)
EXTENDS Naturals, Sequences

CONSTANTS
    Values,       \* texts, dates, times and weekdays are told apart by these
    Handlers,     \* handler invocations that may be in flight at once
    Messages,     \* bot messages that may show an inline keyboard at once
    NULL,
    MaxUpdates,   \* bound: updates a hasty user sends
    MaxMishaps    \* bound: how often Redis fails or the process dies, by `orderly`

ASSUME BoundsAssumption == MaxUpdates \in Nat /\ MaxMishaps \in [BOOLEAN -> Nat]

VARIABLES
    state, data,  \* the FSM storage
    authorized,   \* the user is in admin_gate._authorized
    keyboards,    \* the chat: the inline keyboard each bot message shows
    pc, route,    \* per handler: its next awaited call; which handler it is
    input,        \* the message or weekday it was called with
    shown,        \* the bot message it was pressed on or will send
    local,        \* the FSM data it read last
    created,      \* rows create_reminder inserted since the last "add"
    broadcast,    \* broadcasts an orderly user had committed since the last "broadcasts"
    orderly,      \* the user waits, and answers the last question they saw
    asked,        \* that question
    entered,      \* history: what an orderly user answered so far
    updates, mishaps

storageVars == <<state, data>>
callVars == <<pc, route, input, shown, local>>
userVars == <<orderly, asked, entered, updates>>
vars == <<state, data, authorized, keyboards, pc, route, input, shown, local, created,
          broadcast, orderly, asked, entered, updates, mishaps>>

-----------------------------------------------------------------------------
Typed == [kind : {"word", "date", "time"}, value : Values]
Menu == [kind : {"start", "add", "broadcasts", "admin", "password"}, value : {NULL}]
Message == Typed \cup Menu
Button == [kind : {"once", "recurring"}, value : {NULL}] \cup [kind : {"day"}, value : Values]

ReminderType == {"once", "recurring"}
Data ==
    [type : ReminderType \cup {NULL}, cron_day : Values \cup {NULL},
     text : Message \cup {NULL}, fire_at : Values \cup {NULL}]
EmptyData == [type |-> NULL, cron_day |-> NULL, text |-> NULL, fire_at |-> NULL]
Reminder ==
    [type : ReminderType, text : Message, fire_at : Values \cup {NULL},
     cron_day : Values \cup {NULL}, time : Values]

States == {"none", "reminder:text", "reminder:date", "reminder:time", "broadcast.text",
           "admin:password"}
Route ==
    {"cmd_start", "add_reminder_start", "once_type", "recurring_type", "day_selected",
     "text_entered", "date_entered", "time_entered", "broadcasts", "broadcast_text",
     "admin_entry", "admin_password"}
Call == {"get", "set", "reread", "read", "gate", "verify", "ask", "set_state", "sorry",
         "create", "send", "clear_state", "clear_data", "answer"}

ASSUME NullAssumption ==
    NULL \notin Values /\ NULL \notin Message /\ NULL \notin ReminderType /\ NULL \notin Route

\* The message handlers, in the order of their registration: those before the
\* reminder states, the reminder states, what is registered behind them.
Early == [start |-> "cmd_start", add |-> "add_reminder_start"]
ReminderStates == [s \in {"reminder:text", "reminder:date", "reminder:time"} |->
    IF s = "reminder:text" THEN "text_entered"
    ELSE IF s = "reminder:date" THEN "date_entered" ELSE "time_entered"]

MessageRoute(m, s) ==
    IF m.kind \in DOMAIN Early THEN Early[m.kind]
    ELSE IF s \in DOMAIN ReminderStates THEN ReminderStates[s]
    ELSE IF m.kind = "broadcasts" THEN "broadcasts"
    ELSE IF s = "broadcast.text" THEN "broadcast_text"
    ELSE IF m.kind = "admin" THEN "admin_entry"
    ELSE IF s = "admin:password" THEN "admin_password" ELSE NULL

ButtonRoute == [once |-> "once_type", recurring |-> "recurring_type", day |-> "day_selected"]
KeyboardOf == [once |-> "types", recurring |-> "types", day |-> "days"]

FirstCall ==
    [cmd_start |-> "clear_state", add_reminder_start |-> "ask", once_type |-> "get",
     recurring_type |-> "get", day_selected |-> "get", text_entered |-> "get",
     date_entered |-> "get", time_entered |-> "read", broadcasts |-> "gate",
     broadcast_text |-> "gate", admin_entry |-> "ask", admin_password |-> "verify"]

-----------------------------------------------------------------------------
Init ==
    /\ state = "none" /\ data = EmptyData
    /\ authorized = FALSE
    /\ keyboards = [k \in Messages |-> "none"]
    /\ pc = [h \in Handlers |-> "idle"]
    /\ route = [h \in Handlers |-> NULL]
    /\ input = [h \in Handlers |-> NULL]
    /\ shown = [h \in Handlers |-> NULL]
    /\ local = [h \in Handlers |-> EmptyData]
    /\ created = <<>> /\ broadcast = 0
    /\ orderly \in BOOLEAN
    /\ asked = "nothing"
    /\ entered = EmptyData
    /\ updates = 0 /\ mishaps = 0

At(h, call) == pc[h] = call
Goto(h, call) == pc' = [pc EXCEPT ![h] = call] /\ UNCHANGED <<route, input, shown>>
Ends(h) ==
    /\ pc' = [pc EXCEPT ![h] = "idle"]
    /\ route' = [route EXCEPT ![h] = NULL]
    /\ input' = [input EXCEPT ![h] = NULL]
    /\ shown' = [shown EXCEPT ![h] = NULL]
    /\ local' = [local EXCEPT ![h] = EmptyData]

\* The dispatcher calls handler r for update u, sent on bot message k if any.
Dispatch(h, r, u, k) ==
    /\ At(h, "idle")
    /\ pc' = [pc EXCEPT ![h] = FirstCall[r]]
    /\ route' = [route EXCEPT ![h] = r]
    /\ input' = [input EXCEPT ![h] = u]
    /\ shown' = [shown EXCEPT ![h] = k]
    /\ UNCHANGED local

-----------------------------------------------------------------------------
(* The user.  A hasty one types and presses whatever the chat allows.      *)

Answers == [text |-> {"word", "date", "time"}, date |-> {"word", "date", "time"},
            time |-> {"word", "date", "time"}, broadcast |-> {"word"},
            password |-> {"word", "password"}, nothing |-> {"add", "broadcasts", "admin"},
            type |-> {"once", "recurring"}, day |-> {"day"}, start |-> {}]

MayAct(kind) ==
    IF orderly
    THEN /\ \A h \in Handlers : At(h, "idle")
         /\ kind \in Answers[asked] \cup {"start"}
         /\ UNCHANGED updates
    ELSE updates < MaxUpdates /\ updates' = updates + 1

\* What an orderly user has now answered.
Noted(u) ==
    CASE ~orderly -> entered
      [] orderly /\ u.kind = "add" -> EmptyData
      [] orderly /\ u.kind \in ReminderType -> [entered EXCEPT !.type = u.kind]
      [] orderly /\ u.kind = "day" -> [entered EXCEPT !.cron_day = u.value]
      [] orderly /\ asked = "text" /\ u \in Typed -> [entered EXCEPT !.text = u]
      [] orderly /\ asked = "date" /\ u.kind = "date" -> [entered EXCEPT !.fire_at = u.value]
      [] OTHER -> entered

SendText(h, m) ==
    /\ MessageRoute(m, state) # NULL
    /\ MayAct(m.kind)
    /\ \E k \in IF m.kind = "add" THEN {k \in Messages : keyboards[k] = "none"} ELSE {NULL} :
           Dispatch(h, MessageRoute(m, state), m, k)
    /\ asked' = IF orderly /\ m.kind = "start" THEN "start" ELSE asked
    /\ entered' = Noted(m)
    /\ created' = IF m.kind = "add" THEN <<>> ELSE created
    /\ broadcast' = IF m.kind = "broadcasts" THEN 0 ELSE broadcast
    /\ UNCHANGED <<storageVars, authorized, keyboards, orderly, mishaps>>

PressButton(h, k, b) ==
    /\ keyboards[k] = KeyboardOf[b.kind]
    /\ MayAct(b.kind)
    /\ Dispatch(h, ButtonRoute[b.kind], b, k)
    /\ entered' = Noted(b)
    /\ UNCHANGED <<storageVars, authorized, keyboards, created, broadcast, orderly, asked, mishaps>>

-----------------------------------------------------------------------------
(* update_data(field=...), then the question, then the state.              *)

Field == [once_type |-> "type", recurring_type |-> "type", day_selected |-> "cron_day",
          text_entered |-> "text", date_entered |-> "fire_at"]

\* Mutated form of Given: day_selected keeps the whole callback data.
GivenUnsplit(h) ==
    IF route[h] \in {"text_entered", "day_selected"} THEN input[h]
    ELSE IF route[h] = "date_entered" THEN input[h].value ELSE input[h].kind

Given(h) ==
    IF route[h] = "text_entered" THEN input[h]
    ELSE IF route[h] \in {"day_selected", "date_entered"} THEN input[h].value ELSE input[h].kind

\* strptime, and the split of HH:MM, accept what was typed.
Parses(h) ==
    /\ route[h] = "date_entered" => input[h].kind = "date"
    /\ route[h] = "time_entered" => input[h].kind = "time"

\* "Неверный формат": answered, and nothing else happens.
Reject(h) ==
    /\ pc[h] \in {"get", "read"} /\ ~Parses(h)
    /\ Ends(h)
    /\ UNCHANGED <<storageVars, authorized, keyboards, created, broadcast, userVars, mishaps>>

\* text_entered reads the data again to choose its question.
GetData(h) ==
    /\ pc[h] \in {"get", "reread"} /\ Parses(h)
    /\ local' = [local EXCEPT ![h] = data]
    /\ Goto(h, IF At(h, "get") THEN "set" ELSE "ask")
    /\ UNCHANGED <<storageVars, authorized, keyboards, created, broadcast, userVars, mishaps>>

SetData(h) ==
    /\ At(h, "set")
    /\ data' = [local[h] EXCEPT ![Field[route[h]]] = Given(h)]
    /\ Goto(h, IF route[h] = "text_entered" THEN "reread" ELSE "ask")
    /\ UNCHANGED <<state, authorized, keyboards, local, created, broadcast, userVars, mishaps>>

Question(h) ==
    IF route[h] = "text_entered"
    THEN IF local[h].type = "recurring" THEN "time" ELSE "date"
    ELSE [add_reminder_start |-> "type", once_type |-> "text", recurring_type |-> "day",
          day_selected |-> "text", date_entered |-> "time", broadcasts |-> "broadcast",
          admin_entry |-> "password"][route[h]]

\* The state that takes the answer; a type and a day are pressed in any state.
StateOf == [text |-> "reminder:text", date |-> "reminder:date", time |-> "reminder:time",
            broadcast |-> "broadcast.text", password |-> "admin:password"]

KeyboardAfter(q) == IF q = "type" THEN "types" ELSE IF q = "day" THEN "days" ELSE "none"

Asks(h) ==
    /\ At(h, "ask")
    /\ keyboards' = [k \in Messages |->
           IF k = shown[h] THEN KeyboardAfter(Question(h)) ELSE keyboards[k]]
    /\ asked' = IF orderly THEN Question(h) ELSE asked
    /\ IF Question(h) \in DOMAIN StateOf
       THEN Goto(h, "set_state") /\ UNCHANGED local ELSE Ends(h)
    /\ UNCHANGED <<storageVars, authorized, created, broadcast, orderly, entered, updates, mishaps>>

SetState(h) ==
    /\ At(h, "set_state")
    /\ state' = StateOf[Question(h)]
    /\ Ends(h)
    /\ UNCHANGED <<data, authorized, keyboards, created, broadcast, userVars, mishaps>>

-----------------------------------------------------------------------------
(* time_entered                                                            *)

Complete(d) ==
    d.text # NULL /\ d.type # NULL /\ (d.type = "once" => d.fire_at # NULL)

\* ReminderType(data["type"]) raises KeyError, with a text and without a type.
Raises(d) == d.text # NULL /\ d.type = NULL

ReadData(h) ==
    /\ At(h, "read") /\ Parses(h)
    /\ \/ Raises(data) /\ Ends(h)
       \/ /\ ~Raises(data)
          /\ Goto(h, IF Complete(data) THEN "create" ELSE "sorry")
          /\ local' = [local EXCEPT ![h] = data]
    /\ UNCHANGED <<storageVars, authorized, keyboards, created, broadcast, userVars, mishaps>>

NewReminder(d, time) ==
    [type |-> d.type, text |-> d.text,
     fire_at |-> IF d.type = "once" THEN d.fire_at ELSE NULL,
     cron_day |-> IF d.type = "once" THEN NULL ELSE d.cron_day, time |-> time]

\* Mutated forms of CreateReminder: it takes the values from a second get_data, ...
CreateReminderReread(h) ==
    /\ At(h, "create")
    /\ created' = Append(created, NewReminder([data EXCEPT !.type = local[h].type], input[h].value))
    /\ Goto(h, "clear_state")
    /\ UNCHANGED <<storageVars, authorized, keyboards, local, broadcast, userVars, mishaps>>

\* ... or the dialog is not cleared behind it.
CreateReminderUncleared(h) ==
    /\ At(h, "create")
    /\ created' = Append(created, NewReminder(local[h], input[h].value))
    /\ Goto(h, "answer")
    /\ UNCHANGED <<storageVars, authorized, keyboards, local, broadcast, userVars, mishaps>>

CreateReminder(h) ==
    /\ At(h, "create")
    /\ created' = Append(created, NewReminder(local[h], input[h].value))
    /\ Goto(h, "clear_state")
    /\ UNCHANGED <<storageVars, authorized, keyboards, local, broadcast, userVars, mishaps>>

\* "Сначала введите текст", "Сначала выберите дату"
Sorry(h) ==
    /\ At(h, "sorry")
    /\ asked' = IF orderly THEN "nothing" ELSE asked
    /\ Goto(h, "clear_state")
    /\ UNCHANGED <<storageVars, authorized, keyboards, local, created, broadcast, orderly, entered,
                   updates, mishaps>>

-----------------------------------------------------------------------------
(* state.clear(), and the handlers that end with it                        *)

\* Mutated form of ClearState: the data is cleared and the state is kept.
ClearStateNot(h) ==
    /\ At(h, "clear_state")
    /\ Goto(h, "clear_data")
    /\ UNCHANGED <<storageVars, authorized, keyboards, local, created, broadcast, userVars,
                   mishaps>>

ClearState(h) ==
    /\ At(h, "clear_state")
    /\ state' = "none"
    /\ Goto(h, "clear_data")
    /\ UNCHANGED <<data, authorized, keyboards, local, created, broadcast, userVars, mishaps>>

ClearData(h) ==
    /\ At(h, "clear_data")
    /\ data' = EmptyData
    /\ IF route[h] = "time_entered" /\ ~Complete(local[h])
       THEN Ends(h) ELSE Goto(h, "answer") /\ UNCHANGED local
    /\ UNCHANGED <<state, authorized, keyboards, created, broadcast, userVars, mishaps>>

AnswerArrives(h) ==
    /\ At(h, "answer")
    /\ asked' = IF orderly THEN "nothing" ELSE asked
    /\ Ends(h)
    /\ UNCHANGED <<storageVars, authorized, keyboards, created, broadcast, orderly, entered,
                   updates, mishaps>>

\* Mutated form of AdminOnly: `broadcast_text` trusts the state it was routed by.
AdminOnlyText(h) ==
    /\ At(h, "gate")
    /\ IF authorized \/ route[h] = "broadcast_text"
       THEN Goto(h, IF route[h] = "broadcasts" THEN "ask" ELSE "send") /\ UNCHANGED local
       ELSE Ends(h)
    /\ UNCHANGED <<storageVars, authorized, keyboards, created, broadcast, userVars, mishaps>>

\* admin_only: the handler of somebody who has not logged in does nothing.
AdminOnly(h) ==
    /\ At(h, "gate")
    /\ IF authorized
       THEN Goto(h, IF route[h] = "broadcasts" THEN "ask" ELSE "send") /\ UNCHANGED local
       ELSE Ends(h)
    /\ UNCHANGED <<storageVars, authorized, keyboards, created, broadcast, userVars, mishaps>>

\* Mutated form of SendBroadcast: the dialog is not cleared behind it.
SendBroadcastUncleared(h) ==
    /\ At(h, "send")
    /\ broadcast' = IF orderly THEN broadcast + 1 ELSE broadcast
    /\ Goto(h, "answer")
    /\ UNCHANGED <<storageVars, authorized, keyboards, local, created, userVars, mishaps>>

SendBroadcast(h) ==
    /\ At(h, "send")
    /\ broadcast' = IF orderly THEN broadcast + 1 ELSE broadcast
    /\ Goto(h, "clear_state")
    /\ UNCHANGED <<storageVars, authorized, keyboards, local, created, userVars, mishaps>>

AdminPassword(h) ==
    /\ At(h, "verify")
    /\ IF input[h].kind = "password"
       THEN authorized' = TRUE /\ Goto(h, "clear_state") /\ UNCHANGED local
       ELSE UNCHANGED authorized /\ Ends(h)
    /\ UNCHANGED <<storageVars, keyboards, created, broadcast, userVars, mishaps>>

-----------------------------------------------------------------------------
(* What goes wrong.  The error handler swallows what a handler raises.     *)

\* A Telegram call or a database transaction fails.
CallFails(h) ==
    /\ pc[h] \in {"ask", "sorry", "answer", "create", "send"}
    /\ Ends(h)
    /\ UNCHANGED <<storageVars, authorized, keyboards, created, broadcast, userVars, mishaps>>

StorageFails(h) ==
    /\ pc[h] \in {"get", "set", "reread", "read", "set_state", "clear_state", "clear_data"}
    /\ mishaps < MaxMishaps[orderly]
    /\ mishaps' = mishaps + 1
    /\ Ends(h)
    /\ UNCHANGED <<storageVars, authorized, keyboards, created, broadcast, userVars>>

\* The process dies and is started again; Redis keeps state and data.
Restart ==
    /\ mishaps < MaxMishaps[orderly]
    /\ mishaps' = mishaps + 1
    /\ authorized' = FALSE
    /\ pc' = [h \in Handlers |-> "idle"]
    /\ route' = [h \in Handlers |-> NULL]
    /\ input' = [h \in Handlers |-> NULL]
    /\ shown' = [h \in Handlers |-> NULL]
    /\ local' = [h \in Handlers |-> EmptyData]
    /\ UNCHANGED <<storageVars, keyboards, created, broadcast, userVars>>

Next ==
    \/ \E h \in Handlers, m \in Message : SendText(h, m)
    \/ \E h \in Handlers, k \in Messages, b \in Button : PressButton(h, k, b)
    \/ \E h \in Handlers :
           \/ Reject(h) \/ GetData(h) \/ SetData(h) \/ Asks(h) \/ SetState(h)
           \/ ReadData(h) \/ CreateReminder(h) \/ Sorry(h)
           \/ ClearState(h) \/ ClearData(h) \/ AnswerArrives(h)
           \/ AdminOnly(h) \/ SendBroadcast(h) \/ AdminPassword(h)
           \/ CallFails(h) \/ StorageFails(h)
    \/ Restart

Spec == Init /\ [][Next]_vars

-----------------------------------------------------------------------------
TypeOK ==
    /\ state \in States /\ data \in Data
    /\ authorized \in BOOLEAN
    /\ keyboards \in [Messages -> {"none", "types", "days"}]
    /\ pc \in [Handlers -> Call \cup {"idle"}]
    /\ route \in [Handlers -> Route \cup {NULL}]
    /\ input \in [Handlers -> Message \cup Button \cup {NULL}]
    /\ shown \in [Handlers -> Messages \cup {NULL}]
    /\ local \in [Handlers -> Data]
    /\ created \in Seq(Reminder)
    /\ broadcast \in Nat
    /\ orderly \in BOOLEAN
    /\ asked \in DOMAIN Answers
    /\ entered \in Data
    /\ updates \in 0 .. MaxUpdates /\ mishaps \in 0 .. MaxMishaps[orderly]

\* A user who waits and answers what was asked is never asked for the time of an
\* incomplete reminder, whatever call, storage operation or process fails on the way:
\* the state and the data are separate keys, written one after the other.
StateHasItsData ==
    orderly /\ state = "reminder:time" =>
        Complete(data) /\ (data.type = "recurring" => data.cron_day # NULL)

\* As long as no storage operation and no process fails, such a user gets exactly the
\* type, text, date and weekday they entered, however Telegram or SQLite fail, and
\* gets them once.  The time is the one that the creating handler was called with.
CreatesWhatWasEntered ==
    [][orderly /\ mishaps = 0 /\ Len(created') > Len(created) =>
           created' = <<NewReminder(entered, created'[1].time)>>]_vars

\* A reminder is inserted, and a broadcast committed, again at most once for each failure
\* of Redis or the process, which is what falls between the COMMIT and clear(): nothing
\* else leads such a user back to a dialog that has done its work, and one half cleared
\* does none.
RepeatedOnlyByMishaps ==
    orderly => Len(created) <= 1 + mishaps /\ broadcast <= 1 + mishaps

\* However a user's updates overlap, a one-off is created with a date: the date
\* time_entered tests and the date it passes on come from one read.
OneOffHasDate ==
    \A i \in DOMAIN created : created[i].type = "once" => created[i].fire_at # NULL

\* Whoever gets a broadcast on its way, or is asked for its text, has logged in to this
\* very process.  The state "broadcast.text" is kept in Redis and outlives a restart, the
\* authorisation is kept in memory and does not: the text that was asked for before the
\* restart reaches broadcast_text after it, and must be refused there.
BroadcastsPassTheGate ==
    \A h \in Handlers :
        route[h] \in {"broadcasts", "broadcast_text"} => At(h, "gate") \/ authorized

\* The scheduler runs a recurring reminder on its weekday, so it has one
\* (src/README.md:34).
RecurringHasDay ==
    \A i \in DOMAIN created : created[i].type = "recurring" => created[i].cron_day # NULL
===============================================================================
