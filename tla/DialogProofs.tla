------------------------------ MODULE DialogProofs ------------------------------
(***************************************************************************)
(* Theorems about Dialog, for any number of handlers, messages and values. *)
(***************************************************************************)
EXTENDS Dialog, TLAPS

DataRoutes == {"once_type", "recurring_type", "day_selected", "text_entered", "date_entered"}
AskRoutes == DataRoutes \cup {"add_reminder_start", "broadcasts", "admin_entry"}

MessageRoutes ==
    {"cmd_start", "add_reminder_start", "text_entered", "date_entered", "time_entered",
     "broadcasts", "broadcast_text", "admin_entry", "admin_password"}

\* Which handler can stand at which call.
Shaped(h) ==
    /\ At(h, "get") \/ At(h, "set") => route[h] \in DataRoutes
    /\ At(h, "reread") => route[h] = "text_entered"
    /\ At(h, "ask") => route[h] \in AskRoutes
    /\ At(h, "set_state") => route[h] \in AskRoutes /\ Question(h) \in DOMAIN StateOf
    /\ At(h, "read") \/ At(h, "sorry") \/ At(h, "create") => route[h] = "time_entered"
    /\ At(h, "gate") => route[h] \in {"broadcasts", "broadcast_text"}
    /\ At(h, "verify") => route[h] = "admin_password"

\* What it was called with.
Fed(h) ==
    ~At(h, "idle") =>
        /\ route[h] = "once_type" => input[h].kind = "once"
        /\ route[h] = "recurring_type" => input[h].kind = "recurring"
        /\ route[h] = "day_selected" => input[h].value \in Values
        /\ route[h] = "text_entered" => input[h] \in Message
        /\ route[h] \in {"date_entered", "time_entered"} => input[h] \in Message
        /\ route[h] = "date_entered" /\ At(h, "set") => input[h].kind = "date"
        /\ At(h, "create") => input[h].kind = "time" /\ Complete(local[h])

\* The types of what the handlers and the storage hold.
Storage == state \in States /\ data \in Data
Calls ==
    /\ pc \in [Handlers -> Call \cup {"idle"}]
    /\ route \in [Handlers -> Route \cup {NULL}]
    /\ input \in [Handlers -> Message \cup Button \cup {NULL}]
    /\ shown \in [Handlers -> Messages \cup {NULL}]
    /\ local \in [Handlers -> Data]

Shapes == \A h \in Handlers : Shaped(h) /\ Fed(h)

LEMMA Routing ==
    /\ \A r \in Route : FirstCall[r] \in Call
    /\ \A r \in Route :
        /\ FirstCall[r] = "get" => r \in DataRoutes
        /\ FirstCall[r] = "ask" => r \in AskRoutes
        /\ FirstCall[r] = "read" => r = "time_entered"
        /\ FirstCall[r] = "gate" => r \in {"broadcasts", "broadcast_text"}
        /\ FirstCall[r] = "verify" => r = "admin_password"
        /\ FirstCall[r] \notin {"set", "reread", "set_state", "sorry", "create", "send", "idle"}
    /\ \A m \in Message, s \in States : MessageRoute(m, s) \in MessageRoutes \cup {NULL}
    /\ MessageRoutes \subseteq Route
<1>1. \A r \in Route : FirstCall[r] \in Call
  BY DEF Route, FirstCall, Call
<1>2. \A r \in Route :
        /\ FirstCall[r] = "get" => r \in DataRoutes
        /\ FirstCall[r] = "ask" => r \in AskRoutes
        /\ FirstCall[r] = "read" => r = "time_entered"
        /\ FirstCall[r] = "gate" => r \in {"broadcasts", "broadcast_text"}
        /\ FirstCall[r] = "verify" => r = "admin_password"
        /\ FirstCall[r] \notin {"set", "reread", "set_state", "sorry", "create", "send", "idle"}
  BY DEF Route, FirstCall, DataRoutes, AskRoutes
<1>3. \A m \in Message, s \in States : MessageRoute(m, s) \in MessageRoutes \cup {NULL}
  BY DEF MessageRoute, Early, ReminderStates, MessageRoutes, Message, Typed, Menu, States
<1>4. MessageRoutes \subseteq Route
  BY DEF MessageRoutes, Route
<1> QED BY <1>1, <1>2, <1>3, <1>4

\* Dispatch
LEMMA DispatchCalls ==
    ASSUME Calls, NEW h \in Handlers, NEW r \in Route, NEW u \in Message \cup Button,
           NEW k \in Messages \cup {NULL}, Dispatch(h, r, u, k)
    PROVE  Calls'
BY Routing DEF Calls, Dispatch

LEMMA DispatchShapes ==
    ASSUME Calls, Shapes, NEW h \in Handlers, NEW r \in Route, NEW u \in Message \cup Button,
           NEW k \in Messages \cup {NULL}, Dispatch(h, r, u, k),
           r \in {"text_entered", "date_entered", "time_entered"} => u \in Message,
           r = "once_type" => u.kind = "once",
           r = "recurring_type" => u.kind = "recurring",
           r = "day_selected" => u.value \in Values
    PROVE  Shapes'
<1> SUFFICES ASSUME NEW g \in Handlers PROVE Shaped(g)' /\ Fed(g)'
  BY DEF Shapes
<1>1. CASE g = h
  <2>1. pc'[h] = FirstCall[r] /\ route'[h] = r /\ input'[h] = u
    BY DEF Dispatch, Calls
  <2>2. Shaped(h)'
    BY <2>1, Routing DEF Shaped, At
  <2>3. Fed(h)'
    BY <2>1, Routing DEF Fed, At
  <2> QED BY <1>1, <2>2, <2>3
<1>2. CASE g # h
  <2>1. pc'[g] = pc[g] /\ route'[g] = route[g] /\ input'[g] = input[g] /\ local'[g] = local[g]
    BY <1>2 DEF Dispatch, Calls
  <2> QED BY <2>1 DEF Shapes, Shaped, Fed, At, Question
<1> QED BY <1>1, <1>2

\* A step of a handler.
Step(h) ==
    \/ Reject(h) \/ GetData(h) \/ SetData(h) \/ Asks(h) \/ SetState(h)
    \/ ReadData(h) \/ CreateReminder(h) \/ Sorry(h)
    \/ ClearState(h) \/ ClearData(h) \/ AnswerArrives(h)
    \/ AdminOnly(h) \/ SendBroadcast(h) \/ AdminPassword(h)
    \/ CallFails(h) \/ StorageFails(h)

\* How a step of a handler goes on.
LEMMA GotoCalls ==
    ASSUME Calls, NEW h \in Handlers, NEW c \in Call, Goto(h, c),
           local' \in [Handlers -> Data]
    PROVE  Calls'
BY DEF Calls, Goto

LEMMA EndsCalls ==
    ASSUME Calls, NEW h \in Handlers, Ends(h)
    PROVE  Calls'
BY DEF Calls, Ends, EmptyData, Data

LEMMA StepCalls ==
    ASSUME Storage, Calls, Shapes, NEW h \in Handlers, Step(h)
    PROVE  Calls'
<1> USE DEF Storage, Calls, Call, Goto, Ends, EmptyData, Data
<1>1. CASE Reject(h)
  BY <1>1 DEF Reject
<1>2. CASE GetData(h)
  BY <1>2 DEF GetData
<1>3. CASE SetData(h)
  BY <1>3 DEF SetData
<1>4. CASE Asks(h)
  <2>1. CASE Question(h) \in DOMAIN StateOf
    BY <1>4, <2>1, GotoCalls DEF Asks, Call, Calls
  <2>2. CASE Question(h) \notin DOMAIN StateOf
    BY <1>4, <2>2, EndsCalls DEF Asks
  <2> QED BY <2>1, <2>2
<1>5. CASE SetState(h)
  BY <1>5 DEF SetState
<1>6. CASE ReadData(h)
  <2>1. CASE Raises(data)
    BY <1>6, <2>1, EndsCalls DEF ReadData
  <2>2. CASE ~Raises(data)
    <3>1. local' \in [Handlers -> Data]
      BY <1>6, <2>2 DEF ReadData, Calls, Storage
    <3>2. PICK c \in Call : Goto(h, c)
      BY <1>6, <2>2 DEF ReadData, Call
    <3> QED BY <3>1, <3>2, GotoCalls
  <2> QED BY <2>1, <2>2
<1>7. CASE CreateReminder(h)
  BY <1>7 DEF CreateReminder
<1>8. CASE Sorry(h)
  BY <1>8 DEF Sorry
<1>9. CASE ClearState(h)
  BY <1>9 DEF ClearState
<1>10. CASE ClearData(h)
  <2>1. Ends(h) \/ \E c \in Call : Goto(h, c) /\ UNCHANGED local
    BY <1>10 DEF ClearData, Call
  <2> QED BY <2>1, GotoCalls, EndsCalls DEF Calls
<1>11. CASE AnswerArrives(h)
  BY <1>11 DEF AnswerArrives
<1>12. CASE AdminOnly(h)
  <2>1. Ends(h) \/ \E c \in Call : Goto(h, c) /\ UNCHANGED local
    BY <1>12 DEF AdminOnly, Call
  <2> QED BY <2>1, GotoCalls, EndsCalls DEF Calls
<1>13. CASE SendBroadcast(h)
  BY <1>13 DEF SendBroadcast
<1>14. CASE AdminPassword(h)
  <2>1. Ends(h) \/ \E c \in Call : Goto(h, c) /\ UNCHANGED local
    BY <1>14 DEF AdminPassword, Call
  <2> QED BY <2>1, GotoCalls, EndsCalls DEF Calls
<1>15. CASE CallFails(h)
  BY <1>15 DEF CallFails
<1>16. CASE StorageFails(h)
  BY <1>16 DEF StorageFails
<1> QED BY <1>1, <1>2, <1>3, <1>4, <1>5, <1>6, <1>7, <1>8, <1>9, <1>10, <1>11, <1>12, <1>13, <1>14,
        <1>15, <1>16 DEF Step

\* SetData stores what the route asks for.
LEMMA SetDataTyped ==
    ASSUME Calls, Shapes, NEW h \in Handlers, SetData(h)
    PROVE  data' \in Data
<1> DEFINE d == local[h]
<1>1. d \in Data /\ data' = [d EXCEPT ![Field[route[h]]] = Given(h)]
  BY DEF SetData, Calls
<1>2. route[h] \in DataRoutes /\ Fed(h) /\ ~At(h, "idle") /\ At(h, "set")
  BY DEF SetData, Shapes, Shaped, At
<1> HIDE DEF d
<1>3. CASE route[h] \in {"once_type", "recurring_type"}
  <2>1. Field[route[h]] = "type" /\ Given(h) \in ReminderType
    BY <1>2, <1>3 DEF Fed, Field, Given, ReminderType
  <2> QED BY <1>1, <2>1 DEF Data
<1>4. CASE route[h] = "day_selected"
  <2>1. Field[route[h]] = "cron_day" /\ Given(h) \in Values
    BY <1>2, <1>4 DEF Fed, Field, Given
  <2> QED BY <1>1, <2>1 DEF Data
<1>5. CASE route[h] = "text_entered"
  <2>1. Field[route[h]] = "text" /\ Given(h) \in Message
    BY <1>2, <1>5 DEF Fed, Field, Given
  <2> QED BY <1>1, <2>1 DEF Data
<1>6. CASE route[h] = "date_entered"
  <2>1. input[h] \in Message /\ input[h].kind = "date"
    BY <1>2, <1>6 DEF Fed
  <2>2. input[h].value \in Values
    BY <2>1 DEF Message, Typed, Menu
  <2>3. Field[route[h]] = "fire_at" /\ Given(h) \in Values
    BY <1>6, <2>2 DEF Field, Given
  <2> QED BY <1>1, <2>3 DEF Data
<1> QED BY <1>2, <1>3, <1>4, <1>5, <1>6 DEF DataRoutes

LEMMA StepStorage ==
    ASSUME Storage, Calls, Shapes, NEW h \in Handlers, Step(h)
    PROVE  Storage'
<1> USE DEF Storage, Calls, States, EmptyData, Shapes, storageVars
<1>1. CASE Reject(h)
  BY <1>1 DEF Reject
<1>2. CASE GetData(h)
  BY <1>2 DEF GetData
<1>3. CASE SetData(h)
  BY <1>3, SetDataTyped DEF SetData
<1>4. CASE Asks(h)
  BY <1>4 DEF Asks
<1>5. CASE SetState(h)
  <2>1. Question(h) \in DOMAIN StateOf
    BY <1>5 DEF SetState, Shaped
  <2>2. \A q \in DOMAIN StateOf : StateOf[q] \in States
    BY DEF StateOf
  <2> QED BY <1>5, <2>1, <2>2 DEF SetState
<1>6. CASE ReadData(h)
  BY <1>6 DEF ReadData
<1>7. CASE CreateReminder(h)
  BY <1>7 DEF CreateReminder
<1>8. CASE Sorry(h)
  BY <1>8 DEF Sorry
<1>9. CASE ClearState(h)
  BY <1>9 DEF ClearState
<1>10. CASE ClearData(h)
  <2>1. data' = EmptyData /\ state' = state
    BY <1>10 DEF ClearData
  <2> QED BY <2>1 DEF Data
<1>11. CASE AnswerArrives(h)
  BY <1>11 DEF AnswerArrives
<1>12. CASE AdminOnly(h)
  BY <1>12 DEF AdminOnly
<1>13. CASE SendBroadcast(h)
  BY <1>13 DEF SendBroadcast
<1>14. CASE AdminPassword(h)
  BY <1>14 DEF AdminPassword
<1>15. CASE CallFails(h)
  BY <1>15 DEF CallFails
<1>16. CASE StorageFails(h)
  BY <1>16 DEF StorageFails
<1> QED BY <1>1, <1>2, <1>3, <1>4, <1>5, <1>6, <1>7, <1>8, <1>9, <1>10, <1>11, <1>12, <1>13, <1>14,
        <1>15, <1>16 DEF Step

LEMMA StepOthers ==
    ASSUME Calls, NEW h \in Handlers, Step(h)
    PROVE  \A g \in Handlers : g # h =>
               /\ pc'[g] = pc[g] /\ route'[g] = route[g]
               /\ input'[g] = input[g] /\ local'[g] = local[g]
<1> USE DEF Calls, Goto, Ends
<1>1. CASE Reject(h)
  BY <1>1 DEF Reject
<1>2. CASE GetData(h)
  BY <1>2 DEF GetData
<1>3. CASE SetData(h)
  BY <1>3 DEF SetData
<1>4. CASE Asks(h)
  BY <1>4 DEF Asks
<1>5. CASE SetState(h)
  BY <1>5 DEF SetState
<1>6. CASE ReadData(h)
  BY <1>6 DEF ReadData
<1>7. CASE CreateReminder(h)
  BY <1>7 DEF CreateReminder
<1>8. CASE Sorry(h)
  BY <1>8 DEF Sorry
<1>9. CASE ClearState(h)
  BY <1>9 DEF ClearState
<1>10. CASE ClearData(h)
  BY <1>10 DEF ClearData
<1>11. CASE AnswerArrives(h)
  BY <1>11 DEF AnswerArrives
<1>12. CASE AdminOnly(h)
  BY <1>12 DEF AdminOnly
<1>13. CASE SendBroadcast(h)
  BY <1>13 DEF SendBroadcast
<1>14. CASE AdminPassword(h)
  BY <1>14 DEF AdminPassword
<1>15. CASE CallFails(h)
  BY <1>15 DEF CallFails
<1>16. CASE StorageFails(h)
  BY <1>16 DEF StorageFails
<1> QED BY <1>1, <1>2, <1>3, <1>4, <1>5, <1>6, <1>7, <1>8, <1>9, <1>10, <1>11, <1>12, <1>13, <1>14,
        <1>15, <1>16 DEF Step

LEMMA StepShaped ==
    ASSUME Storage, Calls, Shapes, NEW h \in Handlers, Step(h)
    PROVE  Shaped(h)'
<1> USE DEF Calls, Shapes, Shaped, At, Goto, Ends, Question
<1>1. CASE Reject(h)
  BY <1>1 DEF Reject
<1>2. CASE GetData(h)
  <2>1. CASE At(h, "get")
    <3>1. pc'[h] = "set" /\ route'[h] = route[h]
      BY <1>2, <2>1 DEF GetData
    <3> QED BY <2>1, <3>1
  <2>2. CASE At(h, "reread")
    <3>1. pc'[h] = "ask" /\ route'[h] = route[h]
      BY <1>2, <2>2 DEF GetData
    <3> QED BY <2>2, <3>1 DEF DataRoutes, AskRoutes
  <2> QED BY <1>2, <2>1, <2>2 DEF GetData
<1>3. CASE SetData(h)
  <2>1. route[h] \in DataRoutes /\ route'[h] = route[h]
    BY <1>3 DEF SetData
  <2>2. pc'[h] = (IF route[h] = "text_entered" THEN "reread" ELSE "ask")
    BY <1>3 DEF SetData
  <2> QED BY <2>1, <2>2 DEF AskRoutes
<1>4. CASE Asks(h)
  BY <1>4 DEF Asks
<1>5. CASE SetState(h)
  BY <1>5 DEF SetState
<1>6. CASE ReadData(h)
  BY <1>6 DEF ReadData
<1>7. CASE CreateReminder(h)
  BY <1>7 DEF CreateReminder
<1>8. CASE Sorry(h)
  BY <1>8 DEF Sorry
<1>9. CASE ClearState(h)
  BY <1>9 DEF ClearState
<1>10. CASE ClearData(h)
  BY <1>10 DEF ClearData
<1>11. CASE AnswerArrives(h)
  BY <1>11 DEF AnswerArrives
<1>12. CASE AdminOnly(h)
  <2>1. route[h] \in {"broadcasts", "broadcast_text"}
    BY <1>12 DEF AdminOnly
  <2>2. CASE ~authorized
    BY <1>12, <2>2 DEF AdminOnly
  <2>3. CASE authorized
    <3>1. pc'[h] = (IF route[h] = "broadcasts" THEN "ask" ELSE "send") /\ route'[h] = route[h]
      BY <1>12, <2>3 DEF AdminOnly
    <3> QED BY <2>1, <3>1 DEF AskRoutes
  <2> QED BY <2>2, <2>3
<1>13. CASE SendBroadcast(h)
  BY <1>13 DEF SendBroadcast
<1>14. CASE AdminPassword(h)
  BY <1>14 DEF AdminPassword
<1>15. CASE CallFails(h)
  BY <1>15 DEF CallFails
<1>16. CASE StorageFails(h)
  BY <1>16 DEF StorageFails
<1> QED BY <1>1, <1>2, <1>3, <1>4, <1>5, <1>6, <1>7, <1>8, <1>9, <1>10, <1>11, <1>12, <1>13, <1>14,
        <1>15, <1>16 DEF Step

LEMMA StepFed ==
    ASSUME Storage, Calls, Shapes, NEW h \in Handlers, Step(h)
    PROVE  Fed(h)'
<1> USE DEF Calls, Shapes, Fed, Shaped, At, Goto, Ends, Question
<1>1. CASE Reject(h)
  BY <1>1 DEF Reject
<1>2. CASE GetData(h)
  <2>1. Parses(h) /\ route[h] # "time_entered" /\ pc[h] # "idle"
    BY <1>2 DEF GetData, DataRoutes
  <2>2. pc'[h] \in {"set", "ask"} /\ route'[h] = route[h] /\ input'[h] = input[h]
    BY <1>2 DEF GetData
  <2> QED BY <2>1, <2>2 DEF Parses
<1>3. CASE SetData(h)
  BY <1>3 DEF SetData
<1>4. CASE Asks(h)
  BY <1>4 DEF Asks
<1>5. CASE SetState(h)
  BY <1>5 DEF SetState
<1>6. CASE ReadData(h)
  <2>1. CASE Raises(data)
    <3>1. pc'[h] = "idle"
      BY <1>6, <2>1 DEF ReadData
    <3> QED BY <3>1
  <2>2. CASE ~Raises(data)
    <3>1. Parses(h) /\ route[h] = "time_entered" /\ pc[h] # "idle"
      BY <1>6 DEF ReadData
    <3>2. pc'[h] = (IF Complete(data) THEN "create" ELSE "sorry") /\ local'[h] = data
          /\ route'[h] = route[h] /\ input'[h] = input[h]
      BY <1>6, <2>2 DEF ReadData
    <3> QED BY <3>1, <3>2 DEF Parses
  <2> QED BY <2>1, <2>2
<1>7. CASE CreateReminder(h)
  BY <1>7 DEF CreateReminder
<1>8. CASE Sorry(h)
  BY <1>8 DEF Sorry
<1>9. CASE ClearState(h)
  BY <1>9 DEF ClearState
<1>10. CASE ClearData(h)
  BY <1>10 DEF ClearData
<1>11. CASE AnswerArrives(h)
  BY <1>11 DEF AnswerArrives
<1>12. CASE AdminOnly(h)
  BY <1>12 DEF AdminOnly
<1>13. CASE SendBroadcast(h)
  BY <1>13 DEF SendBroadcast
<1>14. CASE AdminPassword(h)
  BY <1>14 DEF AdminPassword
<1>15. CASE CallFails(h)
  BY <1>15 DEF CallFails
<1>16. CASE StorageFails(h)
  BY <1>16 DEF StorageFails
<1> QED BY <1>1, <1>2, <1>3, <1>4, <1>5, <1>6, <1>7, <1>8, <1>9, <1>10, <1>11, <1>12, <1>13, <1>14,
        <1>15, <1>16 DEF Step

Base == Storage /\ Calls /\ Shapes /\ mishaps \in Nat

LEMMA StepBase ==
    ASSUME Base, NEW h \in Handlers, Step(h)
    PROVE  Base'
<1>1. Storage' /\ Calls' /\ Shaped(h)' /\ Fed(h)'
  BY StepStorage, StepCalls, StepShaped, StepFed DEF Base
<1>2. ASSUME NEW g \in Handlers, g # h
      PROVE  Shaped(g)' /\ Fed(g)'
  <2>1. pc'[g] = pc[g] /\ route'[g] = route[g] /\ input'[g] = input[g] /\ local'[g] = local[g]
    BY <1>2, StepOthers DEF Base
  <2> QED BY <2>1 DEF Base, Shapes, Shaped, Fed, At, Question
<1>3. mishaps' \in Nat
  BY DEF Base, Step, Reject, GetData, SetData, Asks, SetState, ReadData, CreateReminder, Sorry,
     ClearState, ClearData, AnswerArrives, AdminOnly, SendBroadcast, AdminPassword, CallFails,
     StorageFails
<1> QED BY <1>1, <1>2, <1>3 DEF Base, Shapes

\* A text or a press is routed to a handler that takes it.
LEMMA SendTextBase ==
    ASSUME Base, NEW h \in Handlers, NEW m \in Message, SendText(h, m)
    PROVE  Base'
<1> DEFINE r == MessageRoute(m, state)
<1>1. r \in MessageRoutes /\ r \in Route
  BY Routing DEF Base, Storage, SendText
<1>2. PICK k \in Messages \cup {NULL} : Dispatch(h, r, m, k)
  BY DEF SendText
<1>3. r \notin {"once_type", "recurring_type", "day_selected"}
  BY <1>1 DEF MessageRoutes
<1> HIDE DEF r
<1>5. Calls' /\ Shapes'
  BY <1>1, <1>2, <1>3, DispatchCalls, DispatchShapes DEF Base
<1>4. Storage'
  BY DEF SendText, storageVars, Base, Storage
<1>6. mishaps' \in Nat
  BY DEF SendText, Base
<1> QED BY <1>4, <1>5, <1>6 DEF Base

LEMMA PressButtonBase ==
    ASSUME Base, NEW h \in Handlers, NEW k \in Messages, NEW b \in Button, PressButton(h, k, b)
    PROVE  Base'
<1> DEFINE r == ButtonRoute[b.kind]
<1>1. b.kind \in {"once", "recurring", "day"} /\ (b.kind = "day" => b.value \in Values)
  BY DEF Button
<1>2. /\ r \in {"once_type", "recurring_type", "day_selected"}
      /\ r = "once_type" => b.kind = "once"
      /\ r = "recurring_type" => b.kind = "recurring"
      /\ r = "day_selected" => b.kind = "day"
  BY <1>1 DEF ButtonRoute
<1>3. Dispatch(h, r, b, k)
  BY DEF PressButton
<1>4. r \in Route
  BY <1>2 DEF Route
<1> HIDE DEF r
<1>5. Calls' /\ Shapes'
  BY <1>1, <1>2, <1>3, <1>4, DispatchCalls, DispatchShapes DEF Base
<1>6. Storage'
  BY DEF PressButton, storageVars, Base, Storage
<1>7. mishaps' \in Nat
  BY DEF PressButton, Base
<1> QED BY <1>5, <1>6, <1>7 DEF Base

LEMMA RestartBase ==
    ASSUME Base, Restart
    PROVE  Base'
<1>1. Storage' /\ Calls'
  BY DEF Base, Restart, Storage, Calls, storageVars, EmptyData, Data
<1>2. \A h \in Handlers : pc'[h] = "idle"
  BY DEF Restart
<1>3. Shapes'
  BY <1>2 DEF Shapes, Shaped, Fed, At
<1>4. mishaps' \in Nat
  BY DEF Restart, Base
<1> QED BY <1>1, <1>3, <1>4 DEF Base

LEMMA InitBase == Init => Base
<1> SUFFICES ASSUME Init PROVE Base
  OBVIOUS
<1>1. Storage /\ Calls
  BY DEF Init, Storage, Calls, EmptyData, Data, States
<1>2. \A h \in Handlers : pc[h] = "idle"
  BY DEF Init
<1>3. Shapes
  BY <1>2 DEF Shapes, Shaped, Fed, At
<1> QED BY <1>1, <1>3 DEF Base, Init

\* The table.
Rows == created \in Seq(Reminder) /\ broadcast \in Nat /\ OneOffHasDate

LEMMA StepRows ==
    ASSUME Base, Rows, NEW h \in Handlers, Step(h)
    PROVE  Rows'
<1>1. CASE CreateReminder(h)
  <2> DEFINE row == NewReminder(local[h], input[h].value)
  <2>1. Complete(local[h]) /\ local[h] \in Data /\ route[h] = "time_entered"
        /\ input[h] \in Message /\ input[h].kind = "time"
    BY <1>1 DEF CreateReminder, Base, Shapes, Shaped, Fed, At, Calls
  <2>2. input[h].value \in Values
    BY <2>1 DEF Message, Typed, Menu
  <2>3. row \in Reminder /\ (row.type = "once" => row.fire_at # NULL)
    BY <2>1, <2>2 DEF NewReminder, Reminder, Complete, Data, ReminderType
  <2>4. created' = Append(created, row)
    BY <1>1 DEF CreateReminder
  <2> HIDE DEF row
  <2>5. created' \in Seq(Reminder)
    BY <2>3, <2>4 DEF Rows
  <2>6. created \in Seq(Reminder) /\ OneOffHasDate
    BY DEF Rows
  <2>7. ASSUME NEW i \in DOMAIN created'
        PROVE  created'[i].type = "once" => created'[i].fire_at # NULL
    <3>1. i \in 1 .. Len(created) + 1
      BY <2>3, <2>4, <2>6, <2>7
    <3>2. CASE i = Len(created) + 1
      <4>1. created'[i] = row
        BY <2>3, <2>4, <2>6, <3>2
      <4> QED BY <4>1, <2>3
    <3>3. CASE i # Len(created) + 1
      <4>1. i \in DOMAIN created /\ created'[i] = created[i]
        BY <2>3, <2>4, <2>6, <3>1, <3>3
      <4> QED BY <4>1, <2>6 DEF OneOffHasDate
    <3> QED BY <3>2, <3>3
  <2>8. broadcast' \in Nat
    BY <1>1 DEF CreateReminder, Rows
  <2> QED BY <2>5, <2>7, <2>8 DEF Rows, OneOffHasDate
<1>2. CASE ~CreateReminder(h)
  <2>1. created' = created
    BY <1>2 DEF Step, Reject, GetData, SetData, Asks, SetState, ReadData, Sorry, ClearState,
       ClearData, AnswerArrives, AdminOnly, SendBroadcast, AdminPassword, CallFails, StorageFails
  <2>2. broadcast' \in {broadcast, broadcast + 1}
    BY <1>2 DEF Step, Reject, GetData, SetData, Asks, SetState, ReadData, Sorry, ClearState,
       ClearData, AnswerArrives, AdminOnly, SendBroadcast, AdminPassword, CallFails, StorageFails
  <2> QED BY <2>1, <2>2 DEF Rows, OneOffHasDate
<1> QED BY <1>1, <1>2

\* The gate.
Gated(h) == route[h] \in {"broadcasts", "broadcast_text"} => At(h, "gate") \/ authorized

\* A handler that is past the gate has passed it, and whoever logged in stays logged in.
LEMMA StepGated ==
    ASSUME Base, BroadcastsPassTheGate, NEW h \in Handlers, Step(h)
    PROVE  BroadcastsPassTheGate'
<1>1. authorized' = authorized \/ authorized'
  BY DEF Step, Reject, GetData, SetData, Asks, SetState, ReadData, CreateReminder, Sorry,
     ClearState, ClearData, AnswerArrives, AdminOnly, SendBroadcast, AdminPassword, CallFails,
     StorageFails
<1>2. route'[h] \in {route[h], NULL}
  BY DEF Base, Calls, Goto, Ends, Step, Reject, GetData, SetData, Asks, SetState, ReadData,
     CreateReminder, Sorry, ClearState, ClearData, AnswerArrives, AdminOnly, SendBroadcast,
     AdminPassword, CallFails, StorageFails
<1>3. CASE At(h, "gate")
  <2>1. AdminOnly(h)
    BY <1>3 DEF At, Step, Reject, GetData, SetData, Asks, SetState, ReadData, CreateReminder,
       Sorry, ClearState, ClearData, AnswerArrives, SendBroadcast, AdminPassword, CallFails,
       StorageFails
  <2>2. authorized' = authorized
    BY <2>1 DEF AdminOnly
  <2>3. ~authorized => route'[h] = NULL
    BY <2>1 DEF AdminOnly, Ends, Base, Calls
  <2>4. Gated(h)'
    BY <2>2, <2>3, NullAssumption DEF Gated, Route
  <2> QED BY <1>1, <2>4, StepOthers DEF BroadcastsPassTheGate, Gated, At, Base
<1>4. CASE ~At(h, "gate")
  <2>1. Gated(h)'
    BY <1>1, <1>2, <1>4, NullAssumption DEF BroadcastsPassTheGate, Gated, At, Route
  <2> QED BY <1>1, <2>1, StepOthers DEF BroadcastsPassTheGate, Gated, At, Base
<1> QED BY <1>3, <1>4

LEMMA DispatchGated ==
    ASSUME Base, BroadcastsPassTheGate, NEW h \in Handlers, NEW r \in Route, NEW u, NEW k,
           Dispatch(h, r, u, k), authorized' = authorized
    PROVE  BroadcastsPassTheGate'
<1>1. r \in {"broadcasts", "broadcast_text"} => FirstCall[r] = "gate"
  BY DEF FirstCall
<1>2. pc'[h] = FirstCall[r] /\ route'[h] = r
  BY DEF Dispatch, Base, Calls
<1>3. \A g \in Handlers : g # h => pc'[g] = pc[g] /\ route'[g] = route[g]
  BY DEF Dispatch, Base, Calls
<1> QED BY <1>1, <1>2, <1>3 DEF BroadcastsPassTheGate, At

\* What nobody but the user and the process keeps.
Rest ==
    /\ authorized \in BOOLEAN
    /\ keyboards \in [Messages -> {"none", "types", "days"}]
    /\ orderly \in BOOLEAN
    /\ asked \in DOMAIN Answers
    /\ entered \in Data
Counters == updates \in 0 .. MaxUpdates /\ mishaps \in 0 .. MaxMishaps[orderly]

LEMMA Asked ==
    /\ {"nothing", "start", "text", "date", "time"} \subseteq DOMAIN Answers
    /\ \A h \in Handlers : route[h] \in AskRoutes => Question(h) \in DOMAIN Answers
<1>1. DOMAIN Answers = {"text", "date", "time", "broadcast", "password", "nothing", "type",
                        "day", "start"}
  BY DEF Answers
<1>2. ASSUME NEW h \in Handlers, route[h] \in AskRoutes PROVE Question(h) \in DOMAIN Answers
  BY <1>1, <1>2 DEF Question, AskRoutes, DataRoutes
<1> QED BY <1>1, <1>2

LEMMA StepRest ==
    ASSUME Base, Rest, NEW h \in Handlers, Step(h)
    PROVE  Rest'
<1> USE DEF Rest, userVars
<1>1. CASE Reject(h)
  BY <1>1 DEF Reject
<1>2. CASE GetData(h)
  BY <1>2 DEF GetData
<1>3. CASE SetData(h)
  BY <1>3 DEF SetData
<1>4. CASE Asks(h)
  <2>1. route[h] \in AskRoutes
    BY <1>4 DEF Asks, Base, Shapes, Shaped
  <2>2. asked' \in DOMAIN Answers
    BY <1>4, <2>1, Asked DEF Asks
  <2>3. keyboards' \in [Messages -> {"none", "types", "days"}]
    BY <1>4 DEF Asks, KeyboardAfter
  <2>4. authorized' = authorized /\ orderly' = orderly /\ entered' = entered
    BY <1>4 DEF Asks
  <2> QED BY <2>2, <2>3, <2>4
<1>5. CASE SetState(h)
  BY <1>5 DEF SetState
<1>6. CASE ReadData(h)
  BY <1>6 DEF ReadData
<1>7. CASE CreateReminder(h)
  BY <1>7 DEF CreateReminder
<1>8. CASE Sorry(h)
  BY <1>8, Asked DEF Sorry
<1>9. CASE ClearState(h)
  BY <1>9 DEF ClearState
<1>10. CASE ClearData(h)
  BY <1>10 DEF ClearData
<1>11. CASE AnswerArrives(h)
  BY <1>11, Asked DEF AnswerArrives
<1>12. CASE AdminOnly(h)
  BY <1>12 DEF AdminOnly
<1>13. CASE SendBroadcast(h)
  BY <1>13 DEF SendBroadcast
<1>14. CASE AdminPassword(h)
  <2>1. authorized' \in BOOLEAN
    BY <1>14 DEF AdminPassword
  <2>2. keyboards' = keyboards /\ orderly' = orderly /\ entered' = entered /\ asked' = asked
    BY <1>14 DEF AdminPassword
  <2> QED BY <2>1, <2>2
<1>15. CASE CallFails(h)
  BY <1>15 DEF CallFails
<1>16. CASE StorageFails(h)
  BY <1>16 DEF StorageFails
<1> QED BY <1>1, <1>2, <1>3, <1>4, <1>5, <1>6, <1>7, <1>8, <1>9, <1>10, <1>11, <1>12, <1>13, <1>14,
        <1>15, <1>16 DEF Step

LEMMA StepCounters ==
    ASSUME Counters, Rest, BoundsAssumption, NEW h \in Handlers, Step(h)
    PROVE  Counters'
<1> USE DEF Counters, Rest, userVars
<1>1. CASE Reject(h)
  BY <1>1 DEF Reject
<1>2. CASE GetData(h)
  BY <1>2 DEF GetData
<1>3. CASE SetData(h)
  BY <1>3 DEF SetData
<1>4. CASE Asks(h)
  BY <1>4 DEF Asks
<1>5. CASE SetState(h)
  BY <1>5 DEF SetState
<1>6. CASE ReadData(h)
  BY <1>6 DEF ReadData
<1>7. CASE CreateReminder(h)
  BY <1>7 DEF CreateReminder
<1>8. CASE Sorry(h)
  BY <1>8 DEF Sorry
<1>9. CASE ClearState(h)
  BY <1>9 DEF ClearState
<1>10. CASE ClearData(h)
  BY <1>10 DEF ClearData
<1>11. CASE AnswerArrives(h)
  BY <1>11 DEF AnswerArrives
<1>12. CASE AdminOnly(h)
  BY <1>12 DEF AdminOnly
<1>13. CASE SendBroadcast(h)
  BY <1>13 DEF SendBroadcast
<1>14. CASE AdminPassword(h)
  BY <1>14 DEF AdminPassword
<1>15. CASE CallFails(h)
  BY <1>15 DEF CallFails
<1>16. CASE StorageFails(h)
  BY <1>16 DEF StorageFails
<1> QED BY <1>1, <1>2, <1>3, <1>4, <1>5, <1>6, <1>7, <1>8, <1>9, <1>10, <1>11, <1>12, <1>13, <1>14,
        <1>15, <1>16 DEF Step

LEMMA NotedTyped ==
    ASSUME entered \in Data, NEW u \in Message \cup Button
    PROVE  Noted(u) \in Data
<1>1. entered \in Data /\ EmptyData \in Data
  BY DEF EmptyData, Data
<1>2. u.kind \in ReminderType => [entered EXCEPT !.type = u.kind] \in Data
  BY <1>1 DEF Data
<1>3. u.kind \in {"date", "day"} => u.value \in Values
  BY DEF Message, Typed, Menu, Button
<1>4. u.kind = "day" => [entered EXCEPT !.cron_day = u.value] \in Data
  BY <1>1, <1>3 DEF Data
<1>5. u \in Typed => [entered EXCEPT !.text = u] \in Data
  BY <1>1 DEF Data, Message
<1>6. u.kind = "date" => [entered EXCEPT !.fire_at = u.value] \in Data
  BY <1>1, <1>3 DEF Data
<1> HIDE DEF Data
<1> QED BY <1>1, <1>2, <1>4, <1>5, <1>6 DEF Noted

LEMMA MayActCounts ==
    ASSUME Counters, Rest, BoundsAssumption, NEW kind, MayAct(kind), orderly' = orderly,
           mishaps' = mishaps
    PROVE  Counters'
<1>1. CASE orderly
  BY <1>1 DEF MayAct, Counters
<1>2. CASE ~orderly
  BY <1>2 DEF MayAct, Counters, BoundsAssumption
<1> QED BY <1>1, <1>2

Inv == Base /\ Rows /\ BroadcastsPassTheGate /\ Rest /\ Counters

LEMMA SendTextInv ==
    ASSUME Inv, BoundsAssumption, NEW h \in Handlers, NEW m \in Message, SendText(h, m)
    PROVE  Inv'
<1> DEFINE r == MessageRoute(m, state)
<1>1. r \in Route
  BY Routing DEF Inv, Base, Storage, SendText
<1>2. PICK k \in Messages \cup {NULL} : Dispatch(h, r, m, k)
  BY DEF SendText
<1>3. /\ state' = state /\ mishaps' = mishaps /\ authorized' = authorized
      /\ orderly' = orderly /\ keyboards' = keyboards
  BY DEF SendText, storageVars
<1>4. created' \in {<<>>, created} /\ entered' = Noted(m) /\ MayAct(m.kind)
      /\ asked' \in {"start", asked} /\ broadcast' \in {0, broadcast}
  BY DEF SendText
<1> HIDE DEF r
<1>5. Base'
  BY SendTextBase DEF Inv
<1>6. Rows'
  <2>1. broadcast' \in Nat
    BY <1>4 DEF Inv, Rows
  <2>2. CASE created' = <<>>
    BY <2>1, <2>2 DEF Rows, OneOffHasDate
  <2>3. CASE created' = created
    BY <2>1, <2>3 DEF Inv, Rows, OneOffHasDate
  <2> QED BY <1>4, <2>2, <2>3
<1>7. BroadcastsPassTheGate'
  BY <1>1, <1>2, <1>3, DispatchGated DEF Inv
<1>8. Rest'
  <2>1. entered' \in Data
    BY <1>4, NotedTyped DEF Inv, Rest
  <2>2. asked' \in DOMAIN Answers
    BY <1>4, Asked DEF Inv, Rest
  <2> QED BY <1>3, <2>1, <2>2 DEF Inv, Rest
<1>9. Counters'
  BY <1>3, <1>4, MayActCounts DEF Inv
<1> QED BY <1>5, <1>6, <1>7, <1>8, <1>9 DEF Inv

LEMMA PressButtonInv ==
    ASSUME Inv, BoundsAssumption, NEW h \in Handlers, NEW k \in Messages, NEW b \in Button,
           PressButton(h, k, b)
    PROVE  Inv'
<1> DEFINE r == ButtonRoute[b.kind]
<1>1. r \in Route
  BY DEF Button, ButtonRoute, Route
<1>2. Dispatch(h, r, b, k)
  BY DEF PressButton
<1>3. /\ state' = state /\ mishaps' = mishaps /\ authorized' = authorized
      /\ orderly' = orderly /\ keyboards' = keyboards
  BY DEF PressButton, storageVars
<1>4. /\ created' = created /\ broadcast' = broadcast /\ entered' = Noted(b)
      /\ MayAct(b.kind) /\ asked' = asked
  BY DEF PressButton
<1> HIDE DEF r
<1>5. Base'
  BY PressButtonBase DEF Inv
<1>6. Rows'
  BY <1>4 DEF Inv, Rows, OneOffHasDate
<1>7. BroadcastsPassTheGate'
  BY <1>1, <1>2, <1>3, DispatchGated DEF Inv
<1>8. Rest'
  <2>1. entered' \in Data
    BY <1>4, NotedTyped DEF Inv, Rest
  <2> QED BY <1>3, <1>4, <2>1 DEF Inv, Rest
<1>9. Counters'
  BY <1>3, <1>4, MayActCounts DEF Inv
<1> QED BY <1>5, <1>6, <1>7, <1>8, <1>9 DEF Inv

LEMMA RestartInv ==
    ASSUME Inv, BoundsAssumption, Restart
    PROVE  Inv'
<1>1. Base'
  BY RestartBase DEF Inv
<1>2. Rows'
  BY DEF Restart, Inv, Rows, OneOffHasDate
<1>3. BroadcastsPassTheGate'
  BY NullAssumption DEF Restart, BroadcastsPassTheGate, Route
<1>4. Rest'
  BY DEF Restart, Inv, Rest, userVars
<1>5. Counters'
  BY DEF Restart, Inv, Counters, Rest, userVars, BoundsAssumption
<1> QED BY <1>1, <1>2, <1>3, <1>4, <1>5 DEF Inv

LEMMA StutterInv ==
    ASSUME Inv, UNCHANGED vars
    PROVE  Inv'
<1>1. Base'
  BY DEF Inv, vars, Base, Storage, Calls, Shapes, Shaped, Fed, At, Question
<1>2. Rows' /\ BroadcastsPassTheGate' /\ Rest' /\ Counters'
  BY DEF Inv, vars, Rows, OneOffHasDate, BroadcastsPassTheGate, At, Rest, Counters
<1> QED BY <1>1, <1>2 DEF Inv

LEMMA InitInv == BoundsAssumption /\ Init => Inv
<1> SUFFICES ASSUME BoundsAssumption, Init PROVE Inv
  OBVIOUS
<1>1. Base
  BY InitBase
<1>2. Rows /\ BroadcastsPassTheGate
  <2>1. created = <<>> /\ broadcast = 0 /\ \A h \in Handlers : route[h] = NULL
    BY DEF Init
  <2>2. Rows
    BY <2>1 DEF Rows, OneOffHasDate
  <2>3. BroadcastsPassTheGate
    BY <2>1, NullAssumption DEF BroadcastsPassTheGate, Route
  <2> QED BY <2>2, <2>3
<1>3. asked \in DOMAIN Answers
  BY Asked DEF Init
<1>4. entered \in Data
  BY DEF Init, EmptyData, Data
<1>5. Rest
  BY <1>3, <1>4 DEF Init, Rest
<1>6. Counters
  BY DEF Init, Counters, BoundsAssumption
<1> QED BY <1>1, <1>2, <1>5, <1>6 DEF Inv

LEMMA NextInv == BoundsAssumption /\ Inv /\ [Next]_vars => Inv'
<1> SUFFICES ASSUME BoundsAssumption, Inv, [Next]_vars PROVE Inv'
  OBVIOUS
<1>1. ASSUME NEW h \in Handlers, Step(h) PROVE Inv'
  BY <1>1, StepBase, StepRows, StepGated, StepRest, StepCounters DEF Inv
<1>2. CASE Next
  BY <1>1, <1>2, SendTextInv, PressButtonInv, RestartInv DEF Next, Step
<1>3. CASE UNCHANGED vars
  BY <1>3, StutterInv
<1> QED BY <1>2, <1>3

\* Every variable keeps its type, each handler stands only at the calls its route
\* makes, and what it was called with fits them.
THEOREM DialogTypeCorrect == Spec => []TypeOK
<1>1. Inv => TypeOK
  BY DEF Inv, Base, Storage, Calls, Rows, Rest, Counters, TypeOK
<1> QED BY <1>1, InitInv, NextInv, BoundsAssumption, PTL DEF Spec

\* The date a one-off is created with is the one that was tested: between the test and
\* the insert the handler reads no storage (handlers.py, time_entered).
THEOREM OneOffsHaveDates == Spec => []OneOffHasDate
<1>1. Inv => OneOffHasDate
  BY DEF Inv, Rows
<1> QED BY <1>1, InitInv, NextInv, BoundsAssumption, PTL DEF Spec

\* Both handlers of a broadcast are past the gate only for somebody who has logged in since
\* the process was started, whatever state Redis has kept (auth.py, admin_only).
THEOREM BroadcastsAlwaysPassTheGate == Spec => []BroadcastsPassTheGate
<1>1. Inv => BroadcastsPassTheGate
  BY DEF Inv
<1> QED BY <1>1, InitInv, NextInv, BoundsAssumption, PTL DEF Spec

-------------------------------------------------------------------------------
(* An orderly user.  One handler runs at a time, and what it knows of the  *)
(* state and the data holds until it ends: StateHasItsData is kept because *)
(* no state that takes an answer is left while `type` or `cron_day` can    *)
(* still be pressed, and each state is set after what it needs.            *)

HasType(d) == d.type \in ReminderType /\ (d.type = "recurring" => d.cron_day # NULL)

\* What the state and the last question say of each other and of the data.
Resting ==
    /\ asked \in {"nothing", "type", "day"} => state = "none"
    /\ asked = "day" => data.type = "recurring"
    /\ state \in {"reminder:text", "reminder:date", "reminder:time"} => HasType(data)
    /\ state = "reminder:date" => data.text # NULL /\ data.type = "once"
    /\ state = "reminder:time" => Complete(data)

\* What the handler in flight knows.
InHand(h) ==
    /\ route[h] \in {"add_reminder_start", "once_type", "recurring_type", "day_selected"}
            \/ At(h, "clear_data") \/ At(h, "answer") => state = "none"
    /\ \/ At(h, "create") \/ At(h, "send")
       \/ At(h, "clear_state") \/ At(h, "clear_data") \/ At(h, "answer")
       => route[h] \in {"cmd_start", "time_entered", "broadcast_text", "admin_password"}
    /\ route[h] \in {"cmd_start", "time_entered", "broadcast_text", "admin_password"} =>
           asked # "day"
    /\ At(h, "set_state") => asked = Question(h)
    /\ ~At(h, "sorry")
    /\ route[h] \in {"once_type", "recurring_type"} /\ ~At(h, "set_state") => asked = "type"
    /\ route[h] = "once_type" /\ (At(h, "ask") \/ At(h, "set_state")) => data.type = "once"
    /\ route[h] = "recurring_type" /\ At(h, "ask") => data.type = "recurring"
    /\ route[h] = "day_selected" =>
           /\ data.type = "recurring"
           /\ At(h, "set") => local[h].type = "recurring"
           /\ At(h, "ask") \/ At(h, "set_state") => data.cron_day # NULL
    /\ route[h] = "text_entered" =>
           /\ state = "reminder:text"
           /\ At(h, "set") => HasType(local[h])
           /\ At(h, "reread") \/ At(h, "ask") \/ At(h, "set_state") => data.text # NULL
           /\ At(h, "ask") \/ At(h, "set_state") => local[h].type = data.type
    /\ route[h] = "date_entered" =>
           /\ state = "reminder:date"
           /\ At(h, "set") => HasType(local[h]) /\ local[h].text # NULL /\ local[h].type = "once"
           /\ At(h, "ask") \/ At(h, "set_state") => data.fire_at # NULL
    /\ route[h] = "time_entered" /\ At(h, "read") => state = "reminder:time"

Alone == \A g, h \in Handlers : ~At(g, "idle") /\ ~At(h, "idle") => g = h
Busy == \A h \in Handlers : ~At(h, "idle") => InHand(h)

Waiting == orderly => Alone /\ Resting /\ Busy

LEMMA StepKeepsOrder ==
    ASSUME Calls, NEW h \in Handlers, Step(h)
    PROVE  orderly' = orderly /\ \A g \in Handlers : ~At(g, "idle")' => ~At(g, "idle")
<1> USE DEF Calls, At, Goto, Ends, userVars
<1>1. CASE Reject(h)
  BY <1>1 DEF Reject
<1>2. CASE GetData(h)
  BY <1>2 DEF GetData
<1>3. CASE SetData(h)
  BY <1>3 DEF SetData
<1>4. CASE Asks(h)
  BY <1>4 DEF Asks
<1>5. CASE SetState(h)
  BY <1>5 DEF SetState
<1>6. CASE ReadData(h)
  BY <1>6 DEF ReadData
<1>7. CASE CreateReminder(h)
  BY <1>7 DEF CreateReminder
<1>8. CASE Sorry(h)
  BY <1>8 DEF Sorry
<1>9. CASE ClearState(h)
  BY <1>9 DEF ClearState
<1>10. CASE ClearData(h)
  BY <1>10 DEF ClearData
<1>11. CASE AnswerArrives(h)
  BY <1>11 DEF AnswerArrives
<1>12. CASE AdminOnly(h)
  BY <1>12 DEF AdminOnly
<1>13. CASE SendBroadcast(h)
  BY <1>13 DEF SendBroadcast
<1>14. CASE AdminPassword(h)
  BY <1>14 DEF AdminPassword
<1>15. CASE CallFails(h)
  BY <1>15 DEF CallFails
<1>16. CASE StorageFails(h)
  BY <1>16 DEF StorageFails
<1> QED BY <1>1, <1>2, <1>3, <1>4, <1>5, <1>6, <1>7, <1>8, <1>9, <1>10, <1>11, <1>12, <1>13, <1>14,
        <1>15, <1>16 DEF Step

LEMMA SetDataHas ==
    ASSUME Base, NEW h \in Handlers, SetData(h), InHand(h), Resting, NullAssumption
    PROVE  Resting' /\ (~At(h, "idle") => InHand(h))'
<1> DEFINE d == local[h]
           r == route[h]
<1>1. /\ r \in DataRoutes /\ Fed(h) /\ ~At(h, "idle") /\ At(h, "set") /\ d \in Data
      /\ data' = [d EXCEPT ![Field[r]] = Given(h)]
      /\ state' = state /\ asked' = asked /\ local'[h] = d /\ route'[h] = r
      /\ pc'[h] = (IF r = "text_entered" THEN "reread" ELSE "ask")
  BY DEF SetData, Goto, userVars, Base, Calls, Shapes, Shaped, At
<1> HIDE DEF d, r
<1>2. CASE r \in {"once_type", "recurring_type"}
  <2>1. Field[r] = "type" /\ Given(h) = (IF r = "once_type" THEN "once" ELSE "recurring")
    BY <1>1, <1>2 DEF Fed, Field, Given, r
  <2>2. data'.type = (IF r = "once_type" THEN "once" ELSE "recurring")
    BY <1>1, <2>1 DEF Data
  <2>3. state = "none" /\ asked = "type"
    BY <1>1, <1>2 DEF InHand, r, At
  <2> QED BY <1>1, <1>2, <2>2, <2>3 DEF Resting, InHand, At, r
<1>3. CASE r = "day_selected"
  <2>1. Field[r] = "cron_day" /\ Given(h) \in Values
    BY <1>1, <1>3 DEF Fed, Field, Given, r
  <2>2. d.type = "recurring" /\ state = "none"
    BY <1>1, <1>3 DEF InHand, r, d
  <2>3. data'.type = "recurring" /\ data'.cron_day # NULL
    BY <1>1, <2>1, <2>2, NullAssumption DEF Data
  <2> QED BY <1>1, <1>3, <2>2, <2>3 DEF Resting, InHand, At, r
<1>4. CASE r = "text_entered"
  <2>1. Field[r] = "text" /\ Given(h) \in Message
    BY <1>1, <1>4 DEF Fed, Field, Given, r
  <2>2. HasType(d) /\ state = "reminder:text"
    BY <1>1, <1>4 DEF InHand, r, d
  <2>3. data'.type = d.type /\ data'.cron_day = d.cron_day /\ data'.text # NULL
    BY <1>1, <2>1, NullAssumption DEF Data
  <2>4. HasType(data)' /\ asked \notin {"nothing", "type", "day"}
    BY <2>2, <2>3 DEF HasType, Resting
  <2> QED BY <1>1, <1>4, <2>2, <2>3, <2>4 DEF Resting, InHand, At, r
<1>5. CASE r = "date_entered"
  <2>1. Field[r] = "fire_at" /\ Given(h) \in Values
    <3>1. input[h] \in Message /\ input[h].kind = "date"
      BY <1>1, <1>5 DEF Fed, r
    <3>2. input[h].value \in Values
      BY <3>1 DEF Message, Typed, Menu
    <3> QED BY <1>5, <3>2 DEF Field, Given, r
  <2>2. HasType(d) /\ d.text # NULL /\ d.type = "once" /\ state = "reminder:date"
    BY <1>1, <1>5 DEF InHand, r, d
  <2>3. data'.type = d.type /\ data'.cron_day = d.cron_day /\ data'.text = d.text
        /\ data'.fire_at # NULL
    BY <1>1, <2>1, NullAssumption DEF Data
  <2>4. HasType(data)' /\ asked \notin {"nothing", "type", "day"}
    BY <2>2, <2>3 DEF HasType, Resting
  <2> QED BY <1>1, <1>5, <2>2, <2>3, <2>4 DEF Resting, InHand, At, r
<1> QED BY <1>1, <1>2, <1>3, <1>4, <1>5 DEF DataRoutes

\* A question goes with the state of the one who asks.
LEMMA QuestionOf ==
    ASSUME NEW h \in Handlers, route[h] \in AskRoutes, Storage, Calls
    PROVE  /\ Question(h) = "type" <=> route[h] = "add_reminder_start"
           /\ Question(h) = "day" <=> route[h] = "recurring_type"
           /\ Question(h) = "text" <=> route[h] \in {"once_type", "day_selected"}
           /\ Question(h) = "date" <=> route[h] = "text_entered" /\ local[h].type # "recurring"
           /\ Question(h) = "time" <=>
                  \/ route[h] = "text_entered" /\ local[h].type = "recurring"
                  \/ route[h] = "date_entered"
           /\ Question(h) # "nothing"
BY DEF Question, AskRoutes, DataRoutes

LEMMA StatesSet ==
    /\ DOMAIN StateOf = {"text", "date", "time", "broadcast", "password"}
    /\ StateOf["text"] = "reminder:text" /\ StateOf["date"] = "reminder:date"
    /\ StateOf["time"] = "reminder:time" /\ StateOf["broadcast"] = "broadcast.text"
    /\ StateOf["password"] = "admin:password"
BY DEF StateOf

LEMMA AsksHas ==
    ASSUME Base, NEW h \in Handlers, Asks(h), InHand(h), Resting, orderly
    PROVE  Resting' /\ (~At(h, "idle") => InHand(h))'
<1> DEFINE q == Question(h)
<1>1. route[h] \in AskRoutes /\ At(h, "ask") /\ asked' = q /\ data' = data /\ state' = state
  BY DEF Asks, Base, Shapes, Shaped, storageVars
<1>2. Storage /\ Calls
  BY DEF Base
<1>3. CASE q \in DOMAIN StateOf
  <2>1. pc'[h] = "set_state" /\ route'[h] = route[h] /\ local' = local
    BY <1>2, <1>3 DEF Asks, Goto, Calls
  <2>2. Question(h)' = q /\ q \notin {"nothing", "type", "day"}
    BY <1>3, <2>1, StatesSet DEF Question
  <2>3. Resting'
    BY <1>1, <2>2 DEF Resting
  <2> QED BY <1>1, <2>1, <2>2, <2>3 DEF InHand, At
<1>4. CASE q \notin DOMAIN StateOf
  <2>1. pc'[h] = "idle"
    BY <1>2, <1>4 DEF Asks, Ends, Calls
  <2>2. q # "nothing" /\ (q = "type" <=> route[h] = "add_reminder_start")
        /\ (q = "day" <=> route[h] = "recurring_type")
    BY <1>1, <1>2, QuestionOf
  <2> HIDE DEF q
  <2>3. Resting'
    BY <1>1, <2>2 DEF Resting, InHand
  <2> QED BY <2>1, <2>3 DEF At
<1> QED BY <1>3, <1>4

LEMMA SetStateHas ==
    ASSUME Base, NEW h \in Handlers, SetState(h), InHand(h), Resting
    PROVE  Resting' /\ At(h, "idle")'
<1> DEFINE q == Question(h)
<1>1. /\ route[h] \in AskRoutes /\ q \in DOMAIN StateOf /\ At(h, "set_state")
      /\ state' = StateOf[q] /\ data' = data /\ asked' = asked /\ asked = q
      /\ At(h, "idle")'
  BY DEF SetState, Base, Shapes, Shaped, userVars, InHand, Ends, Calls, At
<1>2. Storage /\ Calls
  BY DEF Base
<1>0. route[h] \in AskRoutes
  BY <1>1
<1>3. /\ q = "text" => route[h] \in {"once_type", "day_selected"}
      /\ q = "date" => route[h] = "text_entered" /\ local[h].type # "recurring"
      /\ q = "time" =>
             \/ route[h] = "date_entered"
             \/ route[h] = "text_entered" /\ local[h].type = "recurring"
  <2>1. q = "text" => route[h] \in {"once_type", "day_selected"}
    BY <1>0, <1>2, QuestionOf
  <2>2. q = "date" => route[h] = "text_entered" /\ local[h].type # "recurring"
    BY <1>0, <1>2, QuestionOf
  <2>3. q = "time" =>
             \/ route[h] = "date_entered"
             \/ route[h] = "text_entered" /\ local[h].type = "recurring"
    BY <1>0, <1>2, QuestionOf
  <2> QED BY <2>1, <2>2, <2>3
<1> HIDE DEF q
<1>4. q = "text" => HasType(data)
  BY <1>1, <1>3 DEF InHand, HasType, ReminderType
<1>5. q = "date" => HasType(data) /\ data.text # NULL /\ data.type = "once"
  BY <1>1, <1>3 DEF InHand, Resting, HasType, ReminderType
<1>6. q = "time" => HasType(data) /\ Complete(data)
  <2>1. q = "time" => HasType(data) /\ data.text # NULL
    BY <1>1, <1>3 DEF InHand, Resting
  <2>2. q = "time" => (data.type = "once" => data.fire_at # NULL)
    BY <1>1, <1>3 DEF InHand
  <2>3. HasType(data) => data.type # NULL
    BY NullAssumption DEF HasType
  <2> QED BY <2>1, <2>2, <2>3 DEF Complete
<1>7. /\ state' = "reminder:text" => q = "text"
      /\ state' = "reminder:date" => q = "date"
      /\ state' = "reminder:time" => q = "time"
      /\ q \notin {"nothing", "type", "day"}
  BY <1>1, StatesSet
<1> QED BY <1>1, <1>4, <1>5, <1>6, <1>7 DEF Resting

LEMMA ReadDataGoes ==
    ASSUME Calls, NEW h \in Handlers, ReadData(h), Complete(data), ~Raises(data)
    PROVE  pc'[h] = "create" /\ route'[h] = route[h]
<1>1. Goto(h, IF Complete(data) THEN "create" ELSE "sorry")
  BY DEF ReadData
<1>2. Goto(h, "create")
  BY <1>1
<1> QED BY <1>2 DEF Goto, Calls

LEMMA PasswordGoes ==
    ASSUME Calls, NEW h \in Handlers, AdminPassword(h)
    PROVE  \/ pc'[h] = "idle"
           \/ pc'[h] = "clear_state" /\ route'[h] = route[h]
<1>1. Ends(h) \/ Goto(h, "clear_state")
  <2>1. CASE input[h].kind = "password"
    BY <2>1 DEF AdminPassword
  <2>2. CASE input[h].kind # "password"
    BY <2>2 DEF AdminPassword
  <2> QED BY <2>1, <2>2
<1> QED BY <1>1 DEF Ends, Goto, Calls

LEMMA HandlerWaits ==
    ASSUME Base, orderly, Resting, \A g \in Handlers : ~At(g, "idle") => InHand(g),
           NEW h \in Handlers, Step(h)
    PROVE  Resting' /\ (~At(h, "idle") => InHand(h))'
<1>0. ReadData(h) /\ Complete(data) /\ ~Raises(data) =>
          pc'[h] = "create" /\ route'[h] = route[h]
  BY ReadDataGoes DEF Base
<1> USE NullAssumption
    DEF Base, Calls, Shapes, Resting, InHand, At, Goto, Ends, Question, storageVars, userVars
<1>1. CASE Reject(h)
  BY <1>1 DEF Reject
<1>2. CASE GetData(h)
  <2>0. pc[h] \in {"get", "reread"}
    BY <1>2 DEF GetData
  <2>1. /\ local'[h] = data /\ data' = data /\ state' = state /\ asked' = asked
        /\ route'[h] = route[h] /\ InHand(h) /\ route[h] \in DataRoutes
    <3>1. local'[h] = data /\ data' = data /\ state' = state /\ asked' = asked
          /\ route'[h] = route[h]
      BY <1>2 DEF GetData
    <3>2. InHand(h)
      BY <2>0
    <3>3. route[h] \in DataRoutes
      BY <2>0 DEF Shaped, DataRoutes
    <3> QED BY <3>1, <3>2, <3>3
  <2>2. Resting'
    BY <2>1
  <2>3. CASE At(h, "get")
    <3>1. pc'[h] = "set"
      BY <1>2, <2>3 DEF GetData
    <3> QED BY <2>1, <2>2, <2>3, <3>1 DEF HasType
  <2>4. CASE At(h, "reread")
    <3>1. pc'[h] = "ask" /\ route[h] = "text_entered"
      BY <1>2, <2>4 DEF GetData, Shaped
    <3> QED BY <2>1, <2>2, <2>4, <3>1
  <2> QED BY <1>2, <2>3, <2>4 DEF GetData
<1>3. CASE SetData(h)
  BY <1>3, SetDataHas DEF SetData
<1>4. CASE Asks(h)
  BY <1>4, AsksHas DEF Asks
<1>5. CASE SetState(h)
  <2>1. InHand(h)
    BY <1>5 DEF SetState
  <2> QED BY <1>5, <2>1, SetStateHas
<1>6. CASE ReadData(h)
  <2>1. Resting'
    BY <1>6 DEF ReadData
  <2>2. route[h] = "time_entered" /\ state = "reminder:time"
    BY <1>6 DEF ReadData, Shaped
  <2>3. Complete(data) /\ ~Raises(data)
    BY <2>2 DEF Complete, Raises
  <2>4. pc'[h] = "create" /\ route'[h] = route[h]
    BY <1>6, <2>3, <1>0
  <2>5. InHand(h) /\ state' = state /\ asked' = asked
    BY <1>6 DEF ReadData
  <2> QED BY <2>1, <2>2, <2>4, <2>5
<1>7. CASE CreateReminder(h)
  BY <1>7 DEF CreateReminder
<1>8. CASE Sorry(h)
  BY <1>8 DEF Sorry
<1>9. CASE ClearState(h)
  BY <1>9 DEF ClearState
<1>10. CASE ClearData(h)
  <2>1. InHand(h) /\ pc[h] = "clear_data"
    BY <1>10 DEF ClearData
  <2>2. state = "none" /\ asked # "day"
        /\ route[h] \in {"cmd_start", "time_entered", "broadcast_text", "admin_password"}
    BY <2>1
  <2>3. state' = state /\ asked' = asked
    BY <1>10 DEF ClearData
  <2>4. Resting'
    BY <2>2, <2>3
  <2>5. CASE route[h] = "time_entered" /\ ~Complete(local[h])
    <3>1. pc'[h] = "idle"
      BY <1>10, <2>5 DEF ClearData
    <3> QED BY <2>4, <3>1
  <2>6. CASE ~(route[h] = "time_entered" /\ ~Complete(local[h]))
    <3>1. pc'[h] = "answer" /\ route'[h] = route[h]
      BY <1>10, <2>6 DEF ClearData
    <3> QED BY <2>2, <2>3, <2>4, <3>1
  <2> QED BY <2>5, <2>6
<1>11. CASE AnswerArrives(h)
  BY <1>11 DEF AnswerArrives
<1>12. CASE AdminOnly(h)
  <2>1. route[h] \in {"broadcasts", "broadcast_text"} /\ InHand(h) /\ data' = data
        /\ state' = state /\ asked' = asked
    BY <1>12 DEF AdminOnly, Shaped
  <2>2. Resting'
    BY <2>1
  <2>3. CASE ~authorized
    <3>1. pc'[h] = "idle"
      BY <1>12, <2>3 DEF AdminOnly
    <3> QED BY <2>2, <3>1
  <2>4. CASE authorized
    <3>1. pc'[h] = (IF route[h] = "broadcasts" THEN "ask" ELSE "send") /\ route'[h] = route[h]
      BY <1>12, <2>4 DEF AdminOnly
    <3> QED BY <2>1, <2>2, <3>1
  <2> QED BY <2>3, <2>4
<1>13. CASE SendBroadcast(h)
  BY <1>13 DEF SendBroadcast
<1>14. CASE AdminPassword(h)
  <2>1. route[h] = "admin_password" /\ InHand(h) /\ data' = data /\ state' = state
        /\ asked' = asked
    BY <1>14 DEF AdminPassword, Shaped
  <2>2. Resting'
    BY <2>1
  <2>3. \/ pc'[h] = "idle"
        \/ pc'[h] = "clear_state" /\ route'[h] = route[h]
    BY <1>14, PasswordGoes
  <2> QED BY <2>1, <2>2, <2>3
<1>15. CASE CallFails(h)
  BY <1>15 DEF CallFails
<1>16. CASE StorageFails(h)
  BY <1>16 DEF StorageFails
<1> QED BY <1>1, <1>2, <1>3, <1>4, <1>5, <1>6, <1>7, <1>8, <1>9, <1>10, <1>11, <1>12, <1>13, <1>14,
        <1>15, <1>16 DEF Step

LEMMA StepWaiting ==
    ASSUME Base, Waiting, NullAssumption, NEW h \in Handlers, Step(h)
    PROVE  Waiting'
<1>1. Calls
  BY DEF Base
<1>2. orderly' = orderly /\ \A g \in Handlers : ~At(g, "idle")' => ~At(g, "idle")
  BY <1>1, StepKeepsOrder
<1> SUFFICES ASSUME orderly PROVE Alone' /\ Resting' /\ Busy'
  BY <1>2 DEF Waiting
<1>3. Alone /\ Resting /\ Busy
  BY DEF Waiting
<1>4. Alone'
  BY <1>2, <1>3 DEF Alone
<1>5. Resting' /\ (~At(h, "idle") => InHand(h))'
  BY <1>3, HandlerWaits DEF Busy
<1>6. ~At(h, "idle")
  BY DEF Step, Reject, GetData, SetData, Asks, SetState, ReadData, CreateReminder, Sorry,
     ClearState, ClearData, AnswerArrives, AdminOnly, SendBroadcast, AdminPassword, CallFails,
     StorageFails, At
<1>7. \A g \in Handlers : g # h => At(g, "idle")'
  BY <1>2, <1>3, <1>6 DEF Alone
<1>8. Busy'
  BY <1>5, <1>7 DEF Busy
<1> QED BY <1>4, <1>5, <1>8

\* An update that waited for the last one to be answered.
LEMMA DispatchWaits ==
    ASSUME Base, Waiting, orderly, NEW h \in Handlers, NEW r \in Route, NEW u, NEW k,
           Dispatch(h, r, u, k), \A g \in Handlers : At(g, "idle"),
           orderly' = orderly, state' = state, data' = data, Resting',
           r = "text_entered" => state = "reminder:text",
           r = "date_entered" => state = "reminder:date",
           r = "time_entered" => state = "reminder:time",
           r \in {"add_reminder_start", "once_type", "recurring_type", "day_selected"} =>
               state = "none",
           r \in {"once_type", "recurring_type"} => asked' = "type",
           r = "day_selected" => data.type = "recurring",
           r \in {"cmd_start", "time_entered", "broadcast_text", "admin_password"} =>
               asked' # "day"
    PROVE  Waiting'
<1>1. pc'[h] = FirstCall[r] /\ route'[h] = r
  BY DEF Dispatch, Base, Calls
<1>2. \A g \in Handlers : g # h => At(g, "idle")'
  BY DEF Dispatch, Base, Calls, At
<1>3. /\ FirstCall[r] \notin {"set", "reread", "set_state", "sorry", "create", "send",
                              "clear_data", "answer"}
      /\ FirstCall[r] = "ask" => r \in {"add_reminder_start", "admin_entry"}
      /\ FirstCall[r] = "clear_state" => r = "cmd_start"
  BY DEF FirstCall, Route
<1>4. InHand(h)'
  BY <1>1, <1>3 DEF InHand, At
<1>5. Alone' /\ Busy'
  BY <1>2, <1>4 DEF Alone, Busy
<1> QED BY <1>5 DEF Waiting

LEMMA RouteSays ==
    ASSUME NEW m \in Message, NEW s \in States
    PROVE  /\ MessageRoute(m, s) = "text_entered" => s = "reminder:text"
           /\ MessageRoute(m, s) = "date_entered" => s = "reminder:date"
           /\ MessageRoute(m, s) = "time_entered" => s = "reminder:time"
           /\ MessageRoute(m, s) = "broadcast_text" => s = "broadcast.text"
           /\ MessageRoute(m, s) = "admin_password" => s = "admin:password"
           /\ MessageRoute(m, s) = "add_reminder_start" => m.kind = "add"
           /\ MessageRoute(m, s) = "cmd_start" => m.kind = "start"
           /\ MessageRoute(m, s) = "broadcasts" => m.kind = "broadcasts"
<1> DEFINE r == MessageRoute(m, s)
<1>1. DOMAIN Early = {"start", "add"} /\ Early["start"] = "cmd_start"
      /\ Early["add"] = "add_reminder_start"
  BY DEF Early
<1>2. /\ DOMAIN ReminderStates = {"reminder:text", "reminder:date", "reminder:time"}
      /\ ReminderStates["reminder:text"] = "text_entered"
      /\ ReminderStates["reminder:date"] = "date_entered"
      /\ ReminderStates["reminder:time"] = "time_entered"
  BY DEF ReminderStates
<1>3. CASE m.kind \in {"start", "add"}
  <2>1. r = Early[m.kind]
    BY <1>1, <1>3 DEF MessageRoute
  <2> QED BY <1>1, <1>3, <2>1
<1>4. CASE m.kind \notin {"start", "add"} /\ s \in DOMAIN ReminderStates
  <2>1. r = ReminderStates[s]
    BY <1>1, <1>4 DEF MessageRoute
  <2> HIDE DEF r
  <2> QED BY <1>2, <1>4, <2>1 DEF r
<1>5. CASE m.kind \notin {"start", "add"} /\ s \notin DOMAIN ReminderStates
  <2>1. r = IF m.kind = "broadcasts" THEN "broadcasts"
            ELSE IF s = "broadcast.text" THEN "broadcast_text"
            ELSE IF m.kind = "admin" THEN "admin_entry"
            ELSE IF s = "admin:password" THEN "admin_password" ELSE NULL
    BY <1>1, <1>5, Zenon DEF MessageRoute
  <2> QED BY <1>5, <2>1, NullAssumption DEF Route
<1> QED BY <1>1, <1>3, <1>4, <1>5

LEMMA RouteAdmin ==
    ASSUME NEW m \in Message, NEW s \in States, MessageRoute(m, s) = "admin_entry"
    PROVE  m.kind = "admin"
<1>1. DOMAIN Early = {"start", "add"} /\ Early["start"] = "cmd_start"
      /\ Early["add"] = "add_reminder_start"
  BY DEF Early
<1>2. /\ DOMAIN ReminderStates = {"reminder:text", "reminder:date", "reminder:time"}
      /\ ReminderStates["reminder:text"] = "text_entered"
      /\ ReminderStates["reminder:date"] = "date_entered"
      /\ ReminderStates["reminder:time"] = "time_entered"
  BY DEF ReminderStates
<1>3. m.kind \notin DOMAIN Early
  BY <1>1 DEF MessageRoute
<1>4. MessageRoute(m, s) = IF s \in DOMAIN ReminderStates THEN ReminderStates[s]
          ELSE IF m.kind = "broadcasts" THEN "broadcasts"
          ELSE IF s = "broadcast.text" THEN "broadcast_text"
          ELSE IF m.kind = "admin" THEN "admin_entry"
          ELSE IF s = "admin:password" THEN "admin_password" ELSE NULL
  BY <1>3, Zenon DEF MessageRoute
<1>5. s \notin DOMAIN ReminderStates
  BY <1>2, <1>4
<1> QED BY <1>4, <1>5, NullAssumption DEF Route

LEMMA OnlyAsked ==
    /\ \A q \in DOMAIN Answers : "add" \in Answers[q] => q = "nothing"
    /\ \A q \in DOMAIN Answers : Answers[q] \cap {"once", "recurring"} # {} => q = "type"
    /\ \A q \in DOMAIN Answers : "day" \in Answers[q] => q = "day"
<1>1. DOMAIN Answers = {"text", "date", "time", "broadcast", "password", "nothing", "type",
                        "day", "start"}
  BY DEF Answers
<1> QED BY <1>1 DEF Answers

LEMMA SendTextWaits ==
    ASSUME Inv, Waiting, NullAssumption, NEW h \in Handlers, NEW m \in Message, SendText(h, m)
    PROVE  Waiting'
<1> DEFINE r == MessageRoute(m, state)
<1>1. /\ orderly' = orderly /\ state' = state /\ data' = data /\ MayAct(m.kind)
      /\ r \in MessageRoutes /\ r \in Route
  BY Routing DEF SendText, storageVars, Inv, Base, Storage
<1> SUFFICES ASSUME orderly PROVE Waiting'
  BY <1>1 DEF Waiting
<1>2. /\ \A g \in Handlers : At(g, "idle")
      /\ m.kind \in Answers[asked] \cup {"start"}
  BY <1>1 DEF MayAct
<1>3. asked' = (IF m.kind = "start" THEN "start" ELSE asked)
  BY DEF SendText
<1>4. PICK k : Dispatch(h, r, m, k)
  BY DEF SendText
<1>5. /\ r = "text_entered" => state = "reminder:text"
      /\ r = "date_entered" => state = "reminder:date"
      /\ r = "time_entered" => state = "reminder:time"
      /\ r = "broadcast_text" => state = "broadcast.text"
      /\ r = "admin_password" => state = "admin:password"
      /\ r = "add_reminder_start" => m.kind = "add"
      /\ r = "cmd_start" => m.kind = "start"
  BY RouteSays DEF Inv, Base, Storage
<1>6. r \notin {"once_type", "recurring_type", "day_selected"}
  BY <1>1 DEF MessageRoutes
<1>7. m.kind = "add" => asked = "nothing"
  BY <1>2, OnlyAsked DEF Inv, Rest
<1> HIDE DEF r
<1>8. Resting
  BY DEF Waiting
<1>9. Resting'
  BY <1>1, <1>3, <1>8 DEF Resting
<1>10. r = "add_reminder_start" => state = "none"
  BY <1>5, <1>7, <1>8 DEF Resting
<1>11. r \in {"cmd_start", "time_entered", "broadcast_text", "admin_password"} => asked' # "day"
  BY <1>3, <1>5, <1>8 DEF Resting
<1> QED
  BY <1>1, <1>2, <1>4, <1>5, <1>6, <1>9, <1>10, <1>11, DispatchWaits DEF Inv

LEMMA PressButtonWaits ==
    ASSUME Inv, Waiting, NEW h \in Handlers, NEW k \in Messages, NEW b \in Button,
           PressButton(h, k, b)
    PROVE  Waiting'
<1> DEFINE r == ButtonRoute[b.kind]
<1>1. /\ orderly' = orderly /\ state' = state /\ data' = data /\ asked' = asked
      /\ MayAct(b.kind) /\ Dispatch(h, r, b, k)
  BY DEF PressButton, storageVars
<1> SUFFICES ASSUME orderly PROVE Waiting'
  BY <1>1 DEF Waiting
<1>2. /\ \A g \in Handlers : At(g, "idle")
      /\ b.kind \in Answers[asked] \cup {"start"}
  BY <1>1 DEF MayAct
<1>3. /\ b.kind \in {"once", "recurring", "day"}
      /\ b.kind = "day" => r = "day_selected"
      /\ b.kind # "day" => r \in {"once_type", "recurring_type"}
  BY DEF Button, ButtonRoute
<1>4. /\ b.kind = "day" => asked = "day"
      /\ b.kind # "day" => asked = "type"
  BY <1>2, <1>3, OnlyAsked DEF Inv, Rest
<1>5. r \in Route
  BY <1>3 DEF Route
<1> HIDE DEF r
<1>6. Resting /\ Resting'
  BY <1>1 DEF Waiting, Resting
<1>7. state = "none" /\ (r = "day_selected" => data.type = "recurring")
  BY <1>3, <1>4, <1>6 DEF Resting
<1>8. r \in {"once_type", "recurring_type"} => asked' = "type"
  BY <1>1, <1>3, <1>4
<1> QED
  BY <1>1, <1>2, <1>3, <1>5, <1>6, <1>7, <1>8, DispatchWaits DEF Inv

LEMMA NextWaiting == NullAssumption /\ Inv /\ Waiting /\ [Next]_vars => Waiting'
<1> SUFFICES ASSUME NullAssumption, Inv, Waiting, [Next]_vars PROVE Waiting'
  OBVIOUS
<1>1. ASSUME NEW h \in Handlers, Step(h) PROVE Waiting'
  BY <1>1, StepWaiting DEF Inv
<1>2. CASE Restart
  <2>1. orderly' = orderly /\ state' = state /\ data' = data /\ asked' = asked
    BY <1>2 DEF Restart, storageVars, userVars
  <2>2. \A h \in Handlers : At(h, "idle")'
    BY <1>2 DEF Restart, At
  <2> QED BY <2>1, <2>2 DEF Waiting, Alone, Busy, Resting
<1>3. CASE UNCHANGED vars
  BY <1>3 DEF vars, Waiting, Alone, Resting, Busy, InHand, At, Question
<1>4. CASE Next
  BY <1>1, <1>2, <1>4, SendTextWaits, PressButtonWaits DEF Next, Step
<1> QED BY <1>3, <1>4

\* Whoever waits and answers what was asked is asked for the time only when the rest of the
\* reminder is stored, wherever a call, Redis or the process fails (handlers.py,
\* create_router).
THEOREM AskedForTimeOfWholeReminder == Spec => []StateHasItsData
<1>1. Init => Waiting
  BY DEF Init, Waiting, Alone, Resting, Busy, At
<1>2. Waiting => StateHasItsData
  BY DEF Waiting, Resting, HasType, StateHasItsData
<1> QED
  BY <1>1, <1>2, InitInv, NextInv, NextWaiting, BoundsAssumption, NullAssumption, PTL DEF Spec

-------------------------------------------------------------------------------
(* Repetitions.  `created` is empty from "add" to the insert, `broadcast`  *)
(* is 0 from "broadcasts" to the COMMIT, and behind both only clear() is   *)
(* left: a dialog that has done its work stays open only if a mishap ends  *)
(* the handler before state.clear() has begun.                             *)

Opened == {"add_reminder_start"} \cup DataRoutes

FirstTime(h) ==
    /\ route[h] \in Opened => created = <<>>
    /\ route[h] = "time_entered" => asked \notin {"type", "day"}
    /\ At(h, "read") \/ At(h, "create") => state = "reminder:time" /\ route[h] = "time_entered"
    /\ route[h] = "broadcasts" => broadcast = 0
    /\ At(h, "send") \/ (At(h, "gate") /\ route[h] = "broadcast_text") =>
           state = "broadcast.text"

Unrepeated ==
    /\ Len(created) <= 1 + mishaps /\ broadcast <= 1 + mishaps
    /\ state \in {"reminder:text", "reminder:date"} \/ asked \in {"type", "day"} =>
           created = <<>>
    /\ state = "reminder:time" /\ (\A h \in Handlers : ~At(h, "clear_state")) =>
           Len(created) <= mishaps
    /\ state = "broadcast.text" /\ (\A h \in Handlers : ~At(h, "clear_state")) =>
           broadcast <= mishaps
    /\ \A h \in Handlers : ~At(h, "idle") => FirstTime(h)

\* A step that writes neither the state, the question nor a row.
Quiet(h) ==
    /\ created' = created /\ broadcast' = broadcast
    /\ state' = state /\ asked' = asked /\ mishaps' = mishaps
    /\ pc[h] # "clear_state"
    /\ \/ pc'[h] = "idle"
       \/ /\ route'[h] = route[h] /\ pc'[h] # "gate"
          /\ pc'[h] \in {"read", "create"} => pc[h] = "read"
          /\ pc'[h] = "send" => pc[h] = "gate" /\ route[h] = "broadcast_text"

LEMMA QuietUnrepeated ==
    ASSUME Unrepeated, NEW h \in Handlers, Quiet(h), ~At(h, "idle"),
           \A g \in Handlers : g # h => At(g, "idle") /\ At(g, "idle")'
    PROVE  Unrepeated'
<1>1. FirstTime(h)
  BY DEF Unrepeated
<1>2. (~At(h, "idle") => FirstTime(h))'
  BY <1>1 DEF Quiet, FirstTime, At
<1>3. \A g \in Handlers : ~At(g, "clear_state")
  BY DEF Quiet, At
<1> QED BY <1>2, <1>3 DEF Unrepeated, Quiet

LEMMA StepQuiet ==
    ASSUME Base, NEW h \in Handlers,
           \/ Reject(h) \/ GetData(h) \/ SetData(h) \/ ReadData(h) \/ AdminOnly(h)
           \/ AdminPassword(h) \/ ClearData(h) \/ CallFails(h)
    PROVE  Quiet(h)
<1> USE DEF Quiet, Base, Calls, At, Goto, Ends, storageVars, userVars
<1>1. CASE Reject(h)
  BY <1>1 DEF Reject
<1>2. CASE GetData(h)
  BY <1>2 DEF GetData
<1>3. CASE SetData(h)
  BY <1>3 DEF SetData
<1>4. CASE ReadData(h)
  BY <1>4 DEF ReadData
<1>5. CASE AdminOnly(h)
  BY <1>5 DEF AdminOnly, Shapes, Shaped
<1>6. CASE AdminPassword(h)
  BY <1>6 DEF AdminPassword
<1>7. CASE ClearData(h)
  BY <1>7 DEF ClearData
<1>8. CASE CallFails(h)
  BY <1>8 DEF CallFails
<1> QED BY <1>1, <1>2, <1>3, <1>4, <1>5, <1>6, <1>7, <1>8

LEMMA StepUnrepeated ==
    ASSUME Base, Rows, Waiting, orderly, Unrepeated, NEW h \in Handlers, Step(h)
    PROVE  Unrepeated'
<1>1. Calls /\ Storage /\ Shaped(h) /\ mishaps \in Nat
  BY DEF Base, Shapes
<1>2. Len(created) \in Nat /\ created \in Seq(Reminder) /\ broadcast \in Nat
  BY DEF Rows
<1>3. ~At(h, "idle")
  BY DEF Step, Reject, GetData, SetData, Asks, SetState, ReadData, CreateReminder, Sorry,
     ClearState, ClearData, AnswerArrives, AdminOnly, SendBroadcast, AdminPassword, CallFails,
     StorageFails, At
<1>4. \A g \in Handlers : g # h => At(g, "idle") /\ At(g, "idle")'
  BY <1>1, <1>3, StepKeepsOrder DEF Waiting, Alone
<1>5. InHand(h) /\ FirstTime(h) /\ Resting
  BY <1>3 DEF Waiting, Busy, Unrepeated
<1>6. CASE \/ Reject(h) \/ GetData(h) \/ SetData(h) \/ ReadData(h) \/ AdminOnly(h)
           \/ AdminPassword(h) \/ ClearData(h) \/ CallFails(h)
  BY <1>3, <1>4, <1>5, <1>6, StepQuiet, QuietUnrepeated
<1>7. CASE Asks(h)
  <2>1. /\ created' = created /\ broadcast' = broadcast /\ state' = state /\ mishaps' = mishaps
        /\ asked' = Question(h) /\ At(h, "ask") /\ route[h] \in AskRoutes
    BY <1>1, <1>7 DEF Asks, Shaped, storageVars
  <2>2. pc'[h] = "idle" \/ (pc'[h] = "set_state" /\ route'[h] = route[h])
    BY <1>1, <1>7 DEF Asks, Goto, Ends, Calls
  <2>3. asked' \in {"type", "day"} => created = <<>>
    BY <1>1, <1>5, <2>1, QuestionOf DEF FirstTime, Opened, DataRoutes
  <2>4. (~At(h, "idle") => FirstTime(h))'
    BY <1>5, <2>1, <2>2 DEF FirstTime, At, AskRoutes, DataRoutes
  <2>5. \A g \in Handlers : ~At(g, "clear_state")
    BY <1>4, <2>1 DEF At
  <2> QED BY <1>4, <2>1, <2>3, <2>4, <2>5 DEF Unrepeated
<1>8. CASE SetState(h)
  <2>1. /\ created' = created /\ broadcast' = broadcast
        /\ asked' = asked /\ mishaps' = mishaps /\ pc'[h] = "idle"
        /\ state' = StateOf[Question(h)] /\ At(h, "set_state")
        /\ route[h] \in AskRoutes /\ Question(h) \in DOMAIN StateOf
    BY <1>1, <1>8 DEF SetState, Ends, Shaped, userVars, Calls
  <2>2. CASE route[h] \in Opened
    <3>1. created = <<>>
      BY <1>5, <2>2 DEF FirstTime
    <3>2. Len(created) = 0
      BY <3>1
    <3>3. state' # "broadcast.text"
      <4>1. Question(h) \in {"type", "day", "text", "date", "time"}
        BY <2>2 DEF Question, Opened, DataRoutes
      <4> QED BY <2>1, <4>1, StatesSet
    <3> QED BY <1>1, <1>4, <2>1, <3>1, <3>2, <3>3 DEF Unrepeated, At
  <2>3. CASE route[h] \notin Opened
    <3>1. Question(h) \in {"broadcast", "password"}
      BY <2>1, <2>3 DEF AskRoutes, Opened, Question
    <3>2. state' \in {"broadcast.text", "admin:password"}
      BY <2>1, <3>1, StatesSet
    <3>3. state' = "broadcast.text" => broadcast = 0
      <4>1. state' = "broadcast.text" => Question(h) = "broadcast"
        BY <2>1, <3>1, StatesSet
      <4>2. Question(h) = "broadcast" => route[h] = "broadcasts"
        BY <2>1, <2>3 DEF AskRoutes, Opened, Question
      <4> QED BY <1>5, <4>1, <4>2 DEF FirstTime
    <3> QED BY <1>1, <1>4, <2>1, <3>2, <3>3 DEF Unrepeated, At
  <2> QED BY <2>2, <2>3
<1>9. CASE CreateReminder(h)
  <2>1. /\ broadcast' = broadcast
        /\ state' = state /\ asked' = asked /\ mishaps' = mishaps /\ At(h, "create")
        /\ pc'[h] = "clear_state" /\ route'[h] = route[h] /\ Len(created') = Len(created) + 1
    BY <1>1, <1>2, <1>9 DEF CreateReminder, Goto, storageVars, userVars, Calls
  <2>2. state = "reminder:time" /\ route[h] = "time_entered" /\ asked \notin {"type", "day"}
    BY <1>5, <2>1 DEF FirstTime
  <2>3. Len(created) <= mishaps
    BY <1>4, <2>1, <2>2 DEF Unrepeated, At
  <2>4. FirstTime(h)'
    BY <2>1, <2>2 DEF FirstTime, At, Opened, DataRoutes
  <2>5. At(h, "clear_state")'
    BY <2>1 DEF At
  <2> QED BY <1>1, <1>2, <1>4, <2>1, <2>2, <2>3, <2>4, <2>5 DEF Unrepeated
<1>10. CASE Sorry(h)
  BY <1>5, <1>10 DEF Sorry, InHand
<1>11. CASE ClearState(h)
  <2>1. /\ created' = created /\ broadcast' = broadcast
        /\ asked' = asked /\ mishaps' = mishaps /\ state' = "none"
        /\ pc'[h] = "clear_data" /\ route'[h] = route[h]
    BY <1>1, <1>11 DEF ClearState, Goto, userVars, Calls
  <2>2. FirstTime(h)'
    BY <1>5, <2>1 DEF FirstTime, At
  <2> QED BY <1>4, <2>1, <2>2 DEF Unrepeated
<1>12. CASE AnswerArrives(h)
  <2>1. /\ created' = created /\ broadcast' = broadcast
        /\ asked' = "nothing" /\ mishaps' = mishaps /\ state' = state
        /\ pc'[h] = "idle" /\ At(h, "answer")
    BY <1>1, <1>12 DEF AnswerArrives, Ends, storageVars, Calls
  <2> QED BY <1>4, <2>1 DEF Unrepeated, At
<1>13. CASE StorageFails(h)
  <2>1. /\ created' = created /\ broadcast' = broadcast
        /\ asked' = asked /\ mishaps' = mishaps + 1 /\ state' = state
        /\ pc'[h] = "idle"
    BY <1>1, <1>13 DEF StorageFails, Ends, storageVars, userVars, Calls
  <2> QED BY <1>1, <1>2, <1>4, <2>1 DEF Unrepeated, At
<1>14. CASE SendBroadcast(h)
  <2>1. /\ created' = created /\ broadcast' = broadcast + 1 /\ state' = state
        /\ asked' = asked /\ mishaps' = mishaps
        /\ At(h, "send") /\ pc'[h] = "clear_state" /\ route'[h] = route[h]
    BY <1>1, <1>14 DEF SendBroadcast, Goto, storageVars, userVars, Calls
  <2>2. state = "broadcast.text" /\ route[h] # "broadcasts"
    BY <1>5, <2>1 DEF FirstTime, InHand
  <2>3. broadcast <= mishaps
    BY <1>4, <2>1, <2>2 DEF Unrepeated, At
  <2>4. FirstTime(h)'
    BY <1>5, <2>1, <2>2 DEF FirstTime, At
  <2>5. At(h, "clear_state")'
    BY <2>1 DEF At
  <2> QED BY <1>1, <1>2, <1>4, <2>1, <2>2, <2>3, <2>4, <2>5 DEF Unrepeated
<1> QED BY <1>6, <1>7, <1>8, <1>9, <1>10, <1>11, <1>12, <1>13, <1>14 DEF Step

\* A new handler.  A text or a date is taken as an answer only while nothing is created.
LEMMA DispatchUnrepeated ==
    ASSUME Base, Unrepeated, NEW h \in Handlers, NEW r \in Route, NEW u, NEW k,
           Dispatch(h, r, u, k), \A g \in Handlers : At(g, "idle"),
           state' = state, mishaps' = mishaps, asked' \in {"start", asked},
           created' \in {<<>>, created}, broadcast' \in {0, broadcast},
           r = "broadcasts" => broadcast' = 0,
           r = "broadcast_text" => state = "broadcast.text",
           r \in Opened => created' = <<>>,
           r = "time_entered" => state = "reminder:time" /\ asked \notin {"type", "day"}
    PROVE  Unrepeated'
<1>1. pc'[h] = FirstCall[r] /\ route'[h] = r
  BY DEF Dispatch, Base, Calls
<1>2. \A g \in Handlers : g # h => At(g, "idle")'
  BY DEF Dispatch, Base, Calls, At
<1>3. FirstCall[r] \notin {"create", "send"} /\ (FirstCall[r] = "read" => r = "time_entered")
  BY DEF FirstCall, Route
<1>4. FirstTime(h)'
  BY <1>1, <1>3 DEF FirstTime, At, Opened, DataRoutes
<1>5. mishaps \in Nat /\ Len(<<>>) = 0
  BY DEF Base
<1>6. Len(created)' <= 1 + mishaps /\ (state = "reminder:time" => Len(created)' <= mishaps)
  <2>1. \A g \in Handlers : ~At(g, "clear_state")
    BY DEF At
  <2>2. CASE created' = <<>>
    BY <1>5, <2>2
  <2>3. CASE created' = created
    BY <2>1, <2>3 DEF Unrepeated
  <2> QED BY <2>2, <2>3
<1>7. broadcast' <= 1 + mishaps /\ (state = "broadcast.text" => broadcast' <= mishaps)
  <2>1. \A g \in Handlers : ~At(g, "clear_state")
    BY DEF At
  <2> QED BY <1>5, <2>1 DEF Unrepeated
<1> QED BY <1>2, <1>4, <1>6, <1>7 DEF Unrepeated

LEMMA SendTextUnrepeated ==
    ASSUME Inv, Waiting, orderly, Unrepeated, NEW h \in Handlers, NEW m \in Message,
           SendText(h, m)
    PROVE  Unrepeated'
<1> DEFINE r == MessageRoute(m, state)
<1>1. /\ state' = state /\ mishaps' = mishaps /\ MayAct(m.kind)
      /\ asked' \in {"start", asked}
      /\ created' = (IF m.kind = "add" THEN <<>> ELSE created)
      /\ broadcast' = (IF m.kind = "broadcasts" THEN 0 ELSE broadcast)
      /\ r \in MessageRoutes /\ r \in Route
  BY Routing DEF SendText, storageVars, Inv, Base, Storage
<1>2. \A g \in Handlers : At(g, "idle")
  BY <1>1 DEF MayAct
<1>3. PICK k : Dispatch(h, r, m, k)
  BY DEF SendText
<1>4. /\ r = "text_entered" => state = "reminder:text"
      /\ r = "date_entered" => state = "reminder:date"
      /\ r = "time_entered" => state = "reminder:time"
      /\ r = "add_reminder_start" => m.kind = "add"
      /\ r = "broadcasts" => m.kind = "broadcasts"
      /\ r = "broadcast_text" => state = "broadcast.text"
  BY RouteSays DEF Inv, Base, Storage
<1>5. r \notin {"once_type", "recurring_type", "day_selected"}
  BY <1>1 DEF MessageRoutes
<1> HIDE DEF r
<1>6. r \in Opened => created' = <<>>
  BY <1>1, <1>4, <1>5 DEF Opened, DataRoutes, Unrepeated
<1>7. r = "time_entered" => asked \notin {"type", "day"}
  BY <1>4 DEF Waiting, Resting
<1> QED
  BY <1>1, <1>2, <1>3, <1>4, <1>6, <1>7, DispatchUnrepeated DEF Inv

LEMMA PressButtonUnrepeated ==
    ASSUME Inv, Waiting, orderly, Unrepeated, NEW h \in Handlers, NEW k \in Messages,
           NEW b \in Button, PressButton(h, k, b)
    PROVE  Unrepeated'
<1> DEFINE r == ButtonRoute[b.kind]
<1>1. /\ state' = state /\ mishaps' = mishaps /\ asked' = asked /\ created' = created
      /\ broadcast' = broadcast
      /\ MayAct(b.kind) /\ Dispatch(h, r, b, k)
  BY DEF PressButton, storageVars
<1>2. /\ \A g \in Handlers : At(g, "idle")
      /\ b.kind \in Answers[asked] \cup {"start"}
  BY <1>1 DEF MayAct
<1>3. /\ b.kind \in {"once", "recurring", "day"}
      /\ r \in {"once_type", "recurring_type", "day_selected"}
  BY DEF Button, ButtonRoute
<1>4. asked \in {"type", "day"}
  BY <1>2, <1>3, OnlyAsked DEF Inv, Rest
<1>5. created = <<>>
  BY <1>4 DEF Unrepeated
<1>6. r \in Route
  BY <1>3 DEF Route
<1> HIDE DEF r
<1> QED BY <1>1, <1>2, <1>3, <1>5, <1>6, DispatchUnrepeated DEF Inv

LEMMA NextUnrepeated ==
    /\ NullAssumption /\ Inv /\ Waiting
    /\ orderly => Unrepeated
    /\ [Next]_vars
    => (orderly => Unrepeated)'
<1> SUFFICES ASSUME NullAssumption, Inv, Waiting, orderly => Unrepeated, [Next]_vars, orderly'
             PROVE  Unrepeated'
  OBVIOUS
<1>1. orderly' = orderly
  <2>1. \A h \in Handlers : Step(h) => orderly' = orderly
    BY StepKeepsOrder DEF Inv, Base
  <2>2. \A h \in Handlers, m \in Message : SendText(h, m) => orderly' = orderly
    BY DEF SendText
  <2>3. \A h \in Handlers, k \in Messages, b \in Button : PressButton(h, k, b) => orderly' = orderly
    BY DEF PressButton
  <2>4. Restart \/ UNCHANGED vars => orderly' = orderly
    BY DEF Restart, vars, userVars
  <2> QED BY <2>1, <2>2, <2>3, <2>4 DEF Next, Step
<1>2. orderly /\ Unrepeated
  BY <1>1
<1>3. ASSUME NEW h \in Handlers, Step(h) PROVE Unrepeated'
  BY <1>2, <1>3, StepUnrepeated DEF Inv
<1>4. CASE Restart
  <2>1. /\ created' = created /\ broadcast' = broadcast
        /\ asked' = asked /\ mishaps' = mishaps + 1 /\ state' = state
        /\ \A h \in Handlers : At(h, "idle")'
    BY <1>4 DEF Restart, storageVars, userVars, At
  <2>2. Len(created) \in Nat /\ broadcast \in Nat /\ mishaps \in Nat
    BY DEF Inv, Base, Rows
  <2> QED BY <1>2, <2>1, <2>2 DEF Unrepeated
<1>5. CASE UNCHANGED vars
  BY <1>2, <1>5 DEF vars, Unrepeated, FirstTime, At
<1>6. CASE Next
  BY <1>2, <1>3, <1>4, <1>6, SendTextUnrepeated, PressButtonUnrepeated DEF Next, Step
<1> QED BY <1>5, <1>6

\* Whoever waits and answers what was asked gets a reminder, or a broadcast, again at most
\* once for each failure of Redis or the process (handlers.py, time_entered and
\* broadcast_text: what falls between the COMMIT and clear()).
THEOREM RepeatsFollowMishaps == Spec => []RepeatedOnlyByMishaps
<1>1. Init => Waiting /\ (orderly => Unrepeated)
  <2> SUFFICES ASSUME Init PROVE Waiting /\ Unrepeated
    OBVIOUS
  <2>1. Waiting
    BY DEF Init, Waiting, Alone, Resting, Busy, At
  <2>2. Unrepeated
    BY DEF Init, Unrepeated, At
  <2> QED BY <2>1, <2>2
<1>2. (orderly => Unrepeated) => RepeatedOnlyByMishaps
  BY DEF Unrepeated, RepeatedOnlyByMishaps
<1> QED
  BY <1>1, <1>2, InitInv, NextInv, NextWaiting, NextUnrepeated, BoundsAssumption, NullAssumption,
     PTL DEF Spec

-------------------------------------------------------------------------------
(* What was entered.  Without a mishap the data lags behind the answers of *)
(* an orderly user only while the handler of the last answer stands before *)
(* its set: a text or a date that comes while its state is set answers the *)
(* question that was asked, so it is stored where it was meant.            *)

\* What update_data makes of the data d.
Stored(h, d) == [d EXCEPT ![Field[route[h]]] = Given(h)]

\* What the handler in flight has of the answers.
Recalls(h) ==
    /\ At(h, "get") => entered = IF Parses(h) THEN Stored(h, data) ELSE data
    /\ At(h, "set") => entered = Stored(h, local[h])
    /\ At(h, "get") \/ At(h, "set") => asked # "nothing"
    /\ route[h] \in Opened /\ ~At(h, "get") /\ ~At(h, "set") => data = entered
    /\ At(h, "create") => local[h] = entered
    /\ At(h, "answer") => data = EmptyData
    /\ route[h] \in {"cmd_start", "time_entered", "broadcast_text", "admin_password"} =>
           asked \notin {"type", "day"}

\* The next answer can still be stored.
Open ==
    \/ asked \in {"type", "day"}
    \/ state \in {"reminder:text", "reminder:date", "reminder:time"}

Recorded ==
    /\ asked = "nothing" => data = EmptyData
    /\ Open /\ (\A h \in Handlers : ~At(h, "get") /\ ~At(h, "set")) => data = entered
    /\ asked # "start" /\ (\A h \in Handlers : ~At(h, "set_state")) =>
           /\ state = "reminder:text" => asked = "text"
           /\ state = "reminder:date" => asked = "date"
           /\ state = "reminder:time" => asked = "time"
    /\ \A h \in Handlers : ~At(h, "idle") => Recalls(h)

\* The same, when no other handler is in flight.
RecordedBy(h) ==
    /\ asked = "nothing" => data = EmptyData
    /\ Open /\ ~At(h, "get") /\ ~At(h, "set") => data = entered
    /\ asked # "start" /\ ~At(h, "set_state") =>
           /\ state = "reminder:text" => asked = "text"
           /\ state = "reminder:date" => asked = "date"
           /\ state = "reminder:time" => asked = "time"
    /\ ~At(h, "idle") => Recalls(h)

LEMMA OneRecords ==
    ASSUME NEW h \in Handlers, \A g \in Handlers : g # h => At(g, "idle")
    PROVE  Recorded <=> RecordedBy(h)
BY DEF Recorded, RecordedBy, At

LEMMA OneRecordsNext ==
    ASSUME NEW h \in Handlers, \A g \in Handlers : g # h => At(g, "idle")'
    PROVE  Recorded' <=> RecordedBy(h)'
BY DEF Recorded, RecordedBy, At

\* The handler in flight takes a step other than a failure of Redis.
LEMMA HandlerRecords ==
    ASSUME Base, NullAssumption, orderly, Resting, NEW h \in Handlers, InHand(h), FirstTime(h),
           Recalls(h), RecordedBy(h), ~At(h, "idle"), Step(h), ~StorageFails(h)
    PROVE  RecordedBy(h)'
<1>0. Calls /\ Storage /\ Shaped(h)
  BY DEF Base, Shapes
<1> USE DEF RecordedBy, Recalls, Open, At, Goto, Ends, storageVars, userVars
<1>1. CASE Reject(h)
  <2>1. /\ data' = data /\ state' = state /\ asked' = asked /\ entered' = entered
        /\ pc'[h] = "idle" /\ pc[h] \in {"get", "read"} /\ ~Parses(h)
    BY <1>0, <1>1 DEF Reject, Calls
  <2> QED BY <2>1
<1>2. CASE GetData(h)
  <2>1. /\ data' = data /\ state' = state /\ asked' = asked /\ entered' = entered
        /\ local'[h] = data /\ route'[h] = route[h] /\ input'[h] = input[h]
        /\ pc[h] \in {"get", "reread"} /\ Parses(h)
        /\ pc'[h] = (IF pc[h] = "get" THEN "set" ELSE "ask")
    BY <1>0, <1>2 DEF GetData, Calls
  <2>2. Stored(h, local[h])' = Stored(h, data)
    BY <2>1 DEF Stored, Given
  <2> QED BY <1>0, <2>1, <2>2 DEF Shaped, Opened, DataRoutes
<1>3. CASE SetData(h)
  <2>1. /\ data' = Stored(h, local[h]) /\ state' = state /\ asked' = asked /\ entered' = entered
        /\ route'[h] = route[h] /\ pc[h] = "set" /\ pc'[h] \in {"reread", "ask"}
        /\ route[h] \in DataRoutes
    BY <1>0, <1>3 DEF SetData, Calls, Stored, Shaped
  <2> QED BY <2>1 DEF DataRoutes
<1>4. CASE Asks(h)
  <2>1. /\ data' = data /\ state' = state /\ asked' = Question(h) /\ entered' = entered
        /\ pc[h] = "ask" /\ route[h] \in AskRoutes
        /\ \/ pc'[h] = "idle" /\ Question(h) \notin DOMAIN StateOf
           \/ pc'[h] = "set_state" /\ route'[h] = route[h]
    BY <1>0, <1>4 DEF Asks, Calls, Shaped
  <2>2. /\ Question(h) # "nothing"
        /\ Question(h) \in {"type", "day"} => route[h] \in Opened /\ state = "none"
    BY <1>0, <2>1, QuestionOf DEF Opened, DataRoutes, InHand
  <2>3. Question(h) \notin DOMAIN StateOf => state = "none"
    <3>1. Question(h) \notin DOMAIN StateOf => Question(h) \in {"type", "day"}
      BY <2>1, StatesSet DEF Question, AskRoutes, DataRoutes
    <3> QED BY <2>2, <3>1
  <2>4. Open' => data = entered
    BY <2>1, <2>2
  <2> QED BY <2>1, <2>2, <2>3, <2>4 DEF AskRoutes, DataRoutes
<1>5. CASE SetState(h)
  <2>1. /\ data' = data /\ state' = StateOf[Question(h)] /\ asked' = asked /\ entered' = entered
        /\ pc[h] = "set_state" /\ pc'[h] = "idle" /\ asked = Question(h)
        /\ route[h] \in AskRoutes /\ Question(h) \in DOMAIN StateOf
    BY <1>0, <1>5 DEF SetState, Calls, Shaped, InHand
  <2>2. /\ state' = "reminder:text" => Question(h) = "text"
        /\ state' = "reminder:date" => Question(h) = "date"
        /\ state' = "reminder:time" => Question(h) = "time"
        /\ Question(h) \notin {"nothing", "type", "day"}
    BY <2>1, StatesSet
  <2>3. Question(h) \in {"text", "date", "time"} => route[h] \in Opened
    BY <1>0, <2>1, QuestionOf DEF Opened, DataRoutes
  <2> QED BY <2>1, <2>2, <2>3
<1>6. CASE ReadData(h)
  <2>1. /\ data' = data /\ state' = state /\ asked' = asked /\ entered' = entered
        /\ pc[h] = "read"
        /\ \/ pc'[h] = "idle"
           \/ pc'[h] \in {"create", "sorry"} /\ local'[h] = data /\ route'[h] = "time_entered"
    BY <1>0, <1>6 DEF ReadData, Calls, Shaped
  <2>2. state = "reminder:time" /\ data = entered /\ asked \notin {"type", "day"}
    BY <2>1 DEF FirstTime
  <2> QED BY <2>1, <2>2 DEF Opened, DataRoutes
<1>7. CASE CreateReminder(h)
  <2>1. /\ data' = data /\ state' = state /\ asked' = asked /\ entered' = entered
        /\ pc[h] = "create" /\ pc'[h] = "clear_state" /\ route'[h] = "time_entered"
        /\ route[h] = "time_entered"
    BY <1>0, <1>7 DEF CreateReminder, Calls, Shaped
  <2> QED BY <2>1 DEF Opened, DataRoutes
<1>8. CASE Sorry(h)
  BY <1>8 DEF Sorry, InHand
<1>9. CASE ClearState(h)
  <2>1. /\ data' = data /\ state' = "none" /\ asked' = asked /\ entered' = entered
        /\ pc[h] = "clear_state" /\ pc'[h] = "clear_data" /\ route'[h] = route[h]
    BY <1>0, <1>9 DEF ClearState, Calls
  <2> QED BY <2>1
<1>10. CASE ClearData(h)
  <2>1. /\ data' = EmptyData /\ state' = state /\ asked' = asked /\ entered' = entered
        /\ pc[h] = "clear_data" /\ pc'[h] \in {"idle", "answer"}
        /\ pc'[h] = "answer" => route'[h] = route[h]
    BY <1>0, <1>10 DEF ClearData, Calls
  <2>2. /\ state = "none"
        /\ route[h] \in {"cmd_start", "time_entered", "broadcast_text", "admin_password"}
    BY <2>1 DEF InHand
  <2> QED BY <2>1, <2>2 DEF Opened, DataRoutes
<1>11. CASE AnswerArrives(h)
  <2>1. /\ data' = data /\ state' = state /\ asked' = "nothing" /\ entered' = entered
        /\ pc[h] = "answer" /\ pc'[h] = "idle" /\ state = "none"
    BY <1>0, <1>11 DEF AnswerArrives, Calls, InHand
  <2> QED BY <2>1
<1>12. CASE AdminOnly(h)
  <2>1. /\ data' = data /\ state' = state /\ asked' = asked /\ entered' = entered
        /\ pc[h] = "gate" /\ route[h] \in {"broadcasts", "broadcast_text"}
        /\ \/ pc'[h] = "idle"
           \/ pc'[h] \in {"ask", "send"} /\ route'[h] = route[h]
    BY <1>0, <1>12 DEF AdminOnly, Calls, Shaped
  <2> QED BY <2>1 DEF Opened, DataRoutes
<1>13. CASE SendBroadcast(h)
  <2>1. /\ data' = data /\ state' = state /\ asked' = asked /\ entered' = entered
        /\ pc[h] = "send" /\ pc'[h] = "clear_state" /\ route'[h] = route[h]
    BY <1>0, <1>13 DEF SendBroadcast, Calls
  <2> QED BY <2>1
<1>14. CASE AdminPassword(h)
  <2>1. /\ data' = data /\ state' = state /\ asked' = asked /\ entered' = entered
        /\ pc[h] = "verify"
    BY <1>14 DEF AdminPassword
  <2>2. \/ pc'[h] = "idle"
        \/ pc'[h] = "clear_state" /\ route'[h] = route[h]
    BY <1>0, <1>14, PasswordGoes
  <2> QED BY <2>1, <2>2
<1>15. CASE CallFails(h)
  <2>1. /\ data' = data /\ state' = state /\ asked' = asked /\ entered' = entered
        /\ pc[h] \in {"ask", "sorry", "answer", "create", "send"} /\ pc'[h] = "idle"
    BY <1>0, <1>15 DEF CallFails, Calls
  <2> QED BY <2>1
<1> QED BY <1>1, <1>2, <1>3, <1>4, <1>5, <1>6, <1>7, <1>8, <1>9, <1>10, <1>11, <1>12, <1>13, <1>14,
        <1>15 DEF Step

\* What an orderly user's answers are called, and what kind of update each is.
LEMMA AnswerKinds ==
    /\ Answers["start"] = {}
    /\ Answers["text"] = {"word", "date", "time"}
    /\ Answers["date"] = {"word", "date", "time"}
    /\ Answers["time"] = {"word", "date", "time"}
    /\ \A m \in Message : m.kind \in {"word", "date", "time"} => m \in Typed
    /\ \A m \in Message : m.kind \notin {"once", "recurring", "day"}
BY DEF Answers, Message, Typed, Menu

\* Only an answer to what is asked changes what was entered.
LEMMA NotedText ==
    ASSUME orderly, NEW m \in Message
    PROVE  /\ m.kind = "add" => Noted(m) = EmptyData
           /\ m.kind \in {"start", "broadcasts", "admin", "password"} => Noted(m) = entered
           /\ asked = "text" /\ m.kind \in {"word", "date", "time"} =>
                  Noted(m) = [entered EXCEPT !.text = m]
           /\ asked = "date" /\ m.kind = "date" => Noted(m) = [entered EXCEPT !.fire_at = m.value]
           /\ asked = "date" /\ m.kind \in {"word", "time"} => Noted(m) = entered
           /\ asked = "time" /\ m.kind \in {"word", "date", "time"} => Noted(m) = entered
<1>1. m.kind \notin ReminderType \cup {"day"}
  BY AnswerKinds DEF ReminderType
<1>2. m \in Typed <=> m.kind \in {"word", "date", "time"}
  BY DEF Message, Typed, Menu
<1>3. m.kind = "add" => Noted(m) = EmptyData
  BY <1>1, <1>2 DEF Noted
<1>4. m.kind \in {"start", "broadcasts", "admin", "password"} => Noted(m) = entered
  BY <1>1, <1>2 DEF Noted
<1>5. asked = "text" /\ m.kind \in {"word", "date", "time"} =>
          Noted(m) = [entered EXCEPT !.text = m]
  BY <1>1, <1>2 DEF Noted
<1>6. /\ asked = "date" /\ m.kind = "date" => Noted(m) = [entered EXCEPT !.fire_at = m.value]
      /\ asked = "date" /\ m.kind \in {"word", "time"} => Noted(m) = entered
      /\ asked = "time" /\ m.kind \in {"word", "date", "time"} => Noted(m) = entered
  BY <1>1, <1>2 DEF Noted
<1> QED BY <1>3, <1>4, <1>5, <1>6

LEMMA SendTextRecords ==
    ASSUME Inv, Waiting, orderly, Recorded, NullAssumption, NEW h \in Handlers,
           NEW m \in Message, SendText(h, m)
    PROVE  RecordedBy(h)'
<1> DEFINE r == MessageRoute(m, state)
<1>1. /\ state' = state /\ data' = data /\ MayAct(m.kind) /\ entered' = Noted(m)
      /\ asked' = (IF m.kind = "start" THEN "start" ELSE asked)
      /\ r \in MessageRoutes /\ r \in Route
  BY Routing DEF SendText, storageVars, Inv, Base, Storage
<1>2. /\ \A g \in Handlers : At(g, "idle")
      /\ m.kind \in Answers[asked] \cup {"start"}
  BY <1>1 DEF MayAct
<1>3. PICK k : Dispatch(h, r, m, k)
  BY DEF SendText
<1>4. pc'[h] = FirstCall[r] /\ route'[h] = r /\ input'[h] = m
  BY <1>3 DEF Dispatch, Inv, Base, Calls
<1>5. /\ r = "text_entered" => state = "reminder:text"
      /\ r = "date_entered" => state = "reminder:date"
      /\ r = "time_entered" => state = "reminder:time"
      /\ r = "broadcast_text" => state = "broadcast.text"
      /\ r = "admin_password" => state = "admin:password"
      /\ r = "add_reminder_start" => m.kind = "add"
      /\ r = "cmd_start" => m.kind = "start"
      /\ r = "broadcasts" => m.kind = "broadcasts"
      /\ m.kind = "start" => r = "cmd_start"
  <2>1. m.kind = "start" => r = "cmd_start"
    BY DEF MessageRoute, Early
  <2> QED BY <2>1, RouteSays DEF Inv, Base, Storage
<1>6. r = "admin_entry" => m.kind = "admin"
  BY <1>1, RouteAdmin DEF Inv, Base, Storage
<1> HIDE DEF r
<1>7. /\ data' = data
      /\ asked = "nothing" => data = EmptyData
      /\ Open => data = entered
      /\ asked # "start" =>
           /\ state = "reminder:text" => asked = "text"
           /\ state = "reminder:date" => asked = "date"
           /\ state = "reminder:time" => asked = "time"
  BY <1>1, <1>2 DEF Recorded, At
<1>8. Resting
  BY DEF Waiting
<1>9. r # "cmd_start" => asked # "start" /\ asked' = asked /\ m.kind \in Answers[asked]
  BY <1>1, <1>2, <1>5, AnswerKinds
<1>10. CASE r = "cmd_start"
  <2>1. pc'[h] = "clear_state" /\ asked' = "start" /\ entered' = entered
    BY <1>1, <1>4, <1>5, <1>10, NotedText DEF FirstCall
  <2>2. Open' => Open
    BY <1>1, <2>1 DEF Open
  <2> QED BY <1>1, <1>4, <1>7, <1>10, <2>1, <2>2 DEF RecordedBy, Recalls, At, Opened, DataRoutes
<1>11. CASE r = "add_reminder_start"
  <2>1. asked = "nothing" /\ entered' = EmptyData /\ pc'[h] = "ask" /\ data = EmptyData
    BY <1>1, <1>4, <1>5, <1>7, <1>9, <1>11, NotedText, OnlyAsked DEF FirstCall, Inv, Rest
  <2> QED BY <1>1, <1>4, <1>7, <1>9, <1>11, <2>1 DEF RecordedBy, Recalls, At, Open
<1>12. CASE r = "text_entered"
  <2>1. asked = "text" /\ m.kind \in {"word", "date", "time"} /\ data = entered
    BY <1>5, <1>7, <1>9, <1>12, AnswerKinds DEF Open
  <2>2. entered' = [data EXCEPT !.text = m] /\ pc'[h] = "get"
    BY <1>1, <1>4, <1>12, <2>1, NotedText DEF FirstCall
  <2>3. Parses(h)' /\ Field[route'[h]] = "text" /\ Given(h)' = m
    BY <1>4, <1>12 DEF Parses, Field, Given
  <2>4. Stored(h, data)' = [data EXCEPT !.text = m]
    BY <1>1, <2>3 DEF Stored
  <2> QED BY <1>1, <1>4, <1>5, <1>7, <1>9, <1>12, <2>1, <2>2, <2>3, <2>4
          DEF RecordedBy, Recalls, At
<1>13. CASE r = "date_entered"
  <2>1. asked = "date" /\ m.kind \in {"word", "date", "time"} /\ data = entered
    BY <1>5, <1>7, <1>9, <1>13, AnswerKinds DEF Open
  <2>2. /\ m.kind = "date" => entered' = [data EXCEPT !.fire_at = m.value]
        /\ m.kind # "date" => entered' = data
        /\ pc'[h] = "get"
    BY <1>1, <1>4, <1>13, <2>1, NotedText DEF FirstCall
  <2>3. /\ Parses(h)' <=> m.kind = "date"
        /\ Field[route'[h]] = "fire_at" /\ Given(h)' = m.value
    BY <1>4, <1>13 DEF Parses, Field, Given
  <2>4. Stored(h, data)' = [data EXCEPT !.fire_at = m.value]
    BY <1>1, <2>3 DEF Stored
  <2> QED BY <1>1, <1>4, <1>5, <1>7, <1>9, <1>13, <2>1, <2>2, <2>3, <2>4
          DEF RecordedBy, Recalls, At
<1>14. CASE r = "time_entered"
  <2>1. asked = "time" /\ m.kind \in {"word", "date", "time"}
    BY <1>5, <1>7, <1>9, <1>14, AnswerKinds
  <2>2. entered' = entered /\ pc'[h] = "read"
    BY <1>1, <1>4, <1>14, <2>1, NotedText DEF FirstCall
  <2> QED BY <1>1, <1>4, <1>7, <1>9, <1>14, <2>1, <2>2
          DEF RecordedBy, Recalls, At, Open, Opened, DataRoutes
<1>15. CASE r \in {"broadcasts", "admin_entry"}
  <2>1. entered' = entered /\ pc'[h] \in {"gate", "ask"}
    BY <1>1, <1>4, <1>5, <1>6, <1>15, NotedText DEF FirstCall
  <2> QED BY <1>1, <1>4, <1>7, <1>9, <1>15, <2>1
          DEF RecordedBy, Recalls, At, Open, Opened, DataRoutes
<1>16. CASE r \in {"broadcast_text", "admin_password"}
  <2>1. state \in {"broadcast.text", "admin:password"} /\ pc'[h] \in {"gate", "verify"}
    BY <1>4, <1>5, <1>16 DEF FirstCall
  <2>2. asked \notin {"nothing", "type", "day"}
    BY <1>8, <2>1 DEF Resting
  <2> QED BY <1>1, <1>4, <1>7, <1>9, <1>16, <2>1, <2>2
          DEF RecordedBy, Recalls, At, Open, Opened, DataRoutes
<1> QED BY <1>1, <1>10, <1>11, <1>12, <1>13, <1>14, <1>15, <1>16 DEF MessageRoutes

LEMMA PressButtonRecords ==
    ASSUME Inv, orderly, Recorded, NEW h \in Handlers, NEW k \in Messages, NEW b \in Button,
           PressButton(h, k, b)
    PROVE  RecordedBy(h)'
<1> DEFINE r == ButtonRoute[b.kind]
<1>1. /\ state' = state /\ data' = data /\ asked' = asked /\ entered' = Noted(b)
      /\ MayAct(b.kind) /\ Dispatch(h, r, b, k)
  BY DEF PressButton, storageVars
<1>2. /\ \A g \in Handlers : At(g, "idle")
      /\ b.kind \in Answers[asked] \cup {"start"}
  BY <1>1 DEF MayAct
<1>3. /\ b.kind \in {"once", "recurring", "day"}
      /\ b.kind = "once" => r = "once_type"
      /\ b.kind = "recurring" => r = "recurring_type"
      /\ b.kind = "day" => r = "day_selected"
  BY DEF Button, ButtonRoute
<1> HIDE DEF r
<1>4. /\ b.kind = "day" => asked = "day"
      /\ b.kind # "day" => asked = "type"
  BY <1>2, <1>3, OnlyAsked DEF Inv, Rest
<1>5. /\ data = entered
      /\ asked # "start" =>
           /\ state = "reminder:text" => asked = "text"
           /\ state = "reminder:date" => asked = "date"
           /\ state = "reminder:time" => asked = "time"
  BY <1>2, <1>3, <1>4 DEF Recorded, Open, At
<1>6. pc'[h] = "get" /\ route'[h] = r /\ input'[h] = b
  BY <1>1, <1>3 DEF Dispatch, Inv, Base, Calls, FirstCall
<1>7. /\ b.kind # "day" => entered' = [data EXCEPT !.type = b.kind]
      /\ b.kind = "day" => entered' = [data EXCEPT !.cron_day = b.value]
  BY <1>1, <1>3, <1>4, <1>5 DEF Noted, ReminderType
<1>8. /\ Parses(h)'
      /\ b.kind # "day" => Field[route'[h]] = "type" /\ Given(h)' = b.kind
      /\ b.kind = "day" => Field[route'[h]] = "cron_day" /\ Given(h)' = b.value
  BY <1>3, <1>6 DEF Parses, Field, Given
<1>9. entered' = Stored(h, data)'
  BY <1>1, <1>7, <1>8 DEF Stored
<1> QED BY <1>1, <1>3, <1>4, <1>5, <1>6, <1>8, <1>9 DEF RecordedBy, Recalls, At

LEMMA DispatchOthers ==
    ASSUME Calls, NEW h \in Handlers, NEW r, NEW u, NEW k, Dispatch(h, r, u, k),
           \A g \in Handlers : At(g, "idle")
    PROVE  \A g \in Handlers : g # h => At(g, "idle")'
BY DEF Dispatch, Calls, At

HasRecorded == orderly /\ mishaps = 0 => Recorded

LEMMA NextRecorded ==
    /\ NullAssumption /\ Inv /\ Waiting /\ HasRecorded
    /\ orderly => Unrepeated
    /\ [Next]_vars
    => HasRecorded'
<1> SUFFICES ASSUME NullAssumption, Inv, Waiting, HasRecorded, orderly => Unrepeated,
                    [Next]_vars, orderly', mishaps' = 0
             PROVE  Recorded'
  BY DEF HasRecorded
<1>1. orderly' = orderly
  <2>1. \A h \in Handlers : Step(h) => orderly' = orderly
    BY StepKeepsOrder DEF Inv, Base
  <2>2. \A h \in Handlers, m \in Message : SendText(h, m) => orderly' = orderly
    BY DEF SendText
  <2>3. \A h \in Handlers, k \in Messages, b \in Button : PressButton(h, k, b) => orderly' = orderly
    BY DEF PressButton
  <2>4. Restart \/ UNCHANGED vars => orderly' = orderly
    BY DEF Restart, vars, userVars
  <2> QED BY <2>1, <2>2, <2>3, <2>4 DEF Next, Step
<1>2. /\ orderly /\ Unrepeated /\ mishaps \in Nat /\ Base /\ Calls
      /\ Alone /\ Resting /\ Busy
  BY <1>1 DEF Inv, Base, Waiting
<1>3. ASSUME NEW h \in Handlers, Step(h) PROVE Recorded'
  <2>1. \/ mishaps' = mishaps
        \/ mishaps' = mishaps + 1 /\ StorageFails(h)
    BY <1>3 DEF Step, Reject, GetData, SetData, Asks, SetState, ReadData, CreateReminder, Sorry,
       ClearState, ClearData, AnswerArrives, AdminOnly, SendBroadcast, AdminPassword, CallFails,
       StorageFails
  <2>2. ~StorageFails(h) /\ mishaps = 0
    <3>1. StorageFails(h) => mishaps' = mishaps + 1
      BY DEF StorageFails
    <3> QED BY <1>2, <2>1, <3>1
  <2>3. Recorded
    BY <1>2, <2>2 DEF HasRecorded
  <2>4. ~At(h, "idle")
    BY <1>3 DEF Step, Reject, GetData, SetData, Asks, SetState, ReadData, CreateReminder, Sorry,
       ClearState, ClearData, AnswerArrives, AdminOnly, SendBroadcast, AdminPassword, CallFails,
       StorageFails, At
  <2>5. \A g \in Handlers : g # h => At(g, "idle") /\ At(g, "idle")'
    BY <1>2, <1>3, <2>4, StepKeepsOrder DEF Alone
  <2>6. InHand(h) /\ FirstTime(h) /\ Recalls(h) /\ RecordedBy(h)
    BY <1>2, <2>3, <2>4, <2>5, OneRecords DEF Busy, Unrepeated, Recorded
  <2>7. RecordedBy(h)'
    BY <1>2, <1>3, <2>2, <2>4, <2>6, HandlerRecords
  <2> QED BY <2>5, <2>7, OneRecordsNext
<1>4. ASSUME NEW h \in Handlers, NEW m \in Message, SendText(h, m) PROVE Recorded'
  <2>1. mishaps' = mishaps /\ \A g \in Handlers : At(g, "idle")
    BY <1>2, <1>4 DEF SendText, MayAct
  <2>2. Recorded
    BY <1>2, <2>1 DEF HasRecorded
  <2>3. \A g \in Handlers : g # h => At(g, "idle")'
    BY <1>2, <1>4, <2>1, DispatchOthers DEF SendText
  <2>4. RecordedBy(h)'
    BY <1>2, <1>4, <2>2, SendTextRecords
  <2> QED BY <2>3, <2>4, OneRecordsNext
<1>5. ASSUME NEW h \in Handlers, NEW k \in Messages, NEW b \in Button, PressButton(h, k, b)
      PROVE  Recorded'
  <2>1. mishaps' = mishaps /\ \A g \in Handlers : At(g, "idle")
    BY <1>2, <1>5 DEF PressButton, MayAct
  <2>2. Recorded
    BY <1>2, <2>1 DEF HasRecorded
  <2>3. \A g \in Handlers : g # h => At(g, "idle")'
    <3>1. Dispatch(h, ButtonRoute[b.kind], b, k)
      BY <1>5 DEF PressButton
    <3> QED BY <1>2, <2>1, <3>1, DispatchOthers
  <2>4. RecordedBy(h)'
    BY <1>2, <1>5, <2>2, PressButtonRecords
  <2> QED BY <2>3, <2>4, OneRecordsNext
<1>6. ~Restart
  <2>1. Restart => mishaps' = mishaps + 1
    BY DEF Restart
  <2> QED BY <1>2, <2>1
<1>7. CASE UNCHANGED vars
  <2>1. Recorded
    BY <1>2, <1>7 DEF HasRecorded, vars
  <2> QED BY <1>7, <2>1 DEF vars, Recorded, Recalls, Open, Stored, Given, Parses, At
<1>8. CASE Next
  BY <1>3, <1>4, <1>5, <1>6, <1>8 DEF Next, Step
<1> QED BY <1>7, <1>8

\* As long as neither Redis nor the process fails, the row that time_entered inserts has
\* the type, the text, the date or the day its user entered last, and is the only one since
\* "add", however often Telegram or SQLite failed on the way and an answer was repeated.
THEOREM CreatesWhatWasEnteredAlways == Spec => CreatesWhatWasEntered
<1>1. Init => Waiting /\ (orderly => Unrepeated) /\ HasRecorded
  <2> SUFFICES ASSUME Init PROVE Waiting /\ Unrepeated /\ Recorded
    BY DEF HasRecorded
  <2>1. Waiting
    BY DEF Init, Waiting, Alone, Resting, Busy, At
  <2>2. Unrepeated
    BY DEF Init, Unrepeated, At
  <2>3. Recorded
    BY DEF Init, Recorded, Open, At
  <2> QED BY <2>1, <2>2, <2>3
<1>2. /\ Inv /\ Waiting /\ HasRecorded
      /\ orderly => Unrepeated
      /\ [Next]_vars
      => [orderly /\ mishaps = 0 /\ Len(created') > Len(created) =>
             created' = <<NewReminder(entered, created'[1].time)>>]_vars
  <2> SUFFICES ASSUME Inv, Waiting, Recorded, Unrepeated, Next, orderly, mishaps = 0,
                      Len(created') > Len(created)
               PROVE  created' = <<NewReminder(entered, created'[1].time)>>
    BY DEF HasRecorded
  <2>1. Len(created) \in Nat /\ created \in Seq(Reminder)
    BY DEF Inv, Rows
  <2>2. created' # created /\ created' # <<>>
    BY <2>1
  <2>3. PICK h \in Handlers : CreateReminder(h)
    <3>1. ~Restart /\ \A h \in Handlers, k \in Messages, b \in Button : ~PressButton(h, k, b)
      BY <2>2 DEF Restart, PressButton
    <3>2. \A h \in Handlers, m \in Message : ~SendText(h, m)
      BY <2>2 DEF SendText
    <3>3. \A h \in Handlers : Step(h) => CreateReminder(h)
      BY <2>2 DEF Step, Reject, GetData, SetData, Asks, SetState, ReadData, Sorry, ClearState,
         ClearData, AnswerArrives, AdminOnly, SendBroadcast, AdminPassword, CallFails,
         StorageFails
    <3> QED BY <3>1, <3>2, <3>3 DEF Next, Step
  <2>4. At(h, "create") /\ created' = Append(created, NewReminder(local[h], input[h].value))
    BY <2>3 DEF CreateReminder
  <2>5. local[h] = entered /\ state = "reminder:time"
    BY <2>4 DEF Recorded, Recalls, Unrepeated, FirstTime, At
  <2>6. \A g \in Handlers : ~At(g, "clear_state")
    BY <2>4 DEF Waiting, Alone, At
  <2>7. created = <<>>
    BY <2>1, <2>5, <2>6 DEF Unrepeated
  <2>8. created' = <<NewReminder(entered, input[h].value)>>
    BY <2>4, <2>5, <2>7
  <2>9. NewReminder(entered, input[h].value).time = input[h].value
    BY DEF NewReminder
  <2> QED BY <2>8, <2>9
<1> QED
  BY <1>1, <1>2, InitInv, NextInv, NextWaiting, NextUnrepeated, NextRecorded, BoundsAssumption,
     NullAssumption, PTL DEF Spec, CreatesWhatWasEntered

-------------------------------------------------------------------------------
(* The weekday.  A hasty user's recurring reminder can lose it; whoever    *)
(* waits is only asked for the time with it stored, and the data read then *)
(* are the ones inserted.                                                  *)

Dated == RecurringHasDay /\ \A h \in Handlers : At(h, "create") => HasType(local[h])

LEMMA StepDated ==
    ASSUME Base, Rows, Dated, orderly, Resting, NEW h \in Handlers, FirstTime(h), Step(h)
    PROVE  Dated'
<1>1. \A g \in Handlers : g # h => pc'[g] = pc[g] /\ local'[g] = local[g]
  BY StepOthers DEF Base
<1>2. Calls /\ created \in Seq(Reminder)
  BY DEF Base, Rows
<1>3. CASE CreateReminder(h)
  <2> DEFINE row == NewReminder(local[h], input[h].value)
  <2>1. HasType(local[h]) /\ created' = Append(created, row) /\ pc'[h] = "clear_state"
    BY <1>2, <1>3 DEF Dated, CreateReminder, Goto, Calls
  <2>2. row.type = "recurring" => row.cron_day # NULL
    BY <2>1 DEF NewReminder, HasType
  <2> HIDE DEF row
  <2>3. RecurringHasDay'
    <3> SUFFICES ASSUME NEW i \in DOMAIN created', created'[i].type = "recurring"
                 PROVE  created'[i].cron_day # NULL
      BY DEF RecurringHasDay
    <3>1. CASE i = Len(created) + 1
      BY <1>2, <2>1, <2>2, <3>1
    <3>2. CASE i # Len(created) + 1
      <4>1. i \in DOMAIN created /\ created'[i] = created[i]
        BY <1>2, <2>1, <3>2
      <4> QED BY <4>1 DEF Dated, RecurringHasDay
    <3> QED BY <3>1, <3>2
  <2> QED BY <1>1, <2>1, <2>3 DEF Dated, At
<1>4. CASE ReadData(h)
  <2>1. HasType(data)
    BY <1>4 DEF ReadData, FirstTime, Resting
  <2>2. pc'[h] = "create" => local'[h] = data
    BY <1>2, <1>4 DEF ReadData, Goto, Ends, Calls
  <2>3. created' = created
    BY <1>4 DEF ReadData
  <2> QED BY <1>1, <2>1, <2>2, <2>3 DEF Dated, RecurringHasDay, At
<1>5. CASE ~CreateReminder(h) /\ ~ReadData(h)
  <2>1. created' = created
    BY <1>5 DEF Step, Reject, GetData, SetData, Asks, SetState, Sorry, ClearState, ClearData,
       AnswerArrives, AdminOnly, SendBroadcast, AdminPassword, CallFails, StorageFails
  <2>2. pc'[h] # "create"
    BY <1>2, <1>5 DEF Step, Reject, GetData, SetData, Asks, SetState, Sorry, ClearState, ClearData,
       AnswerArrives, AdminOnly, SendBroadcast, AdminPassword, CallFails, StorageFails, Goto,
       Ends, Calls
  <2> QED BY <1>1, <2>1, <2>2 DEF Dated, RecurringHasDay, At
<1> QED BY <1>3, <1>4, <1>5

LEMMA NextDated ==
    /\ Inv /\ Waiting
    /\ orderly => Unrepeated
    /\ orderly => Dated
    /\ [Next]_vars
    => (orderly => Dated)'
<1> SUFFICES ASSUME Inv, Waiting, orderly => Unrepeated, orderly => Dated, [Next]_vars, orderly'
             PROVE  Dated'
  OBVIOUS
<1>1. orderly' = orderly
  <2>1. \A h \in Handlers : Step(h) => orderly' = orderly
    BY StepKeepsOrder DEF Inv, Base
  <2>2. \A h \in Handlers, m \in Message : SendText(h, m) => orderly' = orderly
    BY DEF SendText
  <2>3. \A h \in Handlers, k \in Messages, b \in Button : PressButton(h, k, b) => orderly' = orderly
    BY DEF PressButton
  <2>4. Restart \/ UNCHANGED vars => orderly' = orderly
    BY DEF Restart, vars, userVars
  <2> QED BY <2>1, <2>2, <2>3, <2>4 DEF Next, Step
<1>2. orderly /\ Unrepeated /\ Dated /\ Resting /\ Base /\ Calls /\ Rows
  BY <1>1 DEF Waiting, Inv, Base
<1>3. ASSUME NEW h \in Handlers, Step(h) PROVE Dated'
  <2>1. ~At(h, "idle")
    BY <1>3 DEF Step, Reject, GetData, SetData, Asks, SetState, ReadData, CreateReminder, Sorry,
       ClearState, ClearData, AnswerArrives, AdminOnly, SendBroadcast, AdminPassword, CallFails,
       StorageFails, At
  <2>2. FirstTime(h)
    BY <1>2, <2>1 DEF Unrepeated
  <2> QED BY <1>2, <1>3, <2>2, StepDated
<1>4. ASSUME NEW h \in Handlers, NEW r \in Route, NEW u, NEW k, Dispatch(h, r, u, k),
             created' \in {<<>>, created}
      PROVE  Dated'
  <2>1. \A g \in Handlers : pc'[g] = "create" => pc[g] = "create"
    BY <1>2, <1>4, Routing DEF Dispatch, Calls
  <2>2. local' = local
    BY <1>4 DEF Dispatch
  <2>3. RecurringHasDay'
    BY <1>2, <1>4 DEF Dated, RecurringHasDay
  <2> QED BY <1>2, <2>1, <2>2, <2>3 DEF Dated, At
<1>5. ASSUME NEW h \in Handlers, NEW m \in Message, SendText(h, m) PROVE Dated'
  <2>1. MessageRoute(m, state) \in Route /\ created' \in {<<>>, created}
    BY <1>5, Routing DEF SendText, Inv, Base, Storage
  <2>2. PICK k : Dispatch(h, MessageRoute(m, state), m, k)
    BY <1>5 DEF SendText
  <2> QED BY <1>4, <2>1, <2>2
<1>6. ASSUME NEW h \in Handlers, NEW k \in Messages, NEW b \in Button, PressButton(h, k, b)
      PROVE  Dated'
  <2>1. ButtonRoute[b.kind] \in Route
    BY DEF Button, ButtonRoute, Route
  <2>2. Dispatch(h, ButtonRoute[b.kind], b, k) /\ created' = created
    BY <1>6 DEF PressButton
  <2> QED BY <1>4, <2>1, <2>2
<1>7. CASE Restart
  <2>1. created' = created /\ \A h \in Handlers : pc'[h] = "idle"
    BY <1>7 DEF Restart
  <2> QED BY <1>2, <2>1 DEF Dated, RecurringHasDay, At
<1>8. CASE UNCHANGED vars
  BY <1>2, <1>8 DEF vars, Dated, RecurringHasDay, At
<1>9. CASE Next
  BY <1>3, <1>5, <1>6, <1>7, <1>9 DEF Next, Step
<1> QED BY <1>8, <1>9

\* The recurring reminder of a user who waits for each answer has its weekday, wherever a
\* call, Redis or the process fails: the one without a day, which a run finds, takes a press
\* on the keyboard of an older message (handlers.py, text_entered).
THEOREM OrderlyRemindersHaveDays == Spec => [](orderly => RecurringHasDay)
<1>1. Init => Waiting /\ (orderly => Unrepeated) /\ (orderly => Dated)
  <2> SUFFICES ASSUME Init PROVE Waiting /\ Unrepeated /\ Dated
    OBVIOUS
  <2>1. Waiting
    BY DEF Init, Waiting, Alone, Resting, Busy, At
  <2>2. Unrepeated
    BY DEF Init, Unrepeated, At
  <2>3. Dated
    BY DEF Init, Dated, RecurringHasDay, At
  <2> QED BY <2>1, <2>2, <2>3
<1>2. (orderly => Dated) => (orderly => RecurringHasDay)
  BY DEF Dated
<1> QED
  BY <1>1, <1>2, InitInv, NextInv, NextWaiting, NextUnrepeated, NextDated, BoundsAssumption,
     NullAssumption, PTL DEF Spec

===============================================================================
