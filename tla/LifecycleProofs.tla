----------------------------- MODULE LifecycleProofs -----------------------------
(***************************************************************************)
(* Theorems about Lifecycle, for any number of processes and updates.      *)
(*                                                                         *)
(* Everything follows from where main stands: each property is an          *)
(* implication between a position of a script and what the steps before it *)
(* have set up, and it holds across processes because a death resets what  *)
(* a process owns and leaves the tables, the webhook and the updates.      *)
(***************************************************************************)
EXTENDS Lifecycle, TLAPS

\* The process has come as far as position n of the script of mode m.
Reached(m, n) == up /\ mode = m /\ pc >= n

\* LifecycleTypeOK in two halves: the solver takes truth values and the rest apart.
Flags ==
    /\ up \in BOOLEAN /\ event \in BOOLEAN /\ jobs \in BOOLEAN /\ tick \in BOOLEAN
    /\ site \in BOOLEAN /\ tables \in BOOLEAN /\ hook \in BOOLEAN

Values ==
    /\ mode \in Mode /\ pc \in 1 .. 12 /\ starts \in 0 .. MaxStarts
    /\ signals \in {"default", "event", "polling"}
    /\ polling \in {"off", "created", "running", "stopped"}
    /\ update \in [Updates -> {"unsent", "pending", "handled", "dropped"}]
    /\ fresh \subseteq Updates
    /\ password \in Passwords \cup {NULL}

TablesExist == Reached("webhook", 4) \/ Reached("polling", 5) => tables

\* What a process owns is there only while it runs, and from its step on.
Owned ==
    /\ site => Reached("webhook", 6) \/ Reached("polling", 6)
    /\ jobs => Reached("webhook", 5) \/ Reached("polling", 7)
    /\ tick => jobs
    /\ polling # "off" => Reached("polling", 8)

\* A poller has removed whatever webhook it found; a webhook process has registered
\* its own while it waits, taken it back before it cleans up, and listens meanwhile.
Hooked ==
    /\ Reached("polling", 3) => ~hook
    /\ Reached("webhook", 8) /\ pc = 8 => hook
    /\ Reached("webhook", 10) => ~hook
    /\ Reached("webhook", 6) /\ pc <= 10 => site

\* Updates count as sent to this process only once it waits.
Waited == fresh # {} /\ up => pc >= 8

LifecycleInv == LifecycleTypeOK /\ TablesExist /\ Owned /\ Hooked /\ Waited

-------------------------------------------------------------------------------
\* Where the steps stand in the scripts.
LEMMA Positions ==
    ASSUME pc \in 1 .. 12, mode \in Mode
    PROVE  /\ Len(Script) = 11
           /\ \A step : At(step) => up /\ pc <= 11
           /\ At("signals") => pc = 1
           /\ At("tables") => pc = (IF mode = "webhook" THEN 3 ELSE 4)
           /\ At("site") => pc = 5
           /\ At("jobs") => pc = (IF mode = "webhook" THEN 4 ELSE 6)
           /\ At("unhook") => pc = (IF mode = "webhook" THEN 6 ELSE 2)
           /\ At("hook") => mode = "webhook" /\ pc = 7
           /\ At("spawn") => mode = "polling" /\ pc = 7
           /\ At("wait") <=> up /\ pc = 8
           /\ At("unhookOnly") => mode = "webhook" /\ pc = 9
           /\ At("cleanup") => pc = (IF mode = "webhook" THEN 10 ELSE 11)
           /\ At("commands") => pc = (IF mode = "webhook" THEN 2 ELSE 3)
           /\ At("close") => pc = (IF mode = "webhook" THEN 11 ELSE 10)
           /\ At("stopPolling") => pc = 9
<1>1. Len(WebhookScript) = 11 /\ Len(PollingScript) = 11
  BY DEF WebhookScript, PollingScript
<1>2. CASE mode = "webhook"
  BY <1>1, <1>2 DEF At, Script, WebhookScript
<1>3. CASE mode = "polling"
  BY <1>1, <1>3 DEF At, Script, PollingScript
<1> QED BY <1>2, <1>3 DEF Mode

\* The two halves make up the type invariant.
LEMMA Halves == LifecycleTypeOK <=> Flags /\ Values
BY DEF LifecycleTypeOK, Flags, Values

\* No process runs and nothing is there.
LEMMA InitInv == Init => LifecycleInv
<1> SUFFICES ASSUME Init PROVE LifecycleInv
  OBVIOUS
<1>1. Flags
  BY DEF Init, Flags
<1>2. Values
  BY LifecycleAssumption DEF Init, Values
<1>3. TablesExist /\ Owned /\ Hooked /\ Waited
  BY DEF Init, TablesExist, Owned, Hooked, Waited, Reached
<1> QED BY <1>1, <1>2, <1>3, Halves DEF LifecycleInv

-------------------------------------------------------------------------------
\* A step of main keeps each part of the invariant: the truth values, ...
LEMMA AdvanceFlags ==
    ASSUME Flags, Advance
    PROVE  Flags'
<1> USE DEF Flags
<1>1. CASE AddSignalHandlers
  BY <1>1 DEF AddSignalHandlers, Go
<1>2. CASE Call
  BY <1>2 DEF Call, Go
<1>3. CASE CreateTables
  BY <1>3 DEF CreateTables, Go
<1>4. CASE StartScheduler
  BY <1>4 DEF StartScheduler, Go
<1>5. CASE StartSite
  BY <1>5 DEF StartSite, Go
<1>6. CASE DeleteWebhookAndDrop
  BY <1>6 DEF DeleteWebhookAndDrop, Go
<1>7. CASE SetWebhook
  BY <1>7 DEF SetWebhook, Go
<1>8. CASE SpawnPolling
  BY <1>8 DEF SpawnPolling, Go
<1>9. CASE Wait
  BY <1>9 DEF Wait, Go
<1>10. CASE StopPolling
  BY <1>10 DEF StopPolling, Exit
<1>11. CASE DeleteWebhook
  BY <1>11 DEF DeleteWebhook, Go
<1>12. CASE Cleanup
  BY <1>12 DEF Cleanup, Go
<1>13. CASE Return
  BY <1>13 DEF Return, Exit
<1>14. CASE PollingBegins
  BY <1>14 DEF PollingBegins
<1> QED
  BY <1>1, <1>2, <1>3, <1>4, <1>5, <1>6, <1>7, <1>8, <1>9, <1>10, <1>11, <1>12, <1>13, <1>14
     DEF Advance

\* ... the other values, a position of the script among them, ...
LEMMA AdvanceValues ==
    ASSUME Values, Advance
    PROVE  Values'
<1> USE DEF Values
<1>1. pc \in 1 .. 12 /\ mode \in Mode
  BY DEF Values
<1>2. \A step : At(step) => pc \in 1 .. 11
  BY <1>1, Positions
<1>3. CASE AddSignalHandlers
  BY <1>2, <1>3 DEF AddSignalHandlers, Go
<1>4. CASE Call
  BY <1>2, <1>4 DEF Call, Go
<1>5. CASE CreateTables
  BY <1>2, <1>5 DEF CreateTables, Go
<1>6. CASE StartScheduler
  BY <1>2, <1>6 DEF StartScheduler, Go
<1>7. CASE StartSite
  BY <1>2, <1>7 DEF StartSite, Go
<1>8. CASE DeleteWebhookAndDrop
  BY <1>2, <1>8 DEF DeleteWebhookAndDrop, Go
<1>9. CASE SetWebhook
  BY <1>2, <1>9 DEF SetWebhook, Go
<1>10. CASE SpawnPolling
  BY <1>2, <1>10 DEF SpawnPolling, Go
<1>11. CASE Wait
  BY <1>2, <1>11 DEF Wait, Go
<1>12. CASE StopPolling
  BY <1>12 DEF StopPolling, Exit
<1>13. CASE DeleteWebhook
  BY <1>2, <1>13 DEF DeleteWebhook, Go
<1>14. CASE Cleanup
  BY <1>2, <1>14 DEF Cleanup, Go
<1>15. CASE Return
  BY <1>15 DEF Return, Exit
<1>16. CASE PollingBegins
  BY <1>16 DEF PollingBegins
<1> QED
  BY <1>3, <1>4, <1>5, <1>6, <1>7, <1>8, <1>9, <1>10, <1>11, <1>12, <1>13, <1>14, <1>15, <1>16
     DEF Advance

\* ... the tables, ...
LEMMA AdvanceTables ==
    ASSUME LifecycleInv, Advance
    PROVE  TablesExist'
<1> USE DEF TablesExist, Reached
<1>1. pc \in 1 .. 12 /\ mode \in Mode /\ TablesExist
  BY Halves DEF LifecycleInv, Values
<1>2. CASE AddSignalHandlers
  BY Positions, <1>1, <1>2 DEF AddSignalHandlers, Go, Mode
<1>3. CASE Call
  BY Positions, <1>1, <1>3 DEF Call, Go, Mode
<1>4. CASE CreateTables
  BY Positions, <1>1, <1>4 DEF CreateTables, Go, Mode
<1>5. CASE StartScheduler
  BY Positions, <1>1, <1>5 DEF StartScheduler, Go, Mode
<1>6. CASE StartSite
  BY Positions, <1>1, <1>6 DEF StartSite, Go, Mode
<1>7. CASE DeleteWebhookAndDrop
  BY Positions, <1>1, <1>7 DEF DeleteWebhookAndDrop, Go, Mode
<1>8. CASE SetWebhook
  BY Positions, <1>1, <1>8 DEF SetWebhook, Go, Mode
<1>9. CASE SpawnPolling
  BY Positions, <1>1, <1>9 DEF SpawnPolling, Go, Mode
<1>10. CASE Wait
  BY Positions, <1>1, <1>10 DEF Wait, Go, Mode
<1>11. CASE StopPolling
  BY <1>1, <1>11 DEF StopPolling, Exit, Mode
<1>12. CASE DeleteWebhook
  BY Positions, <1>1, <1>12 DEF DeleteWebhook, Go, Mode
<1>13. CASE Cleanup
  BY Positions, <1>1, <1>13 DEF Cleanup, Go, Mode
<1>14. CASE Return
  BY <1>1, <1>14 DEF Return, Exit, Mode
<1>15. CASE PollingBegins
  BY <1>1, <1>15 DEF PollingBegins, Mode
<1> QED
  BY <1>2, <1>3, <1>4, <1>5, <1>6, <1>7, <1>8, <1>9, <1>10, <1>11, <1>12, <1>13, <1>14, <1>15
     DEF Advance

\* ... what a process owns, ...
LEMMA AdvanceOwned ==
    ASSUME LifecycleInv, Advance
    PROVE  Owned'
<1> USE DEF Owned, Reached
<1>1. pc \in 1 .. 12 /\ mode \in Mode /\ Owned
  BY Halves DEF LifecycleInv, Values
<1>2. CASE AddSignalHandlers
  BY Positions, <1>1, <1>2 DEF AddSignalHandlers, Go, Mode
<1>3. CASE Call
  BY Positions, <1>1, <1>3 DEF Call, Go, Mode
<1>4. CASE CreateTables
  BY Positions, <1>1, <1>4 DEF CreateTables, Go, Mode
<1>5. CASE StartScheduler
  BY Positions, <1>1, <1>5 DEF StartScheduler, Go, Mode
<1>6. CASE StartSite
  BY Positions, <1>1, <1>6 DEF StartSite, Go, Mode
<1>7. CASE DeleteWebhookAndDrop
  BY Positions, <1>1, <1>7 DEF DeleteWebhookAndDrop, Go, Mode
<1>8. CASE SetWebhook
  BY Positions, <1>1, <1>8 DEF SetWebhook, Go, Mode
<1>9. CASE SpawnPolling
  BY Positions, <1>1, <1>9 DEF SpawnPolling, Go, Mode
<1>10. CASE Wait
  BY Positions, <1>1, <1>10 DEF Wait, Go, Mode
<1>11. CASE StopPolling
  BY <1>1, <1>11 DEF StopPolling, Exit, Mode
<1>12. CASE DeleteWebhook
  BY Positions, <1>1, <1>12 DEF DeleteWebhook, Go, Mode
<1>13. CASE Cleanup
  BY Positions, <1>1, <1>13 DEF Cleanup, Go, Mode
<1>14. CASE Return
  BY <1>1, <1>14 DEF Return, Exit, Mode
<1>15. CASE PollingBegins
  BY <1>1, <1>15 DEF PollingBegins, Mode
<1> QED
  BY <1>2, <1>3, <1>4, <1>5, <1>6, <1>7, <1>8, <1>9, <1>10, <1>11, <1>12, <1>13, <1>14, <1>15
     DEF Advance

\* ... the webhook and the site, ...
LEMMA AdvanceHooked ==
    ASSUME LifecycleInv, Advance
    PROVE  Hooked'
<1> USE DEF Hooked, Reached
<1>1. pc \in 1 .. 12 /\ mode \in Mode /\ Hooked
  BY Halves DEF LifecycleInv, Values
<1>2. CASE AddSignalHandlers
  BY Positions, <1>1, <1>2 DEF AddSignalHandlers, Go, Mode
<1>3. CASE Call
  BY Positions, <1>1, <1>3 DEF Call, Go, Mode
<1>4. CASE CreateTables
  BY Positions, <1>1, <1>4 DEF CreateTables, Go, Mode
<1>5. CASE StartScheduler
  BY Positions, <1>1, <1>5 DEF StartScheduler, Go, Mode
<1>6. CASE StartSite
  BY Positions, <1>1, <1>6 DEF StartSite, Go, Mode
<1>7. CASE DeleteWebhookAndDrop
  BY Positions, <1>1, <1>7 DEF DeleteWebhookAndDrop, Go, Mode
<1>8. CASE SetWebhook
  BY Positions, <1>1, <1>8 DEF SetWebhook, Go, Mode
<1>9. CASE SpawnPolling
  BY Positions, <1>1, <1>9 DEF SpawnPolling, Go, Mode
<1>10. CASE Wait
  BY Positions, <1>1, <1>10 DEF Wait, Go, Mode
<1>11. CASE StopPolling
  BY <1>1, <1>11 DEF StopPolling, Exit, Mode
<1>12. CASE DeleteWebhook
  BY Positions, <1>1, <1>12 DEF DeleteWebhook, Go, Mode
<1>13. CASE Cleanup
  BY Positions, <1>1, <1>13 DEF Cleanup, Go, Mode
<1>14. CASE Return
  BY <1>1, <1>14 DEF Return, Exit, Mode
<1>15. CASE PollingBegins
  BY <1>1, <1>15 DEF PollingBegins, Mode
<1> QED
  BY <1>2, <1>3, <1>4, <1>5, <1>6, <1>7, <1>8, <1>9, <1>10, <1>11, <1>12, <1>13, <1>14, <1>15
     DEF Advance

\* ... and the updates sent to it.
LEMMA AdvanceWaited ==
    ASSUME LifecycleInv, Advance
    PROVE  Waited'
<1> USE DEF Waited, Reached
<1>1. pc \in 1 .. 12 /\ mode \in Mode /\ Waited
  BY Halves DEF LifecycleInv, Values
<1>2. CASE AddSignalHandlers
  BY Positions, <1>1, <1>2 DEF AddSignalHandlers, Go, Mode
<1>3. CASE Call
  BY Positions, <1>1, <1>3 DEF Call, Go, Mode
<1>4. CASE CreateTables
  BY Positions, <1>1, <1>4 DEF CreateTables, Go, Mode
<1>5. CASE StartScheduler
  BY Positions, <1>1, <1>5 DEF StartScheduler, Go, Mode
<1>6. CASE StartSite
  BY Positions, <1>1, <1>6 DEF StartSite, Go, Mode
<1>7. CASE DeleteWebhookAndDrop
  BY Positions, <1>1, <1>7 DEF DeleteWebhookAndDrop, Go, Mode
<1>8. CASE SetWebhook
  BY Positions, <1>1, <1>8 DEF SetWebhook, Go, Mode
<1>9. CASE SpawnPolling
  BY Positions, <1>1, <1>9 DEF SpawnPolling, Go, Mode
<1>10. CASE Wait
  BY Positions, <1>1, <1>10 DEF Wait, Go, Mode
<1>11. CASE StopPolling
  BY <1>1, <1>11 DEF StopPolling, Exit, Mode
<1>12. CASE DeleteWebhook
  BY Positions, <1>1, <1>12 DEF DeleteWebhook, Go, Mode
<1>13. CASE Cleanup
  BY Positions, <1>1, <1>13 DEF Cleanup, Go, Mode
<1>14. CASE Return
  BY <1>1, <1>14 DEF Return, Exit, Mode
<1>15. CASE PollingBegins
  BY <1>1, <1>15 DEF PollingBegins, Mode
<1> QED
  BY <1>2, <1>3, <1>4, <1>5, <1>6, <1>7, <1>8, <1>9, <1>10, <1>11, <1>12, <1>13, <1>14, <1>15
     DEF Advance

\* Together:
LEMMA AdvanceInv == LifecycleInv /\ Advance => LifecycleInv'
<1> SUFFICES ASSUME LifecycleInv, Advance PROVE LifecycleInv'
  OBVIOUS
<1>1. LifecycleTypeOK'
  <2>1. Flags /\ Values
    BY Halves DEF LifecycleInv
  <2>2. Flags' /\ Values'
    BY <2>1, AdvanceFlags, AdvanceValues
  <2> QED BY <2>2, Halves, PTL
<1>2. TablesExist' /\ Owned' /\ Hooked' /\ Waited'
  BY AdvanceTables, AdvanceOwned, AdvanceHooked, AdvanceWaited
<1> QED BY <1>1, <1>2 DEF LifecycleInv

-------------------------------------------------------------------------------
\* So does every other step.
LEMMA StepInv == LifecycleInv /\ [Next]_vars => LifecycleInv'
<1> SUFFICES ASSUME LifecycleInv, [Next]_vars PROVE LifecycleInv'
  OBVIOUS
<1>1. Flags /\ Values /\ TablesExist /\ Owned /\ Hooked /\ Waited
  BY Halves DEF LifecycleInv
<1>2. Flags' /\ Values' /\ (TablesExist' /\ Owned' /\ Hooked' /\ Waited')
        => LifecycleInv'
  <2>1. Flags' /\ Values' => LifecycleTypeOK'
    BY Halves, PTL
  <2> QED BY <2>1 DEF LifecycleInv
<1>3. ASSUME NEW m \in Mode, NEW secret \in Passwords, Start(m, secret)
      PROVE  LifecycleInv'
  <2>1. Flags'
    BY <1>1, <1>3 DEF Start, Flags
  <2>2. Values'
    BY <1>1, <1>3, LifecycleAssumption DEF Start, Values
  <2>3. TablesExist' /\ Owned' /\ Hooked' /\ Waited'
    <3>1. pc' = 1
      BY <1>3 DEF Start
    <3>2. ~site' /\ ~jobs' /\ ~tick' /\ polling' = "off"
      BY <1>1, <1>3 DEF Start, Owned, Reached
    <3>3. TablesExist' /\ Hooked'
      BY <3>1 DEF TablesExist, Hooked, Reached
    <3>4. Owned'
      BY <3>2 DEF Owned
    <3>5. Waited'
      BY <1>3 DEF Start, Waited
    <3> QED BY <3>3, <3>4, <3>5
  <2> QED BY <2>1, <2>2, <2>3, <1>2
<1>4. ASSUME Exit, UNCHANGED <<tables, hook, update>>
      PROVE  LifecycleInv'
  <2>1. Flags'
    BY <1>1, <1>4 DEF Exit, Flags
  <2>2. Values'
    BY <1>1, <1>4 DEF Exit, Values
  <2>3. TablesExist' /\ Owned' /\ Hooked' /\ Waited'
    BY <1>1, <1>4 DEF Exit, TablesExist, Owned, Hooked, Waited, Reached
  <2> QED BY <2>1, <2>2, <2>3, <1>2
<1>5. CASE Die
  BY <1>4, <1>5 DEF Die
<1>6. CASE Advance
  BY <1>6, AdvanceInv
<1>7. CASE PollingFails
  <2>1. Flags'
    BY <1>1, <1>7 DEF PollingFails, Flags
  <2>2. Values'
    BY <1>1, <1>7 DEF PollingFails, Values
  <2>3. TablesExist' /\ Owned' /\ Hooked' /\ Waited'
    BY <1>1, <1>7 DEF PollingFails, TablesExist, Owned, Hooked, Waited, Reached
  <2> QED BY <2>1, <2>2, <2>3, <1>2
<1>8. CASE Signal
  <2>1. CASE signals = "default"
    BY <1>4, <1>8, <2>1 DEF Signal
  <2>2. CASE signals # "default"
    <3>1. Flags'
      BY <1>1, <1>8, <2>2 DEF Signal, Flags
    <3>2. Values'
      BY <1>1, <1>8, <2>2 DEF Signal, Values
    <3>3. TablesExist' /\ Owned' /\ Hooked' /\ Waited'
      BY <1>1, <1>8, <2>2 DEF Signal, TablesExist, Owned, Hooked, Waited, Reached
    <3> QED BY <3>1, <3>2, <3>3, <1>2
  <2> QED BY <2>1, <2>2
<1>9. CASE StartTick
  <2>1. Flags'
    BY <1>1, <1>9 DEF StartTick, Flags
  <2>2. Values'
    BY <1>1, <1>9 DEF StartTick, Values
  <2>3. TablesExist' /\ Owned' /\ Hooked' /\ Waited'
    BY <1>1, <1>9 DEF StartTick, TablesExist, Owned, Hooked, Waited, Reached
  <2> QED BY <2>1, <2>2, <2>3, <1>2
<1>10. CASE EndTick
  <2>1. Flags'
    BY <1>1, <1>10 DEF EndTick, Flags
  <2>2. Values'
    BY <1>1, <1>10 DEF EndTick, Values
  <2>3. TablesExist' /\ Owned' /\ Hooked' /\ Waited'
    BY <1>1, <1>10 DEF EndTick, TablesExist, Owned, Hooked, Waited, Reached
  <2> QED BY <2>1, <2>2, <2>3, <1>2
<1>11. ASSUME NEW u \in Updates, Send(u)
      PROVE  LifecycleInv'
  <2>1. Flags'
    BY <1>1, <1>11 DEF Send, processVars, Flags
  <2>2. Values'
    BY <1>1, <1>11 DEF Send, processVars, Values
  <2>3. TablesExist' /\ Owned' /\ Hooked'
    BY <1>1, <1>11 DEF Send, processVars, TablesExist, Owned, Hooked, Reached
  <2>4. Waited'
    <3>1. At("wait") => pc = 8
      BY <1>1, Positions DEF Values
    <3>2. up' = up /\ pc' = pc /\ (fresh' = fresh \/ pc = 8)
      BY <1>11, <3>1 DEF Send, processVars
    <3> QED BY <1>1, <3>2 DEF Waited, Values
  <2> QED BY <2>1, <2>2, <2>3, <2>4, <1>2
<1>12. ASSUME NEW u \in Updates, Deliver(u)
      PROVE  LifecycleInv'
  <2>1. Flags'
    BY <1>1, <1>12 DEF Deliver, Serving, processVars, Flags
  <2>2. Values'
    BY <1>1, <1>12 DEF Deliver, Serving, processVars, Values
  <2>3. TablesExist' /\ Owned' /\ Hooked' /\ Waited'
    BY <1>1, <1>12 DEF Deliver, Serving, processVars, TablesExist, Owned, Hooked, Waited, Reached
  <2> QED BY <2>1, <2>2, <2>3, <1>2
<1>13. CASE UNCHANGED vars
  <2>1. Flags'
    BY <1>1, <1>13 DEF vars, processVars, Flags
  <2>2. Values'
    BY <1>1, <1>13 DEF vars, processVars, Values
  <2>3. TablesExist' /\ Owned' /\ Hooked' /\ Waited'
    BY <1>1, <1>13 DEF vars, processVars, TablesExist, Owned, Hooked, Waited, Reached
  <2> QED BY <2>1, <2>2, <2>3, <1>2
<1> QED
  BY <1>3, <1>5, <1>6, <1>7, <1>8, <1>9, <1>10, <1>11, <1>12, <1>13 DEF Next, ProcessStep

-------------------------------------------------------------------------------
(* Theorems.                                                               *)

\* Only StartTick starts a tick.
LEMMA StepTick ==
    ASSUME Next, tick'
    PROVE  jobs \/ tick
BY Zenon DEF Next, ProcessStep, Advance, Start, Die, Exit, AddSignalHandlers, Call, CreateTables,
    StartScheduler, StartSite, DeleteWebhookAndDrop, SetWebhook, SpawnPolling, Wait,
    StopPolling, DeleteWebhook, Cleanup, Return, PollingBegins, PollingFails, Signal,
    StartTick, EndTick, Send, Deliver, Serving, processVars

\* Only Deliver handles an update.
LEMMA StepHandles ==
    ASSUME Next, Values, NEW u \in Updates, update'[u] = "handled", update[u] # "handled"
    PROVE  site \/ polling = "running"
<1>1. CASE DeleteWebhookAndDrop
  BY <1>1 DEF DeleteWebhookAndDrop
<1>2. ASSUME NEW v \in Updates, Send(v)
      PROVE  FALSE
  BY <1>2 DEF Send, Values
<1>3. ASSUME NEW v \in Updates, Deliver(v)
      PROVE  site \/ polling = "running"
  BY <1>3 DEF Deliver, Serving
<1> QED
  BY <1>1, <1>2, <1>3 DEF Next, ProcessStep, Advance, Start, Die, Exit, AddSignalHandlers, Call,
     CreateTables, StartScheduler, StartSite, SetWebhook, SpawnPolling, Wait,
     StopPolling, DeleteWebhook, Cleanup, Return, PollingBegins, PollingFails, Signal,
     StartTick, EndTick

\* Only DeleteWebhookAndDrop drops an update.
LEMMA StepDrops ==
    ASSUME Next, Values, NEW u \in Updates, update'[u] = "dropped", update[u] # "dropped"
    PROVE  DeleteWebhookAndDrop
<1>1. ASSUME NEW v \in Updates, Send(v)
      PROVE  FALSE
  BY <1>1 DEF Send, Values
<1>2. ASSUME NEW v \in Updates, Deliver(v)
      PROVE  FALSE
  BY <1>2 DEF Deliver, Values
<1> QED
  BY <1>1, <1>2 DEF Next, ProcessStep, Advance, Start, Die, Exit, AddSignalHandlers, Call,
     CreateTables, StartScheduler, StartSite, SetWebhook, SpawnPolling, Wait,
     StopPolling, DeleteWebhook, Cleanup, Return, PollingBegins, PollingFails, Signal,
     StartTick, EndTick

\* The invariant holds in every state.
LEMMA Invariance == Spec => []LifecycleInv
BY InitInv, StepInv, PTL DEF Spec

\* However processes start, fail, are signalled and die, and whatever each of them left
\* of its script undone, the state is one that bot.py can be in.
THEOREM TypeCorrect == Spec => []LifecycleTypeOK
<1>1. LifecycleInv => LifecycleTypeOK
  BY DEF LifecycleInv
<1> QED BY <1>1, Invariance, PTL

\* Polling never runs beside a webhook an earlier process left behind, and a process
\* that waits for webhook posts has one registered and listens.
THEOREM OneWayInAlways == Spec => []OneWayIn
<1>1. LifecycleInv => OneWayIn
  <2> SUFFICES ASSUME LifecycleInv PROVE OneWayIn
    OBVIOUS
  <2>1. pc \in 1 .. 12 /\ mode \in Mode /\ Owned /\ Hooked
    BY Halves DEF LifecycleInv, Values
  <2>2. polling = "running" => ~hook
    BY <2>1 DEF Owned, Hooked, Reached
  <2>3. At("wait") => up /\ pc = 8
    BY <2>1, Positions
  <2>4. At("wait") /\ mode = "webhook" => hook /\ site
    BY <2>1, <2>3 DEF Hooked, Reached
  <2> QED BY <2>2, <2>4 DEF OneWayIn
<1> QED BY <1>1, Invariance, PTL

\* No step handles an update or starts a tick before the tables exist.
THEOREM NothingRunsUnpreparedEver == Spec => NothingRunsUnprepared
<1>1. LifecycleInv /\ [Next]_vars
        => [ tick' \/ (\E u \in Updates : update'[u] = "handled" /\ update[u] # "handled")
               => tables ]_vars
  <2> SUFFICES ASSUME LifecycleInv, Next,
                      tick' \/ \E u \in Updates : update'[u] = "handled" /\ update[u] # "handled"
               PROVE  tables
    OBVIOUS
  <2>1. pc \in 1 .. 12 /\ mode \in Mode /\ Owned /\ TablesExist
    BY Halves DEF LifecycleInv, Values
  <2>2. site \/ jobs \/ tick \/ polling = "running" => tables
    BY <2>1 DEF Owned, TablesExist, Reached
  <2>3. CASE tick'
    <3>1. jobs \/ tick
      BY <2>3, <2>1, StepTick
    <3> QED BY <3>1, <2>2
  <2>4. CASE \E u \in Updates : update'[u] = "handled" /\ update[u] # "handled"
    <3>1. PICK u \in Updates : update'[u] = "handled" /\ update[u] # "handled"
      BY <2>4
    <3>2. site \/ polling = "running"
      BY <3>1, StepHandles, Halves DEF LifecycleInv
    <3> QED BY <3>2, <2>2
  <2> QED BY <2>3, <2>4
<1> QED BY <1>1, Invariance, PTL DEF Spec, NothingRunsUnprepared

\* A shutdown that runs has taken the webhook back before it closes the site.
THEOREM SiteOutlivesHookAlways == Spec => SiteOutlivesHook
<1>1. LifecycleInv => (At("cleanup") => ~hook)
  <2> SUFFICES ASSUME LifecycleInv, At("cleanup") PROVE ~hook
    OBVIOUS
  <2>1. pc \in 1 .. 12 /\ mode \in Mode /\ Hooked
    BY Halves DEF LifecycleInv, Values
  <2>2. up /\ pc = (IF mode = "webhook" THEN 10 ELSE 11)
    BY <2>1, Positions
  <2> QED BY <2>1, <2>2 DEF Hooked, Reached, Mode
<1>2. (At("cleanup") => ~hook) /\ [Next]_vars
        => [site /\ ~site' /\ At("cleanup") => ~hook]_vars
  OBVIOUS
<1> QED BY <1>1, <1>2, Invariance, PTL DEF Spec, SiteOutlivesHook

\* What was sent while a process waits is never dropped by that process: the only step
\* that drops stands before the waiting in both scripts.
THEOREM ServedIsNotDroppedEver == Spec => ServedIsNotDropped
<1>1. LifecycleInv /\ [Next]_vars
        => [ \A u \in fresh : update'[u] = "dropped" => update[u] = "dropped" \/ fresh' = {} ]_vars
  <2> SUFFICES ASSUME LifecycleInv, Next, NEW u \in fresh,
                      update'[u] = "dropped", update[u] # "dropped"
               PROVE  FALSE
    OBVIOUS
  <2>1. pc \in 1 .. 12 /\ mode \in Mode /\ Waited /\ Values
    BY Halves DEF LifecycleInv, Values
  <2>2. DeleteWebhookAndDrop
    BY <2>1, StepDrops DEF Values
  <2>3. up /\ pc = (IF mode = "webhook" THEN 6 ELSE 2)
    BY <2>1, <2>2, Positions DEF DeleteWebhookAndDrop
  <2>4. up /\ pc >= 8
    BY <2>1, <2>3 DEF Waited
  <2> QED BY <2>1, <2>3, <2>4 DEF Mode
<1> QED BY <1>1, Invariance, PTL DEF Spec, ServedIsNotDropped
===============================================================================
