-------------------------- MODULE SubscriptionsProofs --------------------------
(***************************************************************************)
(* Proofs about Subscriptions for every set of users, profiles and         *)
(* handlers: what holds however handlers of one user overlap, and that     *)
(* users who wait for their answers get the ledger of SubscriptionLedger.  *)
(***************************************************************************)
EXTENDS Subscriptions, SequenceTheorems, TLAPS

USE SubscriptionAssumption, NullAssumption DEF Manner, Patient

\* Goto moves one handler and changes nothing else of its request.
LEMMA GotoMoves ==
    ASSUME req \in [Handlers -> Request \cup {NULL}], NEW h \in Handlers, req[h] # NULL,
           NEW to \in {"flush", "record", "delete", "commit"}, Goto(h, to)
    PROVE  /\ req' \in [Handlers -> Request \cup {NULL}]
           /\ req'[h] # NULL /\ req'[h].pc = to
           /\ req'[h].op = req[h].op /\ req'[h].user = req[h].user
           /\ req'[h].profile = req[h].profile /\ req'[h].seen = req[h].seen
           /\ \A g \in Handlers \ {h} : req'[g] = req[g]
<1>1. req[h] \in Request
  OBVIOUS
<1>2. [req[h] EXCEPT !.pc = to] \in Request
  BY <1>1 DEF Request
<1>3. req'[h] = [req[h] EXCEPT !.pc = to]
  BY DEF Goto
<1>4. req'[h].pc = to /\ req'[h].op = req[h].op /\ req'[h].user = req[h].user
      /\ req'[h].profile = req[h].profile /\ req'[h].seen = req[h].seen
  BY <1>1, <1>3 DEF Request
<1>5. QED
  BY <1>2, <1>3, <1>4 DEF Goto

\* Appending an event keeps a user's journal a sequence of events and adds one at its end.
LEMMA AppendEvent ==
    ASSUME NEW s \in Seq(Event), NEW o \in Operation
    PROVE  /\ Append(s, EventOf(o)) \in Seq(Event)
           /\ Append(s, EventOf(o)) # <<>>
           /\ Len(Append(s, EventOf(o))) = Len(s) + 1
           /\ \A i \in 1 .. Len(s) : Append(s, EventOf(o))[i] = s[i]
           /\ Append(s, EventOf(o))[Len(s) + 1] = EventOf(o)
<1>1. EventOf(o) \in Event
  BY DEF EventOf, Operation, Event
<1>2. QED
  BY <1>1, AppendProperties

\* The variables keep their types in every interleaving of handlers and crashes.
THEOREM TypeCorrect == Spec => []TypeOK
<1>1. Init => TypeOK
  BY DEF Init, TypeOK, EmptyJournal, Event
<1>2. TypeOK /\ [Next]_vars => TypeOK'
  <2> SUFFICES ASSUME TypeOK, [Next]_vars PROVE TypeOK'
    OBVIOUS
  <2>0. manner' = manner
    BY DEF Next, vars
  <2> USE <2>0 DEF TypeOK, dbVars, draftVars
  <2>1. ASSUME NEW h \in Handlers, NEW o \in Operation, NEW u \in Users, NEW p \in Profiles,
               Begin(h, o, u, p)
        PROVE  TypeOK'
    BY <2>1 DEF Begin, Request
  <2>2. ASSUME NEW h \in Handlers, Step(h) PROVE TypeOK'
    <3> USE DEF At, Finish, TakeLock
    <3>1. CASE SelectNothing(h)
      BY <3>1, GotoMoves DEF SelectNothing
    <3>2. CASE SelectRow(h)
      <4>1. req[h] \in Request
        BY <3>2 DEF SelectRow
      <4>2. PICK row \in Row, to \in {"flush", "record"} :
                req' = [req EXCEPT ![h] = [@ EXCEPT !.seen = row, !.pc = to]]
        BY <3>2 DEF SelectRow, RowOf
      <4>3. [req[h] EXCEPT !.seen = row, !.pc = to] \in Request
        BY <4>1 DEF Request
      <4>4. req' \in [Handlers -> Request \cup {NULL}]
        BY <4>2, <4>3
      <4>5. QED
        BY <3>2, <4>4 DEF SelectRow
    <3>3. CASE FlushInsert(h)
      <4>1. req[h] \in Request
        BY <3>3 DEF FlushInsert
      <4>2. draftRows' \subseteq Row
        BY <3>3, <4>1 DEF FlushInsert, NextIds, Row, Request
      <4>3. QED
        BY <3>3, <4>2, GotoMoves DEF FlushInsert
    <3>4. CASE FlushNothing(h)
      BY <3>4, GotoMoves DEF FlushNothing
    <3>5. CASE FlushUpdate(h)
      <4>1. req[h] \in Request
        BY <3>5 DEF FlushUpdate
      <4>2. draftRows' \subseteq Row
        BY <3>5, <4>1 DEF FlushUpdate, Row, Request
      <4>3. QED
        BY <3>5, <4>2, GotoMoves DEF FlushUpdate
    <3>6. CASE FlushFails(h)
      BY <3>6 DEF FlushFails, Rollback
    <3>7. CASE Record(h)
      <4>1. req[h] \in Request
        BY <3>7 DEF Record
      <4>2. draftJournal' \in [Users -> Seq(Event)]
        BY <3>7, <4>1, AppendEvent DEF Record, Request
      <4>3. QED
        BY <3>7, <4>2, GotoMoves DEF Record
    <3>8. CASE Delete(h)
      BY <3>8, GotoMoves DEF Delete
    <3>9. CASE Commit(h)
      BY <3>9 DEF Commit
    <3>10. CASE LockTimeout(h)
      BY <3>10 DEF LockTimeout
    <3>11. QED
      BY <2>2, <3>1, <3>2, <3>3, <3>4, <3>5, <3>6, <3>7, <3>8, <3>9, <3>10 DEF Step
  <2>3. CASE SenderTakesLock \/ SenderReturnsLock \/ Crash \/ UNCHANGED vars
    BY <2>3 DEF SenderTakesLock, SenderReturnsLock, Crash, vars
  <2>4. QED
    BY <2>1, <2>2, <2>3 DEF Next
<1>3. QED
  BY <1>1, <1>2, PTL DEF Spec

-------------------------------------------------------------------------------
(* Overlapping handlers.  RowsAreJournaled speaks of committed rows; what   *)
(* makes it inductive is the same of the uncommitted ones, with the one row *)
(* excepted that the lock's owner has written and not yet recorded.         *)

SaysSubscribed(log) == \E i \in 1 .. Len(log) : log[i] = "subscribed"
Explained(log, row) == SaysSubscribed(log[row.user])

\* An event that is appended takes nothing back; "subscribed" explains a row.
LEMMA AppendExplains ==
    ASSUME NEW s \in Seq(Event), NEW o \in Operation
    PROVE  /\ SaysSubscribed(s) => SaysSubscribed(Append(s, EventOf(o)))
           /\ o = "subscribe" => SaysSubscribed(Append(s, EventOf(o)))
<1>1. Len(s) \in Nat
  OBVIOUS
<1>2. QED
  BY <1>1, AppendEvent DEF SaysSubscribed, EventOf

\* Only the lock's owner has anything uncommitted, and who is about to delete or to commit
\* owns it.
DraftsBelongToLock ==
    /\ lock \notin Handlers => draftRows = rows /\ draftJournal = journal
    /\ \A h \in Handlers : At(h, "delete") \/ At(h, "commit") => lock = h

\* A handler owns the lock between its first write and its commit, and only then.
OwnerWrites ==
    \A h \in Handlers :
        /\ lock = h => At(h, "record") \/ At(h, "delete") \/ At(h, "commit")
        /\ lock = h /\ At(h, "record") => req[h].op = "subscribe" /\ draftJournal = journal
        /\ At(h, "flush") => req[h].op = "subscribe"
        /\ At(h, "record") /\ req[h].op = "unsubscribe" => req[h].seen # NULL
        /\ At(h, "delete") => req[h].op = "unsubscribe" /\ req[h].seen # NULL

DraftsAreJournaled ==
    \A row \in draftRows :
        \/ Explained(draftJournal, row)
        \/ \E h \in Handlers : lock = h /\ At(h, "record") /\ req[h].user = row.user

OverlapInv == DraftsBelongToLock /\ RowsAreJournaled /\ OwnerWrites /\ DraftsAreJournaled

\* OverlapInv is established at the start and kept by every step, by handlers of one
\* user in any overlap included.
LEMMA OverlapInvHolds == Spec => []OverlapInv
<1>1. Init => OverlapInv
  BY DEF Init, OverlapInv, DraftsBelongToLock, RowsAreJournaled, OwnerWrites, DraftsAreJournaled, At
<1>2. TypeOK /\ OverlapInv /\ [Next]_vars => OverlapInv'
  <2> SUFFICES ASSUME TypeOK, OverlapInv, [Next]_vars PROVE OverlapInv'
    OBVIOUS
  <2> USE DEF OverlapInv, DraftsBelongToLock, OwnerWrites, dbVars, draftVars, TypeOK
  <2>a. \A row \in rows : Explained(journal, row)
    BY DEF RowsAreJournaled, Explained, SaysSubscribed
  <2>b. (\A row \in rows' : Explained(journal', row)) => RowsAreJournaled'
    BY DEF RowsAreJournaled, Explained, SaysSubscribed
  <2>1. ASSUME NEW h \in Handlers, NEW o \in Operation, NEW u \in Users, NEW p \in Profiles,
               Begin(h, o, u, p)
        PROVE  OverlapInv'
    BY <2>a, <2>b, <2>1 DEF Begin, At, DraftsAreJournaled
  <2>2. ASSUME NEW h \in Handlers, Step(h) PROVE OverlapInv'
    <3> USE DEF At, Finish, TakeLock
    <3>1. CASE SelectNothing(h)
      <4>1. CASE req[h].op = "subscribe"
        BY <2>a, <2>b, <3>1, <4>1, GotoMoves DEF SelectNothing, DraftsAreJournaled
      <4>2. CASE req[h].op # "subscribe"
        <5>1. lock # h /\ req'[h] = NULL /\ \A g \in Handlers \ {h} : req'[g] = req[g]
          BY <3>1, <4>2 DEF SelectNothing
        <5>2. UNCHANGED <<rows, journal, lock, draftRows, draftJournal>>
          BY <3>1 DEF SelectNothing
        <5>3. OwnerWrites' /\ DraftsBelongToLock'
          BY <5>1, <5>2
        <5>4. RowsAreJournaled'
          BY <2>a, <2>b, <5>2
        <5>5. DraftsAreJournaled'
          BY <5>1, <5>2 DEF DraftsAreJournaled
        <5>6. QED
          BY <5>3, <5>4, <5>5
      <4>3. QED
        BY <4>1, <4>2
    <3>2. CASE SelectRow(h)
      <4>1. req[h] \in Request /\ req[h].pc = "select"
        BY <3>2 DEF SelectRow
      <4>2. /\ req'[h] # NULL /\ req'[h].seen # NULL
            /\ req'[h].op = req[h].op /\ req[h].op \in Operation
            /\ req'[h].pc = IF req[h].op = "subscribe" THEN "flush" ELSE "record"
            /\ \A g \in Handlers \ {h} : req'[g] = req[g]
        <5>1. PICK row \in Row :
                 req' = [req EXCEPT ![h] =
                            [@ EXCEPT !.seen = row,
                                      !.pc = IF req[h].op = "subscribe" THEN "flush" ELSE "record"]]
          BY <3>2 DEF SelectRow, RowOf
        <5>2. req'[h] = [req[h] EXCEPT !.seen = row,
                             !.pc = IF req[h].op = "subscribe" THEN "flush" ELSE "record"]
          BY <5>1
        <5>3. req'[h] \in Request /\ req'[h].seen = row /\ req'[h].op = req[h].op
              /\ req'[h].pc = IF req[h].op = "subscribe" THEN "flush" ELSE "record"
          BY <4>1, <5>2 DEF Request
        <5>4. QED
          BY <4>1, <5>1, <5>3 DEF Request
      <4>3. QED
        BY <2>a, <2>b, <3>2, <4>1, <4>2 DEF SelectRow, DraftsAreJournaled
    <3>3. CASE FlushInsert(h)
      <4>1. lock = "free" /\ lock' = h /\ draftRows = rows /\ draftJournal = journal
        BY <3>3 DEF FlushInsert
      <4>2. At(h, "flush") /\ At(h, "record")' /\ req[h].op = "subscribe"
            /\ req'[h].op = "subscribe" /\ req'[h].user = req[h].user
            /\ \A g \in Handlers \ {h} : req'[g] = req[g]
        BY <3>3, GotoMoves DEF FlushInsert
      <4>3. DraftsAreJournaled'
        BY <2>a, <3>3, <4>1, <4>2 DEF FlushInsert, DraftsAreJournaled
      <4>4. QED
        BY <2>a, <2>b, <3>3, <4>1, <4>2, <4>3 DEF FlushInsert
    <3>4. CASE FlushNothing(h)
      BY <2>a, <2>b, <3>4, GotoMoves DEF FlushNothing, DraftsAreJournaled
    <3>5. CASE FlushUpdate(h)
      <4>1. lock = "free" /\ lock' = h /\ draftRows = rows /\ draftJournal = journal
        BY <3>5 DEF FlushUpdate
      <4>2. At(h, "flush") /\ At(h, "record")' /\ req[h].op = "subscribe"
            /\ req'[h].op = "subscribe" /\ \A g \in Handlers \ {h} : req'[g] = req[g]
        BY <3>5, GotoMoves DEF FlushUpdate
      <4>3. \A row \in draftRows' : \E old \in rows : row.user = old.user
        BY <3>5, <4>1 DEF FlushUpdate, Row
      <4>a. \A row \in draftRows' : Explained(journal, row)
        <5>1. ASSUME NEW row \in draftRows' PROVE Explained(journal, row)
          <6>1. PICK old \in rows : row.user = old.user
            BY <4>3
          <6>2. Explained(journal, old)
            BY <2>a
          <6>3. QED
            BY <6>1, <6>2 DEF Explained
        <5>2. QED
          BY <5>1
      <4>4. DraftsAreJournaled'
        BY <3>5, <4>1, <4>a DEF FlushUpdate, DraftsAreJournaled
      <4>5. QED
        BY <2>a, <2>b, <3>5, <4>1, <4>2, <4>4 DEF FlushUpdate
    <3>6. CASE FlushFails(h)
      BY <2>a, <2>b, <3>6 DEF FlushFails, Rollback, Request, DraftsAreJournaled
    <3>7. CASE Record(h)
      <4>. DEFINE u == req[h].user
      <4>1. req[h] \in Request /\ u \in Users /\ req[h].op \in Operation
        BY <3>7 DEF Record, Request
      <4>2. draftJournal'[u] = Append(draftJournal[u], EventOf(req[h].op))
            /\ \A v \in Users \ {u} : draftJournal'[v] = draftJournal[v]
        BY <3>7, <4>1 DEF Record
      <4>a. /\ SaysSubscribed(draftJournal[u]) => SaysSubscribed(draftJournal'[u])
            /\ req[h].op = "subscribe" => SaysSubscribed(draftJournal'[u])
        <5>1. draftJournal[u] \in Seq(Event)
          BY <4>1
        <5>2. QED
          BY <4>1, <4>2, <5>1, AppendExplains
      <4>3. ASSUME NEW row \in draftRows, Explained(draftJournal, row)
            PROVE  Explained(draftJournal', row)
        <5>1. row.user \in Users
          BY DEF Row
        <5>2. CASE row.user = u
          BY <4>3, <4>a, <5>2 DEF Explained
        <5>3. CASE row.user # u
          BY <4>2, <4>3, <5>1, <5>3 DEF Explained
        <5>4. QED
          BY <5>2, <5>3
      <4>4. ASSUME NEW row \in draftRows, req[h].op = "subscribe", row.user = u
            PROVE  Explained(draftJournal', row)
        BY <4>4, <4>a DEF Explained
      <4>5. lock = "free" \/ (lock = h /\ req[h].op = "subscribe")
        BY <3>7 DEF Record
      <4>6. DraftsAreJournaled'
        <5>1. draftRows' = draftRows
          BY <3>7 DEF Record
        <5>2. ASSUME NEW row \in draftRows PROVE Explained(draftJournal', row)
          <6>1. CASE lock = "free"
            BY <2>a, <4>3, <6>1
          <6>2. CASE lock = h /\ req[h].op = "subscribe"
            <7>1. CASE Explained(draftJournal, row)
              BY <4>3, <7>1
            <7>2. CASE row.user = u
              BY <4>4, <6>2, <7>2
            <7>3. Explained(draftJournal, row) \/ row.user = u
              BY <6>2 DEF DraftsAreJournaled
            <7>4. QED
              BY <7>1, <7>2, <7>3
          <6>3. QED
            BY <4>5, <6>1, <6>2
        <5>3. QED
          BY <5>1, <5>2 DEF DraftsAreJournaled
      <4>7. QED
        <5>1. /\ req'[h] # NULL /\ req'[h].op = req[h].op /\ req'[h].seen = req[h].seen
              /\ req'[h].pc = IF req[h].op = "subscribe" THEN "commit" ELSE "delete"
              /\ \A g \in Handlers \ {h} : req'[g] = req[g]
          BY <3>7, GotoMoves DEF Record
        <5>2. OwnerWrites'
          BY <3>7, <4>1, <5>1 DEF Record, Operation
        <5>3. DraftsBelongToLock'
          BY <3>7, <5>1 DEF Record
        <5>4. RowsAreJournaled'
          BY <2>a, <2>b, <3>7 DEF Record
        <5>5. QED
          BY <4>6, <5>2, <5>3, <5>4
    <3>8. CASE Delete(h)
      BY <2>a, <2>b, <3>8, GotoMoves DEF Delete, DraftsAreJournaled
    <3>9. CASE Commit(h)
      BY <2>a, <2>b, <3>9 DEF Commit, Request, DraftsAreJournaled
    <3>10. CASE LockTimeout(h)
      BY <2>a, <2>b, <3>10 DEF LockTimeout, Request, DraftsAreJournaled
    <3>11. QED
      BY <2>2, <3>1, <3>2, <3>3, <3>4, <3>5, <3>6, <3>7, <3>8, <3>9, <3>10 DEF Step
  <2>3. CASE SenderTakesLock \/ SenderReturnsLock \/ UNCHANGED vars
    BY <2>a, <2>b, <2>3 DEF SenderTakesLock, SenderReturnsLock, vars, At, DraftsAreJournaled
  <2>4. CASE Crash
    BY <2>a, <2>b, <2>4 DEF Crash, At, DraftsAreJournaled
  <2>5. QED
    BY <2>1, <2>2, <2>3, <2>4 DEF Next
<1>3. QED
  BY <1>1, <1>2, TypeCorrect, PTL DEF Spec

\* A row is never without a "subscribed" in its user's journal.
THEOREM RowsJournaled == Spec => []RowsAreJournaled
BY OverlapInvHolds, PTL DEF OverlapInv

-------------------------------------------------------------------------------
(* Users who wait.  A user then has one handler at most, so what it has     *)
(* read cannot go stale, and its transaction touches this user's data only. *)

OneHandlerPerUser ==
    \A g, h \in InFlight : req[g].user = req[h].user => g = h

KeysUnique(table) ==
    \A a, b \in table : a.id = b.id \/ a.user = b.user => a = b

\* Outside the lock owner's user, drafts and committed tables agree.
Isolation ==
    \A u \in Users : (\A h \in InFlight : lock = h => req[h].user # u) =>
        RowOf(draftRows, u) = RowOf(rows, u) /\ draftJournal[u] = journal[u]

\* What a handler has read is still what the table holds.
FreshRead(h) ==
    /\ req[h].seen # NULL => req[h].seen \in rows /\ req[h].seen.user = req[h].user
    /\ At(h, "flush") /\ req[h].seen = NULL => RowOf(rows, req[h].user) = {}

\* How far the handler's own rows and journal have come.
OwnDraft(h) ==
    LET u == req[h].user IN
    /\ At(h, "record") /\ lock # h => req[h].seen # NULL
    /\ At(h, "record") /\ lock = h => RowOf(draftRows, u) # {}
    /\ At(h, "delete") =>
           /\ draftJournal[u] = Append(journal[u], EventOf(req[h].op))
           /\ req[h].seen \in draftRows
    /\ At(h, "commit") =>
           /\ draftJournal[u] = Append(journal[u], EventOf(req[h].op))
           /\ IF req[h].op = "subscribe"
              THEN RowOf(draftRows, u) # {}
              ELSE RowOf(draftRows, u) = {} /\ RowOf(rows, u) # {}

PatientInv ==
    /\ OneHandlerPerUser
    /\ KeysUnique(rows) /\ KeysUnique(draftRows)
    /\ Isolation
    /\ \A h \in InFlight : FreshRead(h) /\ OwnDraft(h)
    /\ LastEventTells
\* A step of h that writes nothing and does not own the lock disturbs nobody else.
LEMMA QuietStep ==
    ASSUME TypeOK, PatientInv, NEW h \in Handlers, lock # h,
           UNCHANGED <<dbVars, draftVars, lock>>,
           \A g \in Handlers \ {h} : req'[g] = req[g],
           req'[h] # NULL => /\ req[h] # NULL /\ req'[h].user = req[h].user
                             /\ FreshRead(h)' /\ OwnDraft(h)'
    PROVE  PatientInv'
<1> USE DEF PatientInv, dbVars, draftVars
<1>1. InFlight' \subseteq InFlight /\ \A g \in InFlight' : req'[g].user = req[g].user
  BY DEF InFlight
<1>2. OneHandlerPerUser'
  BY <1>1 DEF OneHandlerPerUser
<1>3. KeysUnique(rows') /\ KeysUnique(draftRows') /\ LastEventTells'
  BY DEF LastEventTells, RowOf
<1>4. ASSUME NEW u \in Users, \A g \in InFlight' : lock' = g => req'[g].user # u
      PROVE  RowOf(draftRows', u) = RowOf(rows', u) /\ draftJournal'[u] = journal'[u]
  <2>1. \A g \in InFlight : lock = g => req[g].user # u
    BY <1>4 DEF InFlight
  <2>2. QED
    BY <2>1 DEF Isolation
<1>5. Isolation'
  BY <1>4 DEF Isolation
<1>6. ASSUME NEW g \in InFlight' PROVE FreshRead(g)' /\ OwnDraft(g)'
  <2>1. CASE g = h
    BY <2>1 DEF InFlight
  <2>2. CASE g # h
    <3>1. g \in InFlight /\ req'[g] = req[g]
      BY <2>2 DEF InFlight
    <3>2. FreshRead(g) /\ OwnDraft(g)
      BY <3>1
    <3>3. QED
      BY <3>1, <3>2 DEF FreshRead, OwnDraft, At, RowOf
  <2>3. QED
    BY <2>1, <2>2
<1>7. QED
  BY <1>2, <1>3, <1>5, <1>6

\* A step of the lock's owner that writes its own user's drafts disturbs nobody else.
LEMMA WritingStep ==
    ASSUME TypeOK, OverlapInv, PatientInv, NEW h \in Handlers, req[h] # NULL,
           lock \in {"free", h}, lock' = h,
           UNCHANGED dbVars,
           \A g \in Handlers \ {h} : req'[g] = req[g],
           req'[h] # NULL, req'[h].user = req[h].user,
           \A u \in Users \ {req[h].user} :
               RowOf(draftRows', u) = RowOf(draftRows, u) /\ draftJournal'[u] = draftJournal[u],
           KeysUnique(draftRows'),
           FreshRead(h)', OwnDraft(h)'
    PROVE  PatientInv'
<1> USE DEF PatientInv, dbVars
<1>1. InFlight' = InFlight /\ \A g \in InFlight' : req'[g].user = req[g].user
  BY DEF InFlight
<1>2. OneHandlerPerUser'
  BY <1>1 DEF OneHandlerPerUser
<1>3. KeysUnique(rows') /\ LastEventTells'
  BY DEF LastEventTells, RowOf
<1>4. ASSUME NEW u \in Users, \A g \in InFlight' : lock' = g => req'[g].user # u
      PROVE  RowOf(draftRows', u) = RowOf(rows', u) /\ draftJournal'[u] = journal'[u]
  <2>1. h \in InFlight' /\ u # req[h].user
    BY <1>1, <1>4 DEF InFlight
  <2>2. \A g \in InFlight : lock = g => req[g].user # u
    BY <2>1 DEF InFlight
  <2>3. RowOf(draftRows, u) = RowOf(rows, u) /\ draftJournal[u] = journal[u]
    BY <2>2 DEF Isolation
  <2>4. QED
    BY <2>1, <2>3
<1>5. Isolation'
  BY <1>4 DEF Isolation
<1>6. ASSUME NEW g \in InFlight' PROVE FreshRead(g)' /\ OwnDraft(g)'
  <2>1. CASE g = h
    BY <2>1
  <2>2. CASE g # h
    <3>1. g \in InFlight /\ g \in Handlers /\ req'[g] = req[g] /\ lock # g /\ lock' # g
      BY <2>2 DEF InFlight
    <3>2. FreshRead(g) /\ OwnDraft(g)
      BY <3>1
    <3>3. ~At(g, "delete") /\ ~At(g, "commit")
      BY <3>1 DEF OverlapInv, DraftsBelongToLock
    <3>4. QED
      BY <3>1, <3>2, <3>3 DEF FreshRead, OwnDraft, At, RowOf
  <2>3. QED
    BY <2>1, <2>2
<1>7. QED
  BY <1>2, <1>3, <1>5, <1>6

\* After a commit or a rollback the drafts are what is committed, and nobody owns the
\* lock: what is left to show is that the other users' rows and journals stayed.
LEMMA EndingStep ==
    ASSUME TypeOK, OverlapInv, PatientInv, NEW h \in Handlers, req[h] # NULL,
           lock \in {"free", h}, lock' = "free",
           draftRows' = rows', draftJournal' = journal',
           \A g \in Handlers \ {h} : req'[g] = req[g],
           req'[h] = NULL,
           \A u \in Users \ {req[h].user} : RowOf(rows', u) = RowOf(rows, u),
           KeysUnique(rows'), LastEventTells'
    PROVE  PatientInv'
<1> USE DEF PatientInv
<1>1. InFlight' = InFlight \ {h} /\ \A g \in InFlight' : req'[g] = req[g]
  BY DEF InFlight
<1>2. OneHandlerPerUser'
  BY <1>1 DEF OneHandlerPerUser
<1>3. KeysUnique(draftRows')
  OBVIOUS
<1>4. Isolation'
  BY DEF Isolation
<1>5. ASSUME NEW g \in InFlight' PROVE FreshRead(g)' /\ OwnDraft(g)'
  <2>1. g \in InFlight /\ g \in Handlers /\ g # h /\ req'[g] = req[g] /\ lock # g /\ lock' # g
    BY <1>1 DEF InFlight
  <2>2. FreshRead(g) /\ OwnDraft(g)
    BY <2>1
  <2>3. req[g].user \in Users /\ req[g].user # req[h].user
    BY <2>1 DEF OneHandlerPerUser, InFlight, TypeOK, Request
  <2>4. ~At(g, "delete") /\ ~At(g, "commit")
    BY <2>1 DEF OverlapInv, DraftsBelongToLock
  <2>5. req[g].seen \in rows /\ req[g].seen.user = req[g].user => req[g].seen \in rows'
    BY <2>3 DEF RowOf
  <2>6. FreshRead(g)'
    BY <2>1, <2>2, <2>3, <2>5 DEF FreshRead, At
  <2>7. OwnDraft(g)'
    BY <2>1, <2>2, <2>4 DEF OwnDraft, At
  <2>8. QED
    BY <2>6, <2>7
<1>6. QED
  BY <1>2, <1>3, <1>4, <1>5

\* PatientInv is kept by every step of users who wait.
LEMMA PatientStep ==
    ASSUME Patient, TypeOK, OverlapInv, PatientInv, [Next]_vars
    PROVE  PatientInv'
<1>1. ASSUME NEW h \in Handlers, NEW o \in Operation, NEW u \in Users, NEW p \in Profiles,
             Begin(h, o, u, p)
      PROVE  PatientInv'
  <2>1. /\ req[h] = NULL
        /\ req' = [req EXCEPT ![h] =
                      [pc |-> "select", op |-> o, user |-> u, profile |-> p, seen |-> NULL]]
        /\ \A g \in InFlight : req[g].user # u
        /\ UNCHANGED <<rows, journal, lock, draftRows, draftJournal>>
    BY <1>1 DEF Begin, dbVars, draftVars
  <2>2. /\ req'[h] = [pc |-> "select", op |-> o, user |-> u, profile |-> p, seen |-> NULL]
        /\ \A g \in Handlers \ {h} : req'[g] = req[g]
        /\ req'[h].pc = "select" /\ req'[h].user = u /\ req'[h].seen = NULL
    BY <2>1 DEF TypeOK
  <2>3. req'[h] # NULL /\ lock # h
    <3>1. req'[h] \in Request
      BY <2>2 DEF Request
    <3>2. QED
      BY <2>1, <3>1 DEF OverlapInv, OwnerWrites, At
  <2>4. InFlight' = InFlight \cup {h} /\ h \notin InFlight
    BY <2>1, <2>2, <2>3 DEF InFlight
  <2>5. OneHandlerPerUser'
    BY <2>1, <2>2, <2>4 DEF OneHandlerPerUser, PatientInv, InFlight
  <2>6. KeysUnique(rows') /\ KeysUnique(draftRows') /\ LastEventTells'
    BY <2>1 DEF PatientInv, LastEventTells, RowOf
  <2>7. ASSUME NEW v \in Users, \A g \in InFlight' : lock' = g => req'[g].user # v
        PROVE  RowOf(draftRows', v) = RowOf(rows', v) /\ draftJournal'[v] = journal'[v]
    <3>1. \A g \in InFlight : lock = g => req[g].user # v
      BY <2>1, <2>2, <2>4, <2>7 DEF InFlight
    <3>2. QED
      BY <2>1, <3>1 DEF PatientInv, Isolation
  <2>8. ASSUME NEW g \in InFlight' PROVE FreshRead(g)' /\ OwnDraft(g)'
    <3>1. CASE g = h
      BY <2>2, <3>1 DEF FreshRead, OwnDraft, At
    <3>2. CASE g # h
      <4>1. g \in InFlight /\ req'[g] = req[g] /\ FreshRead(g) /\ OwnDraft(g)
        BY <2>2, <2>4, <3>2 DEF InFlight, PatientInv
      <4>2. QED
        BY <2>1, <4>1 DEF FreshRead, OwnDraft, At, RowOf
    <3>3. QED
      BY <3>1, <3>2
  <2>9. Isolation'
    BY <2>7 DEF Isolation
  <2>10. QED
    BY <2>5, <2>6, <2>8, <2>9 DEF PatientInv
<1>2. ASSUME NEW h \in Handlers, Step(h) PROVE PatientInv'
  <2>. DEFINE u == req[h].user
  <2>a. /\ req[h] # NULL /\ req[h] \in Request /\ h \in InFlight /\ u \in Users
        /\ FreshRead(h) /\ OwnDraft(h)
        /\ KeysUnique(rows) /\ KeysUnique(draftRows)
    <3>1. req[h] # NULL
      BY <1>2 DEF Step, SelectNothing, SelectRow, FlushInsert, FlushNothing, FlushUpdate,
                  FlushFails, Record, Delete, Commit, LockTimeout, At
    <3>2. QED
      BY <3>1 DEF TypeOK, Request, InFlight, PatientInv
  <2>b. At(h, "select") \/ At(h, "flush") => lock # h
    BY DEF OverlapInv, OwnerWrites, At
  <2>c. lock = "free" => draftRows = rows /\ draftJournal = journal
    BY DEF OverlapInv, DraftsBelongToLock
  <2>d. lock = "free" => lock # h
    OBVIOUS
  <2>1. CASE SelectNothing(h)
    <3>1. /\ UNCHANGED <<dbVars, draftVars, lock>> /\ lock # h
          /\ RowOf(rows, u) = {} /\ At(h, "select")
      BY <2>1, <2>b DEF SelectNothing
    <3>2. req[h].seen = NULL
      BY <3>1, <2>a DEF FreshRead, RowOf
    <3>3. CASE req[h].op = "subscribe"
      <4>1. /\ req'[h] # NULL /\ req'[h].user = u /\ req'[h].pc = "flush" /\ req'[h].seen = NULL
            /\ \A g \in Handlers \ {h} : req'[g] = req[g]
        BY <2>1, <2>a, <3>2, <3>3, GotoMoves DEF SelectNothing, TypeOK
      <4>2. FreshRead(h)' /\ OwnDraft(h)'
        BY <3>1, <4>1 DEF FreshRead, OwnDraft, At, RowOf, dbVars
      <4>3. QED
        BY <2>a, <3>1, <4>1, <4>2, QuietStep
    <3>4. CASE req[h].op # "subscribe"
      <4>1. req'[h] = NULL /\ \A g \in Handlers \ {h} : req'[g] = req[g]
        BY <2>1, <3>4 DEF SelectNothing, Finish, TypeOK
      <4>2. QED
        BY <3>1, <4>1, QuietStep
    <3>5. QED
      BY <3>3, <3>4
  <2>2. CASE SelectRow(h)
    <3>. DEFINE to == IF req[h].op = "subscribe" THEN "flush" ELSE "record"
    <3>1. PICK row \in RowOf(rows, u) :
              req' = [req EXCEPT ![h] = [@ EXCEPT !.seen = row, !.pc = to]]
      BY <2>2 DEF SelectRow
    <3>2. row \in rows /\ row.user = u /\ row \in Row
      BY <3>1 DEF RowOf, TypeOK
    <3>3. req'[h] = [req[h] EXCEPT !.seen = row, !.pc = to]
      BY <3>1 DEF TypeOK
    <3>4. /\ req'[h] \in Request /\ req'[h].user = u /\ req'[h].pc = to /\ req'[h].seen = row
          /\ \A g \in Handlers \ {h} : req'[g] = req[g]
      BY <2>a, <3>1, <3>2, <3>3 DEF Request, TypeOK
    <3>5. UNCHANGED <<dbVars, draftVars, lock>> /\ lock # h
      BY <2>2, <2>b DEF SelectRow
    <3>6. req'[h] # NULL /\ row # NULL
      BY <3>2, <3>4
    <3>7. FreshRead(h)' /\ OwnDraft(h)'
      BY <3>2, <3>4, <3>5, <3>6 DEF FreshRead, OwnDraft, At, dbVars
    <3>8. QED
      BY <2>a, <3>4, <3>5, <3>6, <3>7, QuietStep
  <2>3. CASE FlushInsert(h)
    <3>1. /\ lock = "free" /\ lock' = h /\ UNCHANGED dbVars /\ draftJournal' = draftJournal
          /\ draftRows = rows /\ RowOf(draftRows, u) = {} /\ req[h].seen = NULL
      BY <2>3, <2>b, <2>c DEF FlushInsert, TakeLock
    <3>2. /\ req'[h] # NULL /\ req'[h].user = u /\ req'[h].pc = "record" /\ req'[h].seen = NULL
          /\ \A g \in Handlers \ {h} : req'[g] = req[g]
      BY <2>3, <2>a, <3>1, GotoMoves DEF FlushInsert, TypeOK
    <3>3. PICK i \in NextIds(draftRows) :
              draftRows' = draftRows \cup {[id |-> i, user |-> u, profile |-> req[h].profile]}
      BY <2>3 DEF FlushInsert
    <3>4. \A row \in draftRows : row.id < i /\ row.user # u /\ row.id \in Nat
      BY <3>1, <3>3 DEF NextIds, RowOf, TypeOK, Row
    <3>5. i \in Nat
      BY <3>3 DEF NextIds, TypeOK, Row
    <3>6. KeysUnique(draftRows')
      BY <2>a, <3>3, <3>4, <3>5 DEF KeysUnique
    <3>7. RowOf(draftRows', u) # {}
          /\ \A v \in Users \ {u} : RowOf(draftRows', v) = RowOf(draftRows, v)
      <4>. DEFINE new == [id |-> i, user |-> u, profile |-> req[h].profile]
      <4>1. draftRows' = draftRows \cup {new} /\ new.user = u
        BY <3>3
      <4>. HIDE DEF new
      <4>2. QED
        BY <4>1 DEF RowOf
    <3>8. FreshRead(h)' /\ OwnDraft(h)'
      BY <3>1, <3>2, <3>7 DEF FreshRead, OwnDraft, At
    <3>9. QED
      BY <2>a, <3>1, <3>2, <3>6, <3>7, <3>8, WritingStep
  <2>4. CASE FlushNothing(h)
    <3>1. /\ UNCHANGED <<dbVars, draftVars, lock>> /\ lock # h /\ req[h].seen # NULL
      BY <2>4, <2>b DEF FlushNothing
    <3>2. /\ req'[h] # NULL /\ req'[h].user = u /\ req'[h].pc = "record"
          /\ req'[h].seen = req[h].seen
          /\ \A g \in Handlers \ {h} : req'[g] = req[g]
      BY <2>4, <2>a, GotoMoves DEF FlushNothing, TypeOK
    <3>3. FreshRead(h)' /\ OwnDraft(h)'
      BY <2>a, <3>1, <3>2 DEF FreshRead, OwnDraft, At, dbVars
    <3>4. QED
      BY <2>a, <3>1, <3>2, <3>3, QuietStep
  <2>5. CASE FlushUpdate(h)
    <3>1. /\ lock = "free" /\ lock' = h /\ UNCHANGED dbVars /\ draftJournal' = draftJournal
          /\ draftRows = rows /\ req[h].seen # NULL
      BY <2>5, <2>b, <2>c DEF FlushUpdate, TakeLock
    <3>2. /\ req'[h] # NULL /\ req'[h].user = u /\ req'[h].pc = "record"
          /\ req'[h].seen = req[h].seen
          /\ \A g \in Handlers \ {h} : req'[g] = req[g]
      BY <2>5, <2>a, GotoMoves DEF FlushUpdate, TypeOK
    <3>3. req[h].seen \in rows /\ req[h].seen.user = u /\ req[h].seen \in Row
      BY <2>a, <3>1 DEF FreshRead, TypeOK
    <3>4. draftRows' = (draftRows \ {req[h].seen})
                           \cup {[req[h].seen EXCEPT !.profile = req[h].profile]}
      BY <2>5, <2>a, <3>1, <3>3 DEF FlushUpdate, KeysUnique
    <3>5. [req[h].seen EXCEPT !.profile = req[h].profile].id = req[h].seen.id
          /\ [req[h].seen EXCEPT !.profile = req[h].profile].user = u
      BY <3>3 DEF Row
    <3>6. KeysUnique(draftRows')
      <4>. DEFINE new == [req[h].seen EXCEPT !.profile = req[h].profile]
      <4>1. draftRows' = (draftRows \ {req[h].seen}) \cup {new}
            /\ new.id = req[h].seen.id /\ new.user = u
        BY <3>4, <3>5
      <4>. HIDE DEF new
      <4>2. \A row \in draftRows \ {req[h].seen} : row.id # new.id /\ row.user # new.user
        BY <2>a, <3>1, <3>3, <4>1 DEF KeysUnique
      <4>3. QED
        BY <2>a, <4>1, <4>2 DEF KeysUnique
    <3>7. RowOf(draftRows', u) # {}
          /\ \A v \in Users \ {u} : RowOf(draftRows', v) = RowOf(draftRows, v)
      BY <3>3, <3>4, <3>5 DEF RowOf
    <3>8. FreshRead(h)' /\ OwnDraft(h)'
      BY <3>1, <3>2, <3>3, <3>7 DEF FreshRead, OwnDraft, At, dbVars
    <3>9. QED
      BY <2>a, <3>1, <3>2, <3>6, <3>7, <3>8, WritingStep
  <2>6. CASE FlushFails(h)
    <3>1. /\ lock = "free" /\ lock' = "free" /\ rows' = rows /\ journal' = journal
          /\ draftRows' = rows' /\ draftJournal' = journal'
          /\ req'[h] = NULL /\ \A g \in Handlers \ {h} : req'[g] = req[g]
      BY <2>6 DEF FlushFails, Rollback, Finish, dbVars, TypeOK
    <3>2. KeysUnique(rows') /\ LastEventTells'
      BY <2>a, <3>1 DEF PatientInv, LastEventTells, RowOf
    <3>3. QED
      BY <2>a, <3>1, <3>2, EndingStep
  <2>7. CASE Record(h)
    <3>. DEFINE to == IF req[h].op = "subscribe" THEN "commit" ELSE "delete"
    <3>1. /\ At(h, "record") /\ lock \in {"free", h} /\ lock' = h /\ UNCHANGED dbVars
          /\ draftRows' = draftRows
      BY <2>7 DEF Record, TakeLock
    <3>2. /\ req'[h] # NULL /\ req'[h].user = u /\ req'[h].pc = to
          /\ req'[h].seen = req[h].seen /\ req'[h].op = req[h].op
          /\ \A g \in Handlers \ {h} : req'[g] = req[g]
      BY <2>7, <2>a, GotoMoves DEF Record, TypeOK
    <3>3. /\ draftJournal'[u] = Append(draftJournal[u], EventOf(req[h].op))
          /\ \A v \in Users \ {u} : draftJournal'[v] = draftJournal[v]
      BY <2>7, <2>a DEF Record, TypeOK
    <3>4. draftJournal = journal /\ (lock = h => req[h].op = "subscribe")
      BY <2>c, <3>1 DEF OverlapInv, OwnerWrites
    <3>5. lock # h => req[h].seen # NULL /\ req[h].seen \in draftRows /\ req[h].seen.user = u
      BY <2>a, <2>c, <3>1 DEF OwnDraft, FreshRead
    <3>6. lock = h => RowOf(draftRows, u) # {}
      BY <2>a, <3>1 DEF OwnDraft
    <3>7. RowOf(draftRows, u) # {}
      BY <3>5, <3>6 DEF RowOf
    <3>8. OwnDraft(h)'
      <4>1. draftJournal'[u] = Append(journal'[u], EventOf(req'[h].op))
        BY <3>1, <3>2, <3>3, <3>4 DEF dbVars
      <4>2. CASE req[h].op = "subscribe"
        BY <3>1, <3>2, <3>7, <4>1, <4>2 DEF OwnDraft, At, RowOf
      <4>3. CASE req[h].op # "subscribe"
        BY <3>1, <3>2, <3>4, <3>5, <4>1, <4>3 DEF OwnDraft, At
      <4>4. QED
        BY <4>2, <4>3
    <3>9. FreshRead(h)'
      BY <2>a, <3>1, <3>2 DEF FreshRead, At, dbVars
    <3>10. KeysUnique(draftRows')
           /\ \A v \in Users \ {u} : RowOf(draftRows', v) = RowOf(draftRows, v)
      BY <2>a, <3>1
    <3>11. QED
      BY <2>a, <3>1, <3>2, <3>3, <3>8, <3>9, <3>10, WritingStep
  <2>8. CASE Delete(h)
    <3>1. /\ At(h, "delete") /\ lock = h /\ lock' = h /\ UNCHANGED dbVars
          /\ draftJournal' = draftJournal
          /\ draftRows' = {row \in draftRows : row.id # req[h].seen.id}
      BY <2>8 DEF Delete, OverlapInv, DraftsBelongToLock
    <3>2. /\ req'[h] # NULL /\ req'[h].user = u /\ req'[h].pc = "commit"
          /\ req'[h].seen = req[h].seen /\ req'[h].op = req[h].op
          /\ \A g \in Handlers \ {h} : req'[g] = req[g]
      BY <2>8, <2>a, GotoMoves DEF Delete, TypeOK
    <3>3. req[h].op = "unsubscribe" /\ req[h].seen # NULL
      BY <3>1 DEF OverlapInv, OwnerWrites
    <3>4. req[h].seen \in draftRows /\ req[h].seen \in rows /\ req[h].seen.user = u
      BY <2>a, <3>1, <3>3 DEF FreshRead, OwnDraft
    <3>5. \A row \in draftRows : row.id = req[h].seen.id \/ row.user = u => row = req[h].seen
      BY <2>a, <3>4 DEF KeysUnique
    <3>6. KeysUnique(draftRows')
      BY <2>a, <3>1 DEF KeysUnique
    <3>7. /\ RowOf(draftRows', u) = {}
          /\ \A v \in Users \ {u} : RowOf(draftRows', v) = RowOf(draftRows, v)
      BY <3>1, <3>4, <3>5 DEF RowOf
    <3>8. RowOf(rows, u) # {}
      BY <3>4 DEF RowOf
    <3>9. FreshRead(h)'
      BY <2>a, <3>1, <3>2 DEF FreshRead, At, dbVars
    <3>10. OwnDraft(h)'
      <4>1. draftJournal'[u] = Append(journal'[u], EventOf(req'[h].op))
        BY <2>a, <3>1, <3>2 DEF OwnDraft, dbVars
      <4>2. RowOf(rows', u) # {}
        BY <3>1, <3>8 DEF dbVars
      <4>3. QED
        BY <3>2, <3>3, <3>7, <4>1, <4>2 DEF OwnDraft, At
    <3>11. QED
      BY <2>a, <3>1, <3>2, <3>6, <3>7, <3>9, <3>10, WritingStep
  <2>9. CASE Commit(h)
    <3>1. /\ At(h, "commit") /\ lock = h /\ lock' = "free"
          /\ rows' = draftRows /\ journal' = draftJournal
          /\ draftRows' = rows' /\ draftJournal' = journal'
          /\ req'[h] = NULL /\ \A g \in Handlers \ {h} : req'[g] = req[g]
      BY <2>9 DEF Commit, Finish, draftVars, TypeOK, OverlapInv, DraftsBelongToLock
    <3>2. ASSUME NEW v \in Users \ {u}
          PROVE  RowOf(rows', v) = RowOf(rows, v) /\ journal'[v] = journal[v]
      BY <3>1 DEF PatientInv, Isolation, InFlight
    <3>3. LastEventTells'
      <4>1. ASSUME NEW v \in Users
            PROVE  RowOf(rows', v) # {} <=>
                       journal'[v] # <<>> /\ journal'[v][Len(journal'[v])] = "subscribed"
        <5>1. CASE v # u
          BY <3>2, <5>1 DEF PatientInv, LastEventTells
        <5>2. CASE v = u
          <6>1. journal[u] \in Seq(Event) /\ req[h].op \in Operation
            BY <2>a DEF TypeOK, Request
          <6>2. journal'[u] = Append(journal[u], EventOf(req[h].op))
            BY <2>a, <3>1 DEF OwnDraft
          <6>3. journal'[u] # <<>> /\ journal'[u][Len(journal'[u])] = EventOf(req[h].op)
            BY <6>1, <6>2, AppendEvent
          <6>4. RowOf(rows', u) # {} <=> req[h].op = "subscribe"
            BY <2>a, <3>1 DEF OwnDraft
          <6>5. QED
            BY <5>2, <6>3, <6>4 DEF EventOf
        <5>3. QED
          BY <5>1, <5>2
      <4>2. QED
        BY <4>1 DEF LastEventTells
    <3>4. KeysUnique(rows')
      BY <2>a, <3>1
    <3>5. QED
      BY <2>a, <3>1, <3>2, <3>3, <3>4, EndingStep
  <2>10. CASE LockTimeout(h)
    <3>1. /\ UNCHANGED <<dbVars, draftVars, lock>> /\ lock # h
          /\ req'[h] = NULL /\ \A g \in Handlers \ {h} : req'[g] = req[g]
      BY <2>10 DEF LockTimeout, Finish, TypeOK
    <3>2. QED
      BY <3>1, QuietStep
  <2>11. QED
    BY <1>2, <2>1, <2>2, <2>3, <2>4, <2>5, <2>6, <2>7, <2>8, <2>9, <2>10 DEF Step
<1>3. CASE SenderTakesLock \/ SenderReturnsLock
  <2>1. /\ UNCHANGED <<rows, journal, draftRows, draftJournal, req>>
        /\ lock \notin Handlers /\ lock' \notin Handlers
    BY <1>3 DEF SenderTakesLock, SenderReturnsLock, dbVars, draftVars
  <2>2. Isolation'
    BY <2>1 DEF OverlapInv, DraftsBelongToLock, Isolation
  <2>3. \A h \in InFlight' : h \in InFlight /\ h \in Handlers /\ FreshRead(h) /\ OwnDraft(h)
    BY <2>1 DEF InFlight, PatientInv
  <2>4. \A h \in InFlight' : FreshRead(h)' /\ OwnDraft(h)'
    BY <2>1, <2>3 DEF FreshRead, OwnDraft, At, RowOf
  <2>5. QED
    BY <2>1, <2>2, <2>4 DEF PatientInv, OneHandlerPerUser, InFlight, KeysUnique,
                            LastEventTells, RowOf
<1>4. CASE Crash
  <2>1. /\ rows' = rows /\ journal' = journal /\ draftRows' = rows' /\ draftJournal' = journal'
        /\ \A h \in Handlers : req'[h] = NULL
    BY <1>4 DEF Crash, dbVars
  <2>2. QED
    BY <2>1 DEF PatientInv, OneHandlerPerUser, InFlight, KeysUnique, Isolation,
                LastEventTells, RowOf
<1>5. CASE UNCHANGED vars
  BY <1>5 DEF vars, PatientInv, OneHandlerPerUser, InFlight, KeysUnique, Isolation, FreshRead,
              OwnDraft, At, LastEventTells, RowOf
<1>6. QED
  BY <1>1, <1>2, <1>3, <1>4, <1>5 DEF Next

\* Nobody grows patient, or loses patience, on the way.
LEMMA PatienceStays == [Next]_vars => UNCHANGED manner
BY DEF Next, vars

\* PatientInv is established at the start and kept by every step of users who wait.
LEMMA PatientInvHolds == Spec => [](Patient => PatientInv)
<1>1. Init => PatientInv
  <2>1. Init => InFlight = {} /\ rows = {} /\ draftRows = {} /\ journal = EmptyJournal
                /\ draftJournal = EmptyJournal
    BY DEF Init, InFlight
  <2>2. QED
    BY <2>1 DEF PatientInv, OneHandlerPerUser, KeysUnique, Isolation, LastEventTells, RowOf,
                EmptyJournal
<1>2. TypeOK /\ OverlapInv /\ (Patient => PatientInv) /\ [Next]_vars => (Patient => PatientInv)'
  BY PatientStep, PatienceStays
<1>3. QED
  BY <1>1, <1>2, TypeCorrect, OverlapInvHolds, PTL DEF Spec

\* Users who wait for their answers: whoever has a row is subscribed by the journal, and
\* whoever has none is not.
THEOREM PatientJournal == Spec => []JournalTellsRows
<1>1. (Patient => PatientInv) => JournalTellsRows
  BY DEF PatientInv, JournalTellsRows
<1>2. QED
  BY <1>1, PatientInvHolds, PTL

\* A step of the ledger, of the committed tables themselves.
Subscribed == {u \in Users : RowOf(rows, u) # {}}
LedgerStep ==
    \E u \in Users :
        \/ /\ Subscribed' = Subscribed \cup {u}
           /\ journal' = [journal EXCEPT ![u] = Append(@, "subscribed")]
        \/ /\ u \in Subscribed
           /\ Subscribed' = Subscribed \ {u}
           /\ journal' = [journal EXCEPT ![u] = Append(@, "unsubscribed")]

\* What a commit does to the two tables, as the ledger sees it.
LEMMA CommitIsLedgerStep ==
    ASSUME TypeOK, OverlapInv, PatientInv, NEW h \in Handlers, Commit(h)
    PROVE  /\ LedgerStep
           /\ \A u \in Users \ {req[h].user} : RowOf(rows', u) = RowOf(rows, u)
<1>. DEFINE u == req[h].user
<1>1. /\ h \in InFlight /\ u \in Users /\ req[h].op \in Operation
      /\ OwnDraft(h) /\ At(h, "commit") /\ lock = h
      /\ rows' = draftRows /\ journal' = draftJournal
  BY DEF Commit, At, InFlight, TypeOK, Request, PatientInv, OverlapInv, DraftsBelongToLock
<1>2. \A v \in Users \ {u} : RowOf(rows', v) = RowOf(rows, v) /\ journal'[v] = journal[v]
  BY <1>1 DEF PatientInv, Isolation, InFlight
<1>3. /\ journal \in [Users -> Seq(Event)] /\ journal' \in [Users -> Seq(Event)]
      /\ journal'[u] = Append(journal[u], EventOf(req[h].op))
  BY <1>1 DEF TypeOK, OwnDraft
<1>4. journal' = [journal EXCEPT ![u] = Append(@, EventOf(req[h].op))]
  BY <1>1, <1>2, <1>3
<1>5. CASE req[h].op = "subscribe"
  <2>1. {v \in Users : RowOf(rows', v) # {}} = {v \in Users : RowOf(rows, v) # {}} \cup {u}
    BY <1>1, <1>2, <1>5 DEF OwnDraft
  <2>2. journal' = [journal EXCEPT ![u] = Append(@, "subscribed")]
    BY <1>4, <1>5 DEF EventOf
  <2>3. QED
    BY <1>1, <1>2, <2>1, <2>2 DEF LedgerStep, Subscribed
<1>6. CASE req[h].op # "subscribe"
  <2>1. {v \in Users : RowOf(rows', v) # {}} = {v \in Users : RowOf(rows, v) # {}} \ {u}
    BY <1>1, <1>2, <1>6 DEF OwnDraft
  <2>2. u \in {v \in Users : RowOf(rows, v) # {}}
    BY <1>1, <1>6 DEF OwnDraft
  <2>3. journal' = [journal EXCEPT ![u] = Append(@, "unsubscribed")]
    BY <1>4, <1>6 DEF EventOf
  <2>4. QED
    BY <1>1, <1>2, <2>1, <2>2, <2>3 DEF LedgerStep, Subscribed
<1>7. QED
  BY <1>5, <1>6

\* Users who wait: a handler changes the row of its own user only.
THEOREM PatientOwnRow == Spec => OwnRowOnly
<1>1. TypeOK /\ OverlapInv /\ (Patient => PatientInv) => [Patient => CommitsOwnRow]_vars
  BY CommitIsLedgerStep DEF CommitsOwnRow
<1>2. QED
  BY <1>1, TypeCorrect, OverlapInvHolds, PatientInvHolds, PTL DEF OwnRowOnly

\* Users who wait: Subscriptions implements SubscriptionLedger.  Commits are the ledger's
\* steps, and every other step leaves the committed tables alone.
THEOREM PatientLedger == Spec => KeepsLedger
<1> DEFINE seen == IF Patient THEN {u \in Users : RowOf(rows, u) # {}} ELSE {}
           log  == IF Patient THEN journal ELSE EmptyJournal
<1>1. Init => Ledger!LedgerInit
  BY DEF Init, Ledger!LedgerInit, RowOf, EmptyJournal
<1>2. TypeOK /\ OverlapInv /\ (Patient => PatientInv) /\ [Next]_vars
      => [Ledger!LedgerNext]_<<seen, log>>
  <2> SUFFICES ASSUME TypeOK, OverlapInv, Patient => PatientInv, [Next]_vars
               PROVE  Ledger!LedgerNext \/ UNCHANGED <<seen, log>>
    OBVIOUS
  <2>1. manner' = manner
    BY PatienceStays
  <2>2. CASE UNCHANGED <<rows, journal>>
    BY <2>1, <2>2 DEF RowOf
  <2>3. CASE ~Patient
    BY <2>1, <2>3 DEF EmptyJournal
  <2>4. ASSUME Patient, NEW h \in Handlers, Commit(h) PROVE Ledger!LedgerNext
    <3>1. LedgerStep
      BY <2>4, CommitIsLedgerStep
    <3>2. /\ seen = Subscribed /\ seen' = Subscribed'
          /\ log = journal /\ log' = journal'
      BY <2>1, <2>4 DEF Subscribed
    <3> HIDE DEF seen, log
    <3>3. QED
      BY <3>1, <3>2 DEF LedgerStep, seen, log, Ledger!LedgerNext, Ledger!Subscribe,
         Ledger!Unsubscribe
  <2>5. UNCHANGED <<rows, journal>> \/ \E h \in Handlers : Commit(h)
    BY DEF Next, Step, vars, dbVars, Begin, SelectNothing, SelectRow, FlushInsert,
       FlushNothing, FlushUpdate, FlushFails, Rollback, Record, Delete, LockTimeout,
       SenderTakesLock, SenderReturnsLock, Crash
  <2>6. QED
    BY <2>2, <2>3, <2>4, <2>5
<1>3. QED
  BY <1>1, <1>2, TypeCorrect, OverlapInvHolds, PatientInvHolds, PTL
     DEF Spec, KeepsLedger, Ledger!LedgerSpec
===============================================================================
