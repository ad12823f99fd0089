------------------------ MODULE BroadcastDeliveryProofs ------------------------
(***************************************************************************)
(* Proofs about BroadcastDelivery for every set of users and broadcasts    *)
(* and every number of retries.                                            *)
(***************************************************************************)
EXTENDS BroadcastDelivery, FiniteSetTheorems, TLAPS

USE BroadcastAssumption, NullAssumption

\* The updates of the nested functions keep their types.
LEMMA OneStatus ==
    ASSUME NEW b \in Broadcasts, NEW u \in Users, NEW status \in BroadcastStatus,
           NEW r \in [Broadcasts -> Rows]
    PROVE  [r EXCEPT ![b][u] = status] \in [Broadcasts -> Rows]
BY DEF Rows

LEMMA OneTotal == ASSUME NEW t \in Totals PROVE [t EXCEPT !.total = @ + 1] \in Totals
BY DEF Totals

LEMMA OneMore ==
    ASSUME NEW b \in Broadcasts, NEW t \in [Broadcasts -> Totals],
           NEW field \in {"total", "delivered", "failed"}
    PROVE  [t EXCEPT ![b][field] = @ + 1] \in [Broadcasts -> Totals]
<1>1. [t[b] EXCEPT ![field] = @ + 1] \in Totals
  BY DEF Totals
<1>2. QED
  BY <1>1

LEMMA OneCopy ==
    ASSUME NEW b \in Broadcasts, NEW u \in Users \cup {NULL},
           NEW c \in [Broadcasts -> [Users -> Nat]]
    PROVE  [c EXCEPT ![b][u] = @ + 1] \in [Broadcasts -> [Users -> Nat]]
<1>1. CASE u \in Users
  BY <1>1
<1>2. CASE u = NULL
  <2>1. [c[b] EXCEPT ![u] = @ + 1] = c[b]
    BY <1>2
  <2>2. QED
    BY <2>1
<1>3. QED
  BY <1>1, <1>2

\* The variables keep their types, whatever the network does.
THEOREM TypeCorrect == Spec => []TypeOK
<1> USE DEF TypeOK
<1>1. Init => TypeOK
  BY DEF Init, NoRows, NoTotals, Rows, Totals
<1>2. TypeOK /\ [Next]_vars => TypeOK'
  <2> SUFFICES ASSUME TypeOK, [Next]_vars PROVE TypeOK'
    OBVIOUS
  <2>1. ASSUME NEW b \in Broadcasts, BroadcastText(b) \/ Step(b) PROVE TypeOK'
    <3> USE DEF Goto, TakeLock
    <3>1. CASE BroadcastText(b)
      BY <3>1 DEF BroadcastText
    <3>2. CASE CreateBroadcast(b)
      BY <3>2 DEF CreateBroadcast
    <3>3. CASE LockTimeout(b)
      BY <3>3 DEF LockTimeout
    <3>4. CASE GetActive(b)
      BY <3>4 DEF GetActive
    <3>5. CASE NextRecipient(b)
      <4>1. totals' \in [Broadcasts -> Totals]
        <5>1. [totals[b] EXCEPT !.total = @ + 1] \in Totals
          BY OneTotal
        <5>2. QED
          BY <3>5, <5>1 DEF NextRecipient
      <4>2. rows' \in [Broadcasts -> Rows]
        <5>1. PICK u \in Users : rows' = [rows EXCEPT ![b][u] = "pending"]
          BY <3>5 DEF NextRecipient
        <5>2. QED
          BY <5>1, OneStatus DEF BroadcastStatus
      <4>3. QED
        BY <3>5, <4>1, <4>2 DEF NextRecipient
    <3>6. ASSUME NEW status \in {"delivered", "failed"}, MarkRecipient(b, status)
          PROVE  rows' \in [Broadcasts -> Rows] /\ totals' \in [Broadcasts -> Totals]
      <4>1. rows' \in [Broadcasts -> Rows]
        <5>1. CASE user[b] \in Users
          BY <3>6, <5>1, OneStatus DEF MarkRecipient, BroadcastStatus
        <5>2. CASE user[b] = NULL
          <6>1. [rows[b] EXCEPT ![user[b]] = status] = rows[b]
            BY <5>2 DEF Rows
          <6>2. QED
            BY <3>6, <6>1 DEF MarkRecipient
        <5>3. QED
          BY <5>1, <5>2
      <4>2. QED
        BY <3>6, <4>1, OneMore DEF MarkRecipient
    <3>7. Arrives(b) => copies' \in [Broadcasts -> [Users -> Nat]]
      BY OneCopy DEF Arrives
    <3>8. CASE SendSucceeds(b)
      BY <3>6, <3>7, <3>8 DEF SendSucceeds, MarkRecipient
    <3>9. CASE FloodControl(b)
      BY <3>9 DEF FloodControl, Sends
    <3>10. CASE NetworkError(b)
      BY <3>7, <3>10 DEF NetworkError, Sends
    <3>11. CASE SendFails(b)
      BY <3>6, <3>11 DEF SendFails, MarkRecipient
    <3>12. CASE SendBroadcastEnds(b)
      BY <3>12 DEF SendBroadcastEnds, Report
    <3>13. QED
      BY <2>1, <3>1, <3>2, <3>3, <3>4, <3>5, <3>8, <3>9, <3>10, <3>11, <3>12 DEF Step
  <2>2. CASE OtherWriterBegins \/ OtherWriterEnds
    BY <2>2 DEF OtherWriterBegins, OtherWriterEnds, jobVars
  <2>3. CASE Crash
    BY <2>3 DEF Crash
  <2>4. CASE UNCHANGED vars
    BY <2>4 DEF vars, jobVars
  <2>5. QED
    BY <2>1, <2>2, <2>3, <2>4 DEF Next
<1>3. QED
  BY <1>1, <1>2, PTL DEF Spec

-------------------------------------------------------------------------------
(* The inductive invariant, one part per question it answers.               *)

\* Who owns the lock: exactly the broadcast between its first INSERT and its end.
Owner ==
    \A b \in Broadcasts : lock = b <=> pc[b] \in {"audience", "next", "send"}

\* Which rows a broadcast has: one for each subscriber it has visited.
Visited(b) ==
    /\ pc[b] \in {"new", "create", "audience"} => \A u \in Users : rows[b][u] = NULL
    /\ pc[b] \in {"next", "send"} =>
           /\ \A u \in Users : u \in subscribed <=> u \in todo[b] \/ rows[b][u] # NULL
           /\ \A u \in todo[b] : rows[b][u] = NULL
    /\ pc[b] = "send" => user[b] \in subscribed /\ rows[b][user[b]] = "pending"

\* What its rows say, of the send under way and of those behind it.
Statuses(b) ==
    /\ pc[b] \in {"next", "send"} =>
           \A u \in Users : rows[b][u] = "pending" => pc[b] = "send" /\ u = user[b]
    /\ \A u \in Users : rows[b][u] = "delivered" => copies[b][u] > 0

\* How often the text has arrived: not more often than it was tried.
Copies(b) ==
    \A u \in Users :
        /\ copies[b][u] <= MaxRetries
        /\ rows[b][u] = NULL => copies[b][u] = 0
        /\ pc[b] = "send" /\ u = user[b] => copies[b][u] <= tries[b]

\* What is committed, and that it is not committed before the end.
Committed(b) ==
    /\ report[b] # NULL <=> pc[b] = "sent"
    /\ report[b] # NULL => \A u \in Users : report[b].rows[u] # "pending"

BroadcastInv ==
    Owner /\ \A b \in Broadcasts : Visited(b) /\ Statuses(b) /\ Copies(b) /\ Committed(b)

PerBroadcast(b) == Visited(b) /\ Statuses(b) /\ Copies(b) /\ Committed(b)

\* A broadcast that a step leaves alone stays as it was.
LEMMA Frame ==
    ASSUME NEW b \in Broadcasts, PerBroadcast(b), subscribed' = subscribed,
           pc'[b] = pc[b], todo'[b] = todo[b], user'[b] = user[b], tries'[b] = tries[b],
           rows'[b] = rows[b], report'[b] = report[b], copies'[b] = copies[b]
    PROVE  PerBroadcast(b)'
BY DEF PerBroadcast, Visited, Statuses, Copies, Committed

\* BroadcastInv is kept by every step.
LEMMA InvStep == ASSUME TypeOK, BroadcastInv, [Next]_vars PROVE BroadcastInv'
<1>0. Owner /\ \A b \in Broadcasts : PerBroadcast(b)
  BY DEF BroadcastInv, PerBroadcast
<1> SUFFICES Owner' /\ \A b \in Broadcasts : PerBroadcast(b)'
  BY DEF BroadcastInv, PerBroadcast
<1>1. ASSUME NEW b \in Broadcasts, BroadcastText(b) \/ Step(b)
      PROVE  Owner' /\ \A c \in Broadcasts : PerBroadcast(c)'
  <2>0. subscribed' = subscribed
    BY <1>1 DEF Step, BroadcastText, CreateBroadcast, LockTimeout, GetActive, NextRecipient,
       SendSucceeds, FloodControl, NetworkError, SendFails, SendBroadcastEnds
  <2>1. ASSUME NEW c \in Broadcasts \ {b} PROVE PerBroadcast(c)'
    <3>1. pc'[c] = pc[c] /\ report'[c] = report[c]
      BY <1>1 DEF TypeOK, Step, BroadcastText, CreateBroadcast, LockTimeout, GetActive,
         NextRecipient, SendSucceeds, FloodControl, NetworkError, SendFails, SendBroadcastEnds,
         Goto, MarkRecipient
    <3>2. todo'[c] = todo[c] /\ user'[c] = user[c] /\ tries'[c] = tries[c]
      BY <1>1 DEF TypeOK, Step, BroadcastText, CreateBroadcast, LockTimeout, GetActive,
         NextRecipient, SendSucceeds, FloodControl, NetworkError, SendFails, SendBroadcastEnds
    <3>3. rows'[c] = rows[c] /\ copies'[c] = copies[c]
      BY <1>1 DEF TypeOK, Step, BroadcastText, CreateBroadcast, LockTimeout, GetActive,
         NextRecipient, SendSucceeds, FloodControl, NetworkError, SendFails, SendBroadcastEnds,
         MarkRecipient, Arrives
    <3>4. QED
      BY <1>0, <2>0, <3>1, <3>2, <3>3, Frame
  <2>2. Owner'
    <3> USE <1>0 DEF Owner, TypeOK, Goto, TakeLock, MarkRecipient
    <3>1. CASE BroadcastText(b) \/ LockTimeout(b) \/ CreateBroadcast(b)
      BY <3>1 DEF BroadcastText, LockTimeout, CreateBroadcast
    <3>2. CASE GetActive(b) \/ NextRecipient(b)
      BY <3>2 DEF GetActive, NextRecipient
    <3>3. CASE SendSucceeds(b) \/ SendFails(b)
      BY <3>3 DEF SendSucceeds, SendFails
    <3>4. CASE FloodControl(b) \/ NetworkError(b)
      BY <3>4 DEF FloodControl, NetworkError
    <3>5. CASE SendBroadcastEnds(b)
      BY <3>5 DEF SendBroadcastEnds
    <3>6. QED
      BY <1>1, <3>1, <3>2, <3>3, <3>4, <3>5 DEF Step
  <2>3. /\ PerBroadcast(b) /\ rows[b] \in Rows
        /\ copies[b] \in [Users -> Nat] /\ tries[b] \in 0 .. MaxRetries
    BY <1>0 DEF TypeOK
  <2> SUFFICES PerBroadcast(b)'
    BY <2>1, <2>2
  <2>4. CASE BroadcastText(b) \/ CreateBroadcast(b) \/ LockTimeout(b)
    <3>1. /\ pc[b] \in {"new", "create"} /\ pc'[b] \in {"create", "audience", "raised"}
          /\ UNCHANGED <<subscribed, todo, user, tries, rows, report, copies>>
      BY <2>4 DEF BroadcastText, CreateBroadcast, LockTimeout, Goto, TypeOK
    <3>2. QED
      BY <2>3, <3>1 DEF PerBroadcast, Visited, Statuses, Copies, Committed
  <2>5. CASE GetActive(b)
    <3>1. pc[b] = "audience" /\ pc'[b] = "next" /\ todo'[b] = subscribed
          /\ UNCHANGED <<subscribed, user, tries, rows, report, copies>>
      BY <2>5 DEF GetActive, Goto, TypeOK
    <3>2. \A u \in Users : rows[b][u] = NULL
      BY <2>3, <3>1 DEF PerBroadcast, Visited
    <3>3. subscribed \subseteq Users
      BY DEF TypeOK
    <3>4. QED
      BY <2>3, <3>1, <3>2, <3>3 DEF PerBroadcast, Visited, Statuses, Copies, Committed,
         BroadcastStatus
  <2>6. CASE NextRecipient(b)
    <3>1. PICK u \in todo[b] :
              /\ todo'[b] = todo[b] \ {u} /\ user'[b] = u
              /\ rows'[b] = [rows[b] EXCEPT ![u] = "pending"]
      BY <2>6 DEF NextRecipient, TypeOK
    <3>2. pc[b] = "next" /\ pc'[b] = "send" /\ tries'[b] = 0
          /\ UNCHANGED <<subscribed, report, copies>>
      BY <2>6 DEF NextRecipient, Goto, TypeOK
    <3>3. u \in Users /\ u \in subscribed /\ rows[b][u] = NULL /\ copies[b][u] = 0
      BY <2>3, <3>1, <3>2 DEF PerBroadcast, Visited, Copies, TypeOK
    <3>4. rows'[b][u] = "pending" /\ \A v \in Users \ {u} : rows'[b][v] = rows[b][v]
      BY <2>3, <3>1, <3>3 DEF Rows
    <3>5. NULL # "pending"
      BY DEF BroadcastStatus
    <3>6. Visited(b)'
      BY <2>3, <3>1, <3>2, <3>3, <3>4, <3>5 DEF PerBroadcast, Visited
    <3>7. Statuses(b)' /\ Copies(b)' /\ Committed(b)'
      BY <2>3, <3>1, <3>2, <3>3, <3>4, <3>5 DEF PerBroadcast, Statuses, Copies, Committed
    <3>8. QED
      BY <3>6, <3>7 DEF PerBroadcast
  <2>7. CASE FloodControl(b) \/ NetworkError(b)
    <3>1. /\ pc[b] = "send" /\ tries[b] < MaxRetries /\ tries'[b] = tries[b] + 1
          /\ UNCHANGED <<subscribed, pc, todo, user, rows, report>>
          /\ Arrives(b) \/ UNCHANGED copies
      BY <2>7 DEF FloodControl, NetworkError, Sends, TypeOK
    <3>2. user[b] \in Users /\ rows[b][user[b]] = "pending"
      BY <2>3, <3>1 DEF PerBroadcast, Visited, TypeOK
    <3>3. /\ copies'[b][user[b]] \in {copies[b][user[b]], copies[b][user[b]] + 1}
          /\ \A u \in Users \ {user[b]} : copies'[b][u] = copies[b][u]
      BY <2>3, <3>1, <3>2 DEF Arrives, TypeOK
    <3>4. Visited(b)' /\ Committed(b)'
      BY <2>3, <3>1 DEF PerBroadcast, Visited, Committed
    <3>5. Statuses(b)'
      BY <2>3, <3>1, <3>3 DEF PerBroadcast, Statuses
    <3>6. NULL # "pending"
      BY DEF BroadcastStatus
    <3>7. Copies(b)'
      BY <2>3, <3>1, <3>2, <3>3, <3>6 DEF PerBroadcast, Copies
    <3>8. QED
      BY <3>4, <3>5, <3>7 DEF PerBroadcast
  <2>8. CASE SendSucceeds(b) \/ SendFails(b)
    <3>1. /\ pc[b] = "send" /\ pc'[b] = "next"
          /\ UNCHANGED <<subscribed, todo, user, tries, report>>
      BY <2>8 DEF SendSucceeds, SendFails, MarkRecipient, Goto, TypeOK
    <3>2. /\ user[b] \in Users /\ user[b] \in subscribed /\ user[b] \notin todo[b]
          /\ rows[b][user[b]] = "pending" /\ copies[b][user[b]] <= tries[b]
          /\ NULL \notin {"pending", "delivered", "failed"}
      BY <2>3, <3>1 DEF PerBroadcast, Visited, Copies, TypeOK, BroadcastStatus
    <3>3. PICK status \in {"delivered", "failed"} : rows'[b] = [rows[b] EXCEPT ![user[b]] = status]
      BY <2>8 DEF SendSucceeds, SendFails, MarkRecipient, TypeOK
    <3>4. /\ rows'[b][user[b]] = status
          /\ \A u \in Users \ {user[b]} : rows'[b][u] = rows[b][u]
      BY <2>3, <3>2, <3>3 DEF Rows
    <3>5. /\ \A u \in Users \ {user[b]} : copies'[b][u] = copies[b][u]
          /\ copies'[b][user[b]] <= MaxRetries
          /\ status = "delivered" => copies'[b][user[b]] > 0
      <4>1. CASE SendSucceeds(b)
        BY <2>3, <3>2, <4>1 DEF SendSucceeds, Sends, Arrives, TypeOK
      <4>2. CASE SendFails(b)
        <5>1. rows'[b][user[b]] = "failed" /\ copies' = copies
          BY <2>3, <3>2, <4>2 DEF SendFails, MarkRecipient, TypeOK, Rows
        <5>2. QED
          BY <2>3, <3>2, <3>4, <5>1 DEF PerBroadcast, Copies
      <4>3. QED
        BY <2>8, <4>1, <4>2
    <3>6. Visited(b)' /\ Committed(b)'
      <4>1. /\ \A u \in Users : u \in subscribed <=> u \in todo[b] \/ rows[b][u] # NULL
            /\ \A u \in todo[b] : u \in Users /\ rows[b][u] = NULL
        BY <2>3, <3>1 DEF PerBroadcast, Visited, TypeOK
      <4>2. rows'[b][user[b]] # NULL
        BY <3>2, <3>4
      <4>3. Visited(b)'
        BY <3>1, <3>2, <3>4, <4>1, <4>2 DEF Visited
      <4>4. Committed(b)'
        BY <2>3, <3>1 DEF PerBroadcast, Committed
      <4>5. QED
        BY <4>3, <4>4
    <3>7. Statuses(b)' /\ Copies(b)'
      BY <2>3, <3>1, <3>2, <3>4, <3>5 DEF PerBroadcast, Statuses, Copies
    <3>8. QED
      BY <3>6, <3>7 DEF PerBroadcast
  <2>9. CASE SendBroadcastEnds(b)
    <3>1. /\ pc[b] = "next" /\ pc'[b] = "sent"
          /\ report'[b] = [rows |-> rows[b], totals |-> totals[b]] /\ totals[b] \in Totals
          /\ UNCHANGED <<subscribed, todo, user, tries, rows, copies>>
      BY <2>9 DEF SendBroadcastEnds, Goto, TypeOK
    <3>2. report'[b] # NULL /\ report'[b].rows = rows[b]
      BY <2>3, <3>1 DEF Report
    <3>3. QED
      BY <2>3, <3>1, <3>2 DEF PerBroadcast, Visited, Statuses, Copies, Committed
  <2>10. QED
    BY <1>1, <2>1, <2>2, <2>4, <2>5, <2>6, <2>7, <2>8, <2>9 DEF Step
<1>2. CASE OtherWriterBegins
  <2>1. Owner'
    BY <1>0, <1>2 DEF OtherWriterBegins, Owner, jobVars
  <2>2. QED
    BY <1>0, <1>2, <2>1, Frame DEF OtherWriterBegins, jobVars
<1>3. CASE OtherWriterEnds
  <2>1. Owner'
    BY <1>0, <1>3 DEF OtherWriterEnds, Owner, jobVars
  <2>2. ASSUME NEW b \in Broadcasts PROVE PerBroadcast(b)'
    <3>1. pc[b] \notin {"audience", "next", "send"}
      BY <1>0, <1>3 DEF OtherWriterEnds, Owner
    <3>2. UNCHANGED <<pc, todo, user, tries, rows, report, copies>>
      BY <1>3 DEF OtherWriterEnds, jobVars
    <3>3. QED
      BY <1>0, <3>1, <3>2 DEF PerBroadcast, Visited, Statuses, Copies, Committed
  <2>3. QED
    BY <2>1, <2>2
<1>4. CASE Crash
  <2>1. UNCHANGED <<subscribed, todo, user, tries, rows, report, copies>> /\ lock' = "free"
    BY <1>4 DEF Crash
  <2>2. \A b \in Broadcasts :
            pc'[b] = IF pc[b] \in {"new", "sent", "raised"} THEN pc[b] ELSE "raised"
    BY <1>4 DEF Crash, InFlight
  <2>3. Owner'
    BY <2>1, <2>2 DEF Owner
  <2>4. ASSUME NEW b \in Broadcasts PROVE PerBroadcast(b)'
    BY <1>0, <2>1, <2>2 DEF PerBroadcast, Visited, Statuses, Copies, Committed
  <2>5. QED
    BY <2>3, <2>4
<1>5. CASE UNCHANGED vars
  <2>1. Owner'
    BY <1>0, <1>5 DEF vars, jobVars, Owner
  <2>2. QED
    BY <1>0, <1>5, <2>1, Frame DEF vars, jobVars
<1>6. QED
  BY <1>1, <1>2, <1>3, <1>4, <1>5 DEF Next

\* BroadcastInv is established at the start and kept by every step.
LEMMA InvHolds == Spec => []BroadcastInv
<1>1. Init => BroadcastInv
  BY DEF Init, BroadcastInv, Owner, Visited, Statuses, Copies, Committed, NoRows, BroadcastStatus
<1>2. TypeOK /\ BroadcastInv /\ [Next]_vars => BroadcastInv'
  BY InvStep
<1>3. QED
  BY <1>1, <1>2, TypeCorrect, PTL DEF Spec

\* No committed row is pending: a tick never finds a recipient to send "Напоминание" to.
THEOREM NonePending == Spec => []NothingPending
<1>1. BroadcastInv => NothingPending
  BY DEF BroadcastInv, Committed, NothingPending
<1>2. QED
  BY <1>1, InvHolds, PTL

\* A text reaches a recipient at most MaxRetries times.
THEOREM BoundedCopies == Spec => []CopiesBounded
<1>1. BroadcastInv => CopiesBounded
  BY DEF BroadcastInv, Copies, CopiesBounded
<1>2. QED
  BY <1>1, InvHolds, PTL

-------------------------------------------------------------------------------
(* The totals, for any finite set of users.                                *)

Having(r, statuses) == {u \in Users : r[u] \in statuses}

\* The totals t count the rows r.
Counted(r, t) ==
    /\ t.total = Cardinality(Having(r, BroadcastStatus))
    /\ t.delivered = Cardinality(Having(r, {"delivered"}))
    /\ t.failed = Cardinality(Having(r, {"failed"}))

CountInv ==
    \A b \in Broadcasts :
        /\ Counted(rows[b], totals[b])
        /\ report[b] # NULL => Counted(report[b].rows, report[b].totals)

LEMMA HavingIsFinite ==
    ASSUME NEW r, NEW statuses
    PROVE  IsFiniteSet(Having(r, statuses)) /\ Cardinality(Having(r, statuses)) \in Nat
BY UsersAssumption, FS_Subset, FS_CardinalityType DEF Having

\* One row changes: the users who have one of some statuses are the same or one more.
LEMMA SameHaving ==
    ASSUME NEW r \in Rows, NEW q \in Rows, NEW u \in Users, NEW statuses,
           \A v \in Users : v # u => q[v] = r[v],
           r[u] \in statuses <=> q[u] \in statuses
    PROVE  Having(q, statuses) = Having(r, statuses)
BY DEF Having

LEMMA OneJoins ==
    ASSUME NEW r \in Rows, NEW q \in Rows, NEW u \in Users, NEW statuses,
           \A v \in Users : v # u => q[v] = r[v],
           r[u] \notin statuses, q[u] \in statuses
    PROVE  Cardinality(Having(q, statuses)) = Cardinality(Having(r, statuses)) + 1
<1>1. Having(q, statuses) = Having(r, statuses) \cup {u} /\ u \notin Having(r, statuses)
  BY DEF Having
<1>2. QED
  BY <1>1, HavingIsFinite, FS_AddElement

\* A new recipient is pending and is one more.
LEMMA CountedVisit ==
    ASSUME NEW r \in Rows, NEW q \in Rows, NEW t \in Totals, NEW u \in Users, Counted(r, t),
           r[u] = NULL, q[u] = "pending", \A v \in Users : v # u => q[v] = r[v]
    PROVE  Counted(q, [t EXCEPT !.total = @ + 1])
<1> DEFINE s == [t EXCEPT !.total = @ + 1]
<1>2. /\ r[u] \notin BroadcastStatus /\ q[u] \in BroadcastStatus
      /\ r[u] \notin {"delivered"} /\ q[u] \notin {"delivered"}
      /\ r[u] \notin {"failed"} /\ q[u] \notin {"failed"}
  BY DEF BroadcastStatus
<1>3. s.total = t.total + 1 /\ s.delivered = t.delivered /\ s.failed = t.failed
  BY DEF Totals
<1>4. Cardinality(Having(q, BroadcastStatus)) = Cardinality(Having(r, BroadcastStatus)) + 1
  BY <1>2, OneJoins
<1>5. Having(q, {"delivered"}) = Having(r, {"delivered"})
  BY <1>2, SameHaving
<1>6. Having(q, {"failed"}) = Having(r, {"failed"})
  BY <1>2, SameHaving
<1>7. QED
  BY <1>3, <1>4, <1>5, <1>6 DEF Counted

\* A pending recipient is marked, and counted under its status.
LEMMA CountedMark ==
    ASSUME NEW r \in Rows, NEW q \in Rows, NEW t \in Totals, NEW u \in Users, Counted(r, t),
           NEW status \in {"delivered", "failed"},
           r[u] = "pending", q[u] = status, \A v \in Users : v # u => q[v] = r[v]
    PROVE  Counted(q, [t EXCEPT ![status] = @ + 1])
<1> DEFINE s == [t EXCEPT ![status] = @ + 1]
<1>2. /\ r[u] \in BroadcastStatus /\ q[u] \in BroadcastStatus
      /\ r[u] \notin {"delivered"} /\ r[u] \notin {"failed"}
  BY DEF BroadcastStatus
<1>3. Having(q, BroadcastStatus) = Having(r, BroadcastStatus)
  BY <1>2, SameHaving
<1>4. CASE status = "delivered"
  <2>1. s.total = t.total /\ s.delivered = t.delivered + 1 /\ s.failed = t.failed
    BY <1>4 DEF Totals
  <2>2. q[u] \in {"delivered"} /\ q[u] \notin {"failed"}
    BY <1>4
  <2>3. Cardinality(Having(q, {"delivered"})) = Cardinality(Having(r, {"delivered"})) + 1
    BY <1>2, <2>2, OneJoins
  <2>4. Having(q, {"failed"}) = Having(r, {"failed"})
    BY <1>2, <2>2, SameHaving
  <2>5. QED
    BY <1>3, <2>1, <2>3, <2>4 DEF Counted
<1>5. CASE status = "failed"
  <2>1. s.total = t.total /\ s.failed = t.failed + 1 /\ s.delivered = t.delivered
    BY <1>5 DEF Totals
  <2>2. q[u] \in {"failed"} /\ q[u] \notin {"delivered"}
    BY <1>5
  <2>3. Cardinality(Having(q, {"failed"})) = Cardinality(Having(r, {"failed"})) + 1
    BY <1>2, <2>2, OneJoins
  <2>4. Having(q, {"delivered"}) = Having(r, {"delivered"})
    BY <1>2, <2>2, SameHaving
  <2>5. QED
    BY <1>3, <2>1, <2>3, <2>4 DEF Counted
<1>6. QED
  BY <1>4, <1>5

\* CountInv is kept by every step.
LEMMA CountStep == ASSUME TypeOK, BroadcastInv, CountInv, [Next]_vars PROVE CountInv'
<1>1. CASE UNCHANGED <<rows, totals, report>>
  BY <1>1 DEF CountInv
<1>2. ASSUME NEW b \in Broadcasts, NextRecipient(b) PROVE CountInv'
  <2>1. PICK u \in todo[b] : rows' = [rows EXCEPT ![b][u] = "pending"]
    BY <1>2 DEF NextRecipient
  <2>2. u \in Users /\ rows[b][u] = NULL /\ rows[b] \in Rows /\ totals[b] \in Totals
    BY <1>2 DEF TypeOK, BroadcastInv, Visited, NextRecipient, Goto
  <2>3. rows'[b] = [rows[b] EXCEPT ![u] = "pending"] /\ report' = report
        /\ totals'[b] = [totals[b] EXCEPT !.total = @ + 1]
    BY <1>2, <2>1 DEF TypeOK, NextRecipient
  <2>4. rows'[b] \in Rows
    BY <2>2, <2>3 DEF Rows, BroadcastStatus
  <2>5. Counted(rows'[b], totals'[b])
    <3>1. rows'[b][u] = "pending" /\ \A v \in Users : v # u => rows'[b][v] = rows[b][v]
      BY <2>2, <2>3 DEF Rows
    <3>2. Counted(rows'[b], [totals[b] EXCEPT !.total = @ + 1])
      BY <2>2, <2>4, <3>1, CountedVisit DEF CountInv
    <3>3. QED
      BY <2>3, <3>2
  <2>6. \A c \in Broadcasts \ {b} : rows'[c] = rows[c] /\ totals'[c] = totals[c]
    BY <1>2, <2>1 DEF TypeOK, NextRecipient
  <2>7. QED
    BY <2>3, <2>5, <2>6 DEF CountInv
<1>3. ASSUME NEW b \in Broadcasts, NEW status \in {"delivered", "failed"},
             MarkRecipient(b, status), UNCHANGED report
      PROVE  CountInv'
  <2>1. user[b] \in Users /\ rows[b][user[b]] = "pending" /\ rows[b] \in Rows
        /\ totals[b] \in Totals
    BY <1>3 DEF TypeOK, BroadcastInv, Visited, MarkRecipient, Goto
  <2>2. rows'[b] = [rows[b] EXCEPT ![user[b]] = status]
        /\ totals'[b] = [totals[b] EXCEPT ![status] = @ + 1]
    BY <1>3 DEF TypeOK, MarkRecipient
  <2>3. rows'[b] \in Rows
    BY <2>1, <2>2 DEF Rows, BroadcastStatus
  <2>4. Counted(rows'[b], totals'[b])
    <3> DEFINE u == user[b]
    <3>1. Counted(rows[b], totals[b]) /\ u \in Users /\ rows[b][u] = "pending"
          /\ rows'[b][u] = status /\ \A v \in Users : v # u => rows'[b][v] = rows[b][v]
      BY <2>1, <2>2 DEF CountInv, Rows
    <3> HIDE DEF u
    <3>2. Counted(rows'[b], [totals[b] EXCEPT ![status] = @ + 1])
      BY <1>3, <2>1, <2>3, <3>1, CountedMark
    <3>3. QED
      BY <2>2, <3>2
  <2>5. \A c \in Broadcasts \ {b} : rows'[c] = rows[c] /\ totals'[c] = totals[c]
    BY <1>3 DEF TypeOK, MarkRecipient
  <2>6. QED
    BY <1>3, <2>4, <2>5 DEF CountInv
<1>4. ASSUME NEW b \in Broadcasts, SendBroadcastEnds(b) PROVE CountInv'
  <2>1. report'[b] = [rows |-> rows[b], totals |-> totals[b]]
        /\ \A c \in Broadcasts \ {b} : report'[c] = report[c]
    BY <1>4 DEF TypeOK, SendBroadcastEnds
  <2>2. rows' = rows /\ totals' = totals
    BY <1>4 DEF SendBroadcastEnds
  <2>3. QED
    BY <2>1, <2>2 DEF CountInv
<1>5. ASSUME NEW b \in Broadcasts, BroadcastText(b) \/ Step(b) PROVE CountInv'
  <2>1. CASE SendSucceeds(b)
    BY <1>3, <2>1 DEF SendSucceeds
  <2>2. CASE SendFails(b)
    BY <1>3, <2>2 DEF SendFails
  <2>3. CASE BroadcastText(b) \/ CreateBroadcast(b) \/ LockTimeout(b) \/ GetActive(b)
             \/ FloodControl(b) \/ NetworkError(b)
    BY <1>1, <2>3 DEF BroadcastText, CreateBroadcast, LockTimeout, GetActive, FloodControl,
       NetworkError
  <2>4. QED
    BY <1>2, <1>4, <1>5, <2>1, <2>2, <2>3 DEF Step
<1>6. CASE OtherWriterBegins \/ OtherWriterEnds \/ Crash \/ UNCHANGED vars
  BY <1>1, <1>6 DEF OtherWriterBegins, OtherWriterEnds, Crash, vars, jobVars
<1>7. QED
  BY <1>5, <1>6 DEF Next

\* The totals an admin sees count the committed rows, however many users there are and
\* however their sends ended (broadcasts/service.py).
THEOREM TotalsAreRowsCounted == Spec => []TotalsCountRows
<1>1. Init => CountInv
  <2> SUFFICES ASSUME Init, NEW b \in Broadcasts
               PROVE  Counted(rows[b], totals[b]) /\ report[b] = NULL
    BY DEF CountInv
  <2>1. rows[b] = NoRows /\ totals[b] = NoTotals /\ report[b] = NULL
    BY DEF Init
  <2>2. \A u \in Users : NoRows[u] \notin BroadcastStatus
    BY DEF NoRows
  <2>3. /\ Having(NoRows, BroadcastStatus) = {}
        /\ Having(NoRows, {"delivered"}) = {} /\ Having(NoRows, {"failed"}) = {}
    BY <2>2 DEF Having, BroadcastStatus
  <2>4. QED
    BY <2>1, <2>3, FS_EmptySet DEF Counted, NoTotals
<1>2. TypeOK /\ BroadcastInv /\ CountInv /\ [Next]_vars => CountInv'
  BY CountStep
<1>3. CountInv => TotalsCountRows
  BY DEF CountInv, Counted, Having, TotalsCountRows
<1>4. QED
  BY <1>1, <1>2, <1>3, TypeCorrect, InvHolds, PTL DEF Spec

\* The only steps by which a text arrives.
LEMMA ArrivalStep ==
    ASSUME TypeOK, BroadcastInv, [Next]_vars, copies' # copies
    PROVE  \E b \in Broadcasts :
               /\ pc[b] = "send" /\ report[b] = NULL
               /\ user[b] \in Users /\ user[b] \in subscribed
               /\ Arrives(b)
               /\ UNCHANGED <<subscribed, report>>
<1>1. PICK b \in Broadcasts : SendSucceeds(b) \/ NetworkError(b)
  BY DEF Next, Step, BroadcastText, CreateBroadcast, LockTimeout, GetActive, NextRecipient,
         FloodControl, SendFails, SendBroadcastEnds, OtherWriterBegins, OtherWriterEnds, Crash, vars
<1>2. pc[b] = "send" /\ Arrives(b) /\ UNCHANGED <<subscribed, report>>
  BY <1>1 DEF SendSucceeds, NetworkError, Sends
<1>3. report[b] = NULL /\ user[b] \in subscribed /\ user[b] \in Users
  BY <1>2 DEF BroadcastInv, Committed, Visited, TypeOK
<1>4. QED
  BY <1>2, <1>3

\* Nobody who is not subscribed receives a broadcast, in whatever order broadcasts,
\* subscriptions, crashes and failing sends happen.
THEOREM OnlySubscribers == Spec => OnlySubscribersReceive
<1>1. TypeOK /\ BroadcastInv /\ [Next]_vars => [ArrivesAtSubscribers]_vars
  <2> SUFFICES ASSUME TypeOK, BroadcastInv, [Next]_vars, NEW c \in Broadcasts, NEW u \in Users,
                      copies'[c][u] # copies[c][u]
               PROVE  u \in subscribed /\ u \in subscribed'
    BY DEF ArrivesAtSubscribers
  <2>1. PICK b \in Broadcasts : user[b] \in subscribed /\ user[b] \in Users
                                /\ Arrives(b) /\ subscribed' = subscribed
    BY ArrivalStep
  <2>2. u = user[b]
    BY <2>1 DEF Arrives, TypeOK
  <2>3. QED
    BY <2>1, <2>2
<1>2. QED
  BY <1>1, TypeCorrect, InvHolds, PTL DEF Spec, OnlySubscribersReceive

\* BroadcastDelivery implements BroadcastPromise: an arrival is Receive, a commit is
\* Publish, another writer's commit is Change, everything else is a stutter.
THEOREM ImplementsPromise == Spec => KeepsPromise
<1> DEFINE Statement == [b \in Broadcasts |-> ReportedStatuses(b)]
<1>1. Init => Promise!PromiseInit
  BY DEF Init, Promise!PromiseInit, ReportedStatuses
<1>2. TypeOK /\ BroadcastInv /\ [Next]_vars
      => [Promise!PromiseNext]_<<subscribed, copies, Statement>>
  <2> SUFFICES ASSUME TypeOK, BroadcastInv, [Next]_vars
               PROVE  Promise!PromiseNext \/ UNCHANGED <<subscribed, copies, Statement>>
    OBVIOUS
  <2>1. report' = report => Statement' = Statement
    BY DEF ReportedStatuses
  <2>2. CASE copies' # copies
    <3>1. PICK b \in Broadcasts :
              /\ report[b] = NULL /\ user[b] \in Users /\ user[b] \in subscribed
              /\ Arrives(b) /\ UNCHANGED <<subscribed, report>>
      BY <2>2, ArrivalStep
    <3>2. Statement[b] = NULL
      BY <3>1 DEF ReportedStatuses
    <3>3. Promise!Receive(b, user[b])
      BY <2>1, <3>1, <3>2 DEF Promise!Receive, Arrives
    <3>4. QED
      BY <3>1, <3>3 DEF Promise!PromiseNext
  <2>3. CASE copies' = copies /\ report' # report
    <3>1. PICK b \in Broadcasts : SendBroadcastEnds(b)
      BY <2>3 DEF Next, Step, BroadcastText, CreateBroadcast, LockTimeout, GetActive,
         NextRecipient, SendSucceeds, FloodControl, NetworkError, SendFails, OtherWriterBegins,
         OtherWriterEnds, Crash, vars
    <3>2. /\ pc[b] = "next" /\ todo[b] = {} /\ UNCHANGED <<subscribed, copies>>
          /\ report' = [report EXCEPT ![b] = [rows |-> rows[b], totals |-> totals[b]]]
          /\ rows[b] \in Rows /\ totals[b] \in Totals
      BY <3>1 DEF SendBroadcastEnds, Goto, TypeOK
    <3>3. report[b] = NULL
          /\ \A u \in Users : /\ u \in subscribed <=> rows[b][u] # NULL
                              /\ rows[b][u] # "pending"
                              /\ rows[b][u] = "delivered" => copies[b][u] > 0
      BY <3>2 DEF BroadcastInv, Committed, Visited, Statuses
    <3>4. report'[b] = [rows |-> rows[b], totals |-> totals[b]] /\ report'[b] # NULL
          /\ \A c \in Broadcasts \ {b} : report'[c] = report[c]
      BY <3>2 DEF TypeOK, Report
    <3>5. subscribed \subseteq Users
      BY DEF TypeOK
    <3> DEFINE statuses == [u \in subscribed |-> rows[b][u]]
    <3>6. Statement' = [Statement EXCEPT ![b] = statuses]
      <4>1. {v \in Users : rows[b][v] # NULL} = subscribed
        BY <3>3, <3>5
      <4>2. Statement'[b] = statuses
        BY <3>4, <4>1 DEF ReportedStatuses
      <4>3. \A c \in Broadcasts \ {b} : Statement'[c] = Statement[c]
        BY <3>4 DEF ReportedStatuses
      <4>4. QED
        BY <4>2, <4>3
    <3>7. statuses \in [subscribed -> {"delivered", "failed"}]
          /\ \A u \in subscribed : statuses[u] = "delivered" => copies[b][u] > 0
      BY <3>2, <3>3, <3>5 DEF Rows, BroadcastStatus
    <3>8. Statement[b] = NULL
      BY <3>3 DEF ReportedStatuses
    <3> HIDE DEF Statement, statuses
    <3>9. Promise!Publish(b)
      BY <3>2, <3>6, <3>7, <3>8 DEF Promise!Publish, Statement
    <3>10. QED
      BY <3>9 DEF Promise!PromiseNext
  <2>4. CASE copies' = copies /\ report' = report /\ subscribed' # subscribed
    <3>1. PICK u \in Users : subscribed' \in {subscribed \cup {u}, subscribed \ {u}}
      BY <2>4 DEF Next, Step, BroadcastText, CreateBroadcast, LockTimeout, GetActive,
         NextRecipient, SendSucceeds, FloodControl, NetworkError, SendFails, SendBroadcastEnds,
         OtherWriterBegins, OtherWriterEnds, Crash, vars
    <3>2. Promise!Change(u)
      BY <2>1, <2>4, <3>1 DEF Promise!Change
    <3>3. QED
      BY <3>2 DEF Promise!PromiseNext
  <2>5. QED
    BY <2>1, <2>2, <2>3, <2>4
<1>3. QED
  BY <1>1, <1>2, TypeCorrect, InvHolds, PTL DEF Spec, KeepsPromise, Promise!PromiseSpec
-------------------------------------------------------------------------------
(* How long a broadcast takes, and with it the write lock: a bound on the   *)
(* steps its handler has left, which the liveness property rests on.        *)

\* A recipient costs at most this many steps: the row, MaxRetries failing tries and the
\* exception after the last.
Cost == MaxRetries + 2

Effort(b) ==
    CASE pc[b] = "create"   -> Cost * Cardinality(Users) + 3
      [] pc[b] = "audience" -> Cost * Cardinality(Users) + 2
      [] pc[b] = "next"     -> Cost * Cardinality(todo[b]) + 1
      [] pc[b] = "send"     -> Cost * Cardinality(todo[b]) + 2 + (MaxRetries - tries[b])
      [] OTHER              -> 0

\* Each step of a handler leaves it less to do, and nothing anybody else does leaves it
\* more, so a handler in flight ends after at most Effort(b) steps.
Nearer ==
    \A b \in Broadcasts :
        /\ Step(b) => Effort(b)' < Effort(b)
        /\ ~BroadcastText(b) => Effort(b)' <= Effort(b)

EffortInv ==
    \A b \in Broadcasts :
        /\ Effort(b) \in Nat
        /\ Effort(b) > 0 <=> b \in InFlight
        /\ lock = b => Effort(b) <= Cost * Cardinality(Users) + 2

LEMMA CostGrows ==
    ASSUME NEW m \in Nat, NEW n \in Nat, m <= n
    PROVE  Cost * m \in Nat /\ Cost * m <= Cost * n /\ Cost * (m + 1) = Cost * m + Cost
<1> DEFINE k == Cost
<1>1. k \in Nat
  BY DEF Cost
<1> HIDE DEF k
<1>2. k * m \in Nat /\ k * (m + 1) = k * m + k
  BY <1>1
<1>3. k * (n - m) \in Nat /\ k * (n - m) = k * n - k * m
  BY <1>1
<1>4. k * m <= k * n
  BY <1>1, <1>2, <1>3
<1>5. QED
  BY <1>2, <1>4 DEF k

\* A broadcast's audience is finite and no larger than the set of users.
LEMMA AudienceIsFinite ==
    ASSUME NEW S \in SUBSET Users
    PROVE  /\ IsFiniteSet(S) /\ Cardinality(S) \in Nat /\ Cardinality(Users) \in Nat
           /\ Cost * Cardinality(S) \in Nat /\ Cost * Cardinality(Users) \in Nat
           /\ Cost * Cardinality(S) <= Cost * Cardinality(Users)
<1>1. /\ IsFiniteSet(S) /\ Cardinality(S) \in Nat /\ Cardinality(Users) \in Nat
      /\ Cardinality(S) <= Cardinality(Users)
  BY UsersAssumption, FS_Subset, FS_CardinalityType
<1>2. QED
  BY <1>1, CostGrows

\* The effort is a number, positive exactly in flight, and what is left once the lock is
\* held is bounded by the number of users.
LEMMA EffortBounded == TypeOK /\ BroadcastInv => EffortInv
<1> SUFFICES ASSUME TypeOK, BroadcastInv, NEW b \in Broadcasts
             PROVE  /\ Effort(b) \in Nat
                    /\ Effort(b) > 0 <=> b \in InFlight
                    /\ lock = b => Effort(b) <= Cost * Cardinality(Users) + 2
  BY DEF EffortInv
<1>1. /\ todo[b] \in SUBSET Users /\ tries[b] \in 0 .. MaxRetries
      /\ pc[b] \in {"new", "create", "audience", "next", "send", "sent", "raised"}
  BY DEF TypeOK
<1>2. /\ Cost * Cardinality(todo[b]) \in Nat /\ Cost * Cardinality(Users) \in Nat
      /\ Cost * Cardinality(todo[b]) <= Cost * Cardinality(Users)
  BY <1>1, AudienceIsFinite
<1>3. lock = b <=> pc[b] \in {"audience", "next", "send"}
  BY DEF BroadcastInv, Owner
<1>4. CASE pc[b] = "send"
  <2>1. user[b] \in Users /\ user[b] \notin todo[b]
    BY <1>1, <1>4 DEF TypeOK, BroadcastInv, Visited, BroadcastStatus
  <2>2. /\ IsFiniteSet(todo[b]) /\ Cardinality(todo[b]) \in Nat
        /\ todo[b] \cup {user[b]} \in SUBSET Users
    BY <1>1, <2>1, AudienceIsFinite
  <2>3. Cardinality(todo[b] \cup {user[b]}) = Cardinality(todo[b]) + 1
    BY <2>1, <2>2, FS_AddElement
  <2>4. Cost * Cardinality(todo[b] \cup {user[b]}) <= Cost * Cardinality(Users)
    BY <2>2, AudienceIsFinite
  <2>5. Cost * (Cardinality(todo[b]) + 1) = Cost * Cardinality(todo[b]) + Cost
    BY <2>2, CostGrows
  <2>6. Effort(b) = Cost * Cardinality(todo[b]) + 2 + (MaxRetries - tries[b])
    BY <1>4 DEF Effort
  <2>7. b \in InFlight
    BY <1>4 DEF InFlight
  <2>8. Cost * Cardinality(todo[b]) + Cost <= Cost * Cardinality(Users)
    BY <2>3, <2>4, <2>5
  <2> DEFINE c == Cost * Cardinality(todo[b])
             d == Cost * Cardinality(Users)
  <2> HIDE DEF c, d
  <2>9. c \in Nat /\ d \in Nat /\ c + (MaxRetries + 2) <= d
    BY <1>2, <2>8 DEF c, d, Cost
  <2>10. Effort(b) = c + 2 + (MaxRetries - tries[b])
    BY <2>6 DEF c
  <2>11. Effort(b) \in Nat /\ Effort(b) > 0 /\ Effort(b) <= d + 2
    BY <1>1, <2>9, <2>10
  <2>12. QED
    BY <2>7, <2>11 DEF d
<1>5. CASE pc[b] # "send"
  BY <1>1, <1>2, <1>3, <1>5 DEF Effort, InFlight
<1>6. QED
  BY <1>4, <1>5

\* A handler that a step leaves alone has the same to do.
LEMMA EffortFrame ==
    ASSUME NEW b \in Broadcasts, pc'[b] = pc[b], todo'[b] = todo[b], tries'[b] = tries[b]
    PROVE  Effort(b)' = Effort(b)
BY DEF Effort

\* The heart of it: what each step of a handler does to its effort.
LEMMA StepIsNearer ==
    ASSUME TypeOK, BroadcastInv, NEW b \in Broadcasts, Step(b)
    PROVE  Effort(b)' \in Nat /\ Effort(b)' < Effort(b)
<1>1. /\ todo[b] \in SUBSET Users /\ subscribed \in SUBSET Users
      /\ tries[b] \in 0 .. MaxRetries
  BY DEF TypeOK
<1>2. /\ Cost * Cardinality(todo[b]) \in Nat /\ Cost * Cardinality(Users) \in Nat
      /\ Cost * Cardinality(subscribed) \in Nat
      /\ Cost * Cardinality(subscribed) <= Cost * Cardinality(Users)
  BY <1>1, AudienceIsFinite
<1>3. CASE CreateBroadcast(b) \/ LockTimeout(b)
  <2>1. pc[b] = "create" /\ pc'[b] \in {"audience", "raised"}
    BY <1>3 DEF CreateBroadcast, LockTimeout, Goto, TypeOK
  <2>2. QED
    BY <1>2, <2>1 DEF Effort
<1>4. CASE GetActive(b)
  <2>1. pc[b] = "audience" /\ pc'[b] = "next" /\ todo'[b] = subscribed
    BY <1>4 DEF GetActive, Goto, TypeOK
  <2>2. QED
    BY <1>2, <2>1 DEF Effort
<1>5. CASE NextRecipient(b)
  <2>1. PICK u \in todo[b] : todo'[b] = todo[b] \ {u}
    BY <1>5 DEF NextRecipient, TypeOK
  <2>2. pc[b] = "next" /\ pc'[b] = "send" /\ tries'[b] = 0
    BY <1>5 DEF NextRecipient, Goto, TypeOK
  <2>3. /\ IsFiniteSet(todo[b]) /\ Cardinality(todo[b]) \in Nat
        /\ Cardinality(todo'[b]) \in Nat
    BY <1>1, <2>1, AudienceIsFinite
  <2>4. Cardinality(todo'[b]) = Cardinality(todo[b]) - 1
    BY <2>1, <2>3, FS_RemoveElement
  <2>5. Cost * Cardinality(todo[b]) = Cost * Cardinality(todo'[b]) + Cost
    <3>1. Cardinality(todo[b]) = Cardinality(todo'[b]) + 1
      BY <2>3, <2>4
    <3>2. QED
      BY <2>3, <3>1, CostGrows
  <2>6. Cost * Cardinality(todo'[b]) \in Nat
    BY <2>3, CostGrows
  <2>7. Effort(b) = Cost * Cardinality(todo'[b]) + Cost + 1
    BY <2>2, <2>5 DEF Effort
  <2>8. Effort(b)' = Cost * Cardinality(todo'[b]) + 2 + MaxRetries
    BY <2>2, <2>6 DEF Effort
  <2> DEFINE c == Cost * Cardinality(todo'[b])
  <2> HIDE DEF c
  <2>9. c \in Nat /\ Effort(b) = c + (MaxRetries + 2) + 1 /\ Effort(b)' = c + 2 + MaxRetries
    BY <2>6, <2>7, <2>8 DEF c, Cost
  <2>10. QED
    BY <2>9
<1>6. CASE SendSucceeds(b) \/ SendFails(b)
  <2>1. pc[b] = "send" /\ pc'[b] = "next" /\ todo'[b] = todo[b]
    BY <1>6 DEF SendSucceeds, SendFails, MarkRecipient, Goto, TypeOK
  <2>2. QED
    BY <1>1, <1>2, <2>1 DEF Effort
<1>7. CASE FloodControl(b) \/ NetworkError(b)
  <2>1. /\ pc[b] = "send" /\ pc'[b] = "send" /\ todo'[b] = todo[b]
        /\ tries'[b] = tries[b] + 1
    BY <1>7 DEF FloodControl, NetworkError, Sends, TypeOK
  <2>2. QED
    BY <1>1, <1>2, <2>1 DEF Effort
<1>8. CASE SendBroadcastEnds(b)
  <2>1. pc[b] = "next" /\ pc'[b] = "sent"
    BY <1>8 DEF SendBroadcastEnds, Goto, TypeOK
  <2>2. QED
    BY <1>2, <2>1 DEF Effort
<1>9. QED
  BY <1>3, <1>4, <1>5, <1>6, <1>7, <1>8 DEF Step

\* A broadcast in flight has fewer steps left after each of its own and never more,
\* whatever the network, the other broadcasts and writers and a crash do, and at most
\* Cost * |Users| + 2 once it has the write lock: _send_with_retry gives up, and the loop
\* of send_broadcast visits nobody twice.
THEOREM BroadcastsAreShort == Spec => []EffortInv /\ [][Nearer]_vars
<1>1. TypeOK /\ BroadcastInv /\ [Next]_vars => [Nearer]_vars
  <2> SUFFICES ASSUME TypeOK, BroadcastInv, Next, NEW b \in Broadcasts
               PROVE  /\ Step(b) => Effort(b)' < Effort(b)
                      /\ ~BroadcastText(b) => Effort(b)' <= Effort(b)
    BY DEF Nearer
  <2>1. Effort(b) \in Nat
    BY EffortBounded DEF EffortInv
  <2>2. Step(b) => Effort(b)' < Effort(b) /\ Effort(b)' <= Effort(b)
    BY <2>1, StepIsNearer
  <2> SUFFICES ASSUME ~BroadcastText(b), ~Step(b) PROVE Effort(b)' <= Effort(b)
    BY <2>2
  <2>3. ASSUME NEW c \in Broadcasts \ {b}, BroadcastText(c) \/ Step(c)
        PROVE  Effort(b)' = Effort(b)
    <3>1. pc'[b] = pc[b] /\ todo'[b] = todo[b] /\ tries'[b] = tries[b]
      BY <2>3 DEF TypeOK, Step, BroadcastText, CreateBroadcast, LockTimeout, GetActive,
         NextRecipient, SendSucceeds, FloodControl, NetworkError, SendFails,
         SendBroadcastEnds, Goto, MarkRecipient
    <3>2. QED
      BY <3>1, EffortFrame
  <2>4. CASE OtherWriterBegins \/ OtherWriterEnds
    <3>1. UNCHANGED <<pc, todo, tries>>
      BY <2>4 DEF OtherWriterBegins, OtherWriterEnds, jobVars
    <3>2. QED
      BY <2>1, <3>1, EffortFrame
  <2>5. CASE Crash
    <3>1. pc'[b] \in {pc[b], "raised"} /\ todo' = todo /\ tries' = tries
      BY <2>5 DEF Crash
    <3>2. pc'[b] = "raised" => Effort(b)' = 0
      BY DEF Effort
    <3>3. pc'[b] = pc[b] => Effort(b)' = Effort(b)
      BY <3>1, EffortFrame
    <3>4. QED
      BY <2>1, <3>1, <3>2, <3>3
  <2>6. QED
    BY <2>1, <2>3, <2>4, <2>5 DEF Next
<1>2. QED
  BY <1>1, EffortBounded, TypeCorrect, InvHolds, PTL DEF Spec
===============================================================================
