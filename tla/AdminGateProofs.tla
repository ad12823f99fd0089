--------------------------- MODULE AdminGateProofs ---------------------------
(***************************************************************************)
(* Theorems about AdminGate, for any users, passwords and bounds.          *)
(***************************************************************************)
EXTENDS AdminGate, ThrottlingProofs, FiniteSetTheorems

\* The admin dialog changes nothing of the process and of the throttle: what is proved of
\* either holds here too.
THEOREM GateKeepsThrottle == GateSpec => ThrottleSpec
<1>1. GateInit => ThrottleInit
  BY DEF GateInit
<1>2. [GateNext]_allVars => [ThrottleNext]_<<vars, throttleVars>>
  BY DEF GateNext, ServiceStep, AdminEntry, RightPassword, WrongPassword, allVars
<1> QED BY <1>1, <1>2, PTL DEF GateSpec, ThrottleSpec

\* A process runs only with a password.
LEMMA PasswordSet == Spec => [](up => password # "")
<1>1. Init => (up => password # "")
  BY DEF Init
<1>2. (up => password # "") /\ [Next]_vars => (up => password # "")'
  BY Zenon DEF Next, ProcessStep, Advance, Start, Valid, Die, Exit, AddSignalHandlers, Call,
     CreateTables, StartScheduler, StartSite, DeleteWebhookAndDrop, SetWebhook,
     SpawnPolling, Wait, StopPolling, DeleteWebhook, Cleanup, Return, PollingBegins,
     PollingFails, Signal, StartTick, EndTick, Send, Deliver, processVars, vars, Go
<1> QED BY <1>1, <1>2, PTL DEF Spec

\* Only a process that serves authorises.
LEMMA StepAuthorises ==
    ASSUME GateNext
    PROVE  authorized' \subseteq authorized \/ Serving
BY DEF GateNext, ServiceStep, AdminEntry, RightPassword, WrongPassword

\* The "admin" that verify_password accepts in place of an empty password authorises
\* nobody, whatever processes start, die and are asked.
THEOREM DefaultPasswordNeverUsed == GateSpec => DefaultPasswordUnused
<1>1. LifecycleInv /\ (up => password # "") /\ [GateNext]_allVars
        => [authorized' \subseteq authorized \/ password # ""]_allVars
  <2> SUFFICES ASSUME LifecycleInv, up => password # "", GateNext,
                      ~(authorized' \subseteq authorized)
               PROVE  password # ""
    OBVIOUS
  <2>1. Serving
    BY StepAuthorises
  <2>2. up
    BY <2>1 DEF Serving, LifecycleInv, Owned, Reached
  <2> QED BY <2>2
<1> QED
  BY <1>1, GateKeepsThrottle, ThrottleKeepsLifecycle, PasswordSet, Invariance, PTL
     DEF GateSpec, DefaultPasswordUnused

-------------------------------------------------------------------------------
(* Types.                                                                  *)

Failures == [nth : 1 .. MaxTries, at : 0 .. MaxClock]

\* A user's wrong passwords can be counted, and are counted up to MaxTries.
GateInv ==
    /\ authorized \subseteq Users /\ asked \subseteq Users
    /\ tries \in [Users -> SUBSET Failures]
    /\ \A u \in Users : IsFiniteSet(tries[u])

\* Nobody was asked.
LEMMA InitGate == GateInit => GateInv
<1> SUFFICES ASSUME GateInit PROVE GateInv
  OBVIOUS
<1>1. tries \in [Users -> SUBSET Failures] /\ \A u \in Users : tries[u] = {}
  BY DEF GateInit, None
<1>2. \A u \in Users : IsFiniteSet(tries[u])
  BY <1>1, FS_EmptySet
<1> QED BY <1>1, <1>2 DEF GateInit, GateInv

\* A wrong password is one more, while there is room for it.
LEMMA WrongCounted ==
    ASSUME GateInv, ThrottlingTypeOK, NEW u \in Users, NEW text, WrongPassword(u, text)
    PROVE  GateInv'
<1> DEFINE f == [nth |-> Cardinality(tries[u]) + 1, at |-> clock]
<1>1. Cardinality(tries[u]) \in Nat /\ IsFiniteSet(tries[u]) /\ IsFiniteSet(tries[u] \cup {f})
  BY FS_CardinalityType, FS_AddElement DEF GateInv
<1>2. f \in Failures
  BY <1>1, GateAssumption DEF WrongPassword, Failures, ThrottlingTypeOK
<1>3. tries' = [tries EXCEPT ![u] = @ \cup {f}] /\ UNCHANGED <<authorized, asked>>
  BY DEF WrongPassword
<1> HIDE DEF f
<1> QED BY <1>1, <1>2, <1>3 DEF GateInv

\* A login forgets them.
LEMMA RightForgets ==
    ASSUME GateInv, NEW u \in Users, NEW text, RightPassword(u, text)
    PROVE  GateInv'
<1>1. tries' = [tries EXCEPT ![u] = {}] /\ IsFiniteSet({})
  BY FS_EmptySet DEF RightPassword
<1> QED BY <1>1 DEF RightPassword, GateInv

\* Every step keeps the types.
LEMMA StepGate == GateInv /\ ThrottlingTypeOK /\ [GateNext]_allVars => GateInv'
<1> SUFFICES ASSUME GateInv, ThrottlingTypeOK, [GateNext]_allVars PROVE GateInv'
  OBVIOUS
<1>1. CASE ServiceStep
  <2>1. CASE tries' = None /\ authorized' = {}
    <3>1. \A u \in Users : tries'[u] = {} /\ IsFiniteSet({})
      BY <2>1, FS_EmptySet DEF None
    <3> QED BY <1>1, <2>1, <3>1 DEF ServiceStep, None, GateInv
  <2>2. CASE UNCHANGED <<authorized, tries>>
    BY <1>1, <2>2 DEF ServiceStep, GateInv
  <2> QED BY <1>1, <2>1, <2>2 DEF ServiceStep
<1>2. ASSUME NEW u \in Users, AdminEntry(u) PROVE GateInv'
  BY <1>2 DEF AdminEntry, GateInv
<1>3. ASSUME NEW u \in Users, NEW text, RightPassword(u, text) \/ WrongPassword(u, text)
      PROVE  GateInv'
  BY <1>3, RightForgets, WrongCounted
<1>4. CASE UNCHANGED allVars
  BY <1>4 DEF allVars, gateVars, GateInv
<1> QED BY <1>1, <1>2, <1>3, <1>4 DEF GateNext

\* Every variable of the service stays what it is declared to be: the process and what it
\* leaves behind, the throttle's, and the gate's.
THEOREM GateTypeCorrect == GateSpec => []TypeOK
<1>1. LifecycleInv /\ ThrottlingTypeOK /\ GateInv => TypeOK
  BY DEF LifecycleInv, GateInv, Failures, TypeOK
<1>2. GateSpec => []ThrottlingTypeOK
  BY GateKeepsThrottle, ThrottleTypeCorrect, PTL
<1>3. GateSpec => []GateInv
  BY <1>2, InitGate, StepGate, PTL DEF GateSpec
<1> QED
  BY <1>1, <1>2, <1>3, GateKeepsThrottle, ThrottleKeepsLifecycle, Invariance, PTL
===============================================================================
