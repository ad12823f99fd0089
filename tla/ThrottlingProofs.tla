---------------------------- MODULE ThrottlingProofs ----------------------------
(***************************************************************************)
(* Theorems about Throttling, for any users, messages, rates and           *)
(* processes.                                                              *)
(*                                                                         *)
(* That a dropped message has a cause rests on whose stamp it is: of a     *)
(* message that was let through.  Spacing needs to know of each message    *)
(* that was let through that the stamp is at least as young, of each one   *)
(* on its way that it is younger, and of two on their way that the         *)
(* interval says nothing about either.                                     *)
(***************************************************************************)
EXTENDS Throttling, LifecycleProofs

LetThrough(m) == place[m] = "through"
MessageStep(m) == Arrive(m) \/ GetStamp(m) \/ SetStamp(m) \/ RedisFails(m)

\* Nobody has read a time that is still to come, and no key ends early.
Dated ==
    /\ \A m \in Updates : read[m] <= clock
    /\ \A u \in Users : stamp[u] # NULL => stamp[u].expires >= stamp[u].at + Expiry

\* A message is away until it is delivered.
Arrived == \A m \in Updates : place[m] # "away" => update[m] = "handled"

\* A stamp is the time of a message of its user that was let through.
Signed ==
    \A u \in Users : stamp[u] # NULL =>
        \E k \in Updates : From[k] = u /\ LetThrough(k) /\ read[k] = stamp[u].at

\* Two messages of a user on their way at once are both excused.
Alone ==
    \A k, m \in Updates :
        From[k] = From[m] /\ k # m /\ OnItsWay(k) /\ OnItsWay(m) => m \in excused

\* Of a message m that was let through and is not excused: the stamp is not older, nor is
\* a message on its way, and one that may write its own is far enough behind.
Stamped ==
    \A m \in Updates \ excused : LetThrough(m) =>
        stamp[From[m]] # NULL /\ stamp[From[m]].at >= read[m]
Later ==
    \A k, m \in Updates :
        From[k] = From[m] /\ m \notin excused /\ LetThrough(m) /\ OnItsWay(k) => read[k] >= read[m]
Cleared ==
    \A k, m \in Updates :
        From[k] = From[m] /\ m \notin excused /\ LetThrough(m)
            /\ k \notin excused /\ place[k] = "set"
            => read[k] >= read[m] + Rate
Apart ==
    \A k, m \in Updates :
        From[k] = From[m] /\ k # m /\ m \notin excused /\ LetThrough(m)
            /\ k \notin excused /\ LetThrough(k)
            => read[k] - read[m] >= Rate \/ read[m] - read[k] >= Rate

SpacingInv == Dated /\ Alone /\ Stamped /\ Later /\ Cleared /\ Apart

\* The ttl of a throttle key is a number, ...
LEMMA ExpiryNat == Expiry \in Nat
<1>1. Rate \in Nat /\ Second \in Nat /\ Second > 0
  BY ThrottlingAssumption
<1>2. 2 * Rate \in Nat
  BY <1>1
<1>3. \A x, s \in Nat : s > 0 => x \div s \in Nat
  OBVIOUS
<1>4. (2 * Rate) \div Second \in Nat
  BY <1>1, <1>2, <1>3
<1>5. \A x, y \in Nat : x * y \in Nat
  OBVIOUS
<1> QED BY <1>1, <1>4, <1>5 DEF Expiry

\* ... and exact where it cuts nothing off.
LEMMA ExpiryExact ==
    ASSUME (2 * Rate) % Second = 0
    PROVE  Expiry = 2 * Rate
<1>1. 2 * Rate \in Nat /\ Second \in Nat \ {0}
  BY ThrottlingAssumption
<1>2. \A x \in Nat, s \in Nat \ {0} : x % s = 0 => (x \div s) * s = x
  OBVIOUS
<1> QED BY <1>1, <1>2 DEF Expiry

-------------------------------------------------------------------------------
(* The steps of a message.                                                 *)

\* A stamp is a time with an end.
LEMMA StoreTyped ==
    ASSUME ThrottlingTypeOK, NEW m \in Updates, Store(m)
    PROVE  /\ [at |-> read[m], expires |-> clock + Expiry] \in [at : Nat, expires : Nat]
           /\ [at |-> read[m], expires |-> clock + Expiry] # NULL
           /\ stamp' \in [Users -> [at : Nat, expires : Nat] \cup {NULL}]
           /\ stamp'[From[m]] # NULL
           /\ stamp'[From[m]].at = read[m] /\ stamp'[From[m]].expires = clock + Expiry
           /\ \A u \in Users \ {From[m]} : stamp'[u] = stamp[u]
<1>1. [at |-> read[m], expires |-> clock + Expiry] \in [at : Nat, expires : Nat]
  BY ExpiryNat, ThrottlingAssumption DEF ThrottlingTypeOK
<1>2. [at |-> read[m], expires |-> clock + Expiry] # NULL
  BY <1>1, ThrottlingAssumption
<1> HIDE DEF Expiry
<1>3. QED
  BY <1>1, <1>2, ThrottlingAssumption DEF Store, ThrottlingTypeOK

\* The variables keep their types.
LEMMA StepTypes ==
    ASSUME ThrottlingTypeOK, NEW m \in Updates, MessageStep(m)
    PROVE  ThrottlingTypeOK'
<1> USE ThrottlingAssumption DEF ThrottlingTypeOK, Place, Move
<1>1. CASE Arrive(m)
  BY <1>1 DEF Arrive, Others
<1>2. CASE GetStamp(m)
  BY <1>2 DEF GetStamp
<1>3. CASE SetStamp(m)
  BY <1>3, StoreTyped DEF SetStamp
<1>4. CASE RedisFails(m)
  <2>1. stamp' \in [Users -> [at : Nat, expires : Nat] \cup {NULL}]
    BY <1>4, StoreTyped DEF RedisFails
  <2> QED BY <1>4, <2>1 DEF RedisFails
<1> QED BY <1>1, <1>2, <1>3, <1>4 DEF MessageStep

\* Who writes a stamp is let through in the same step, and stays so.
LEMMA StepSigned ==
    ASSUME ThrottlingTypeOK, Arrived, Signed, NEW m \in Updates, MessageStep(m)
    PROVE  Signed'
<1> USE ThrottlingAssumption DEF ThrottlingTypeOK, Place, Move, LetThrough, Arrived, Deliver
<1>1. CASE Arrive(m) \/ GetStamp(m)
  <2>1. \A k \in Updates : LetThrough(k) => LetThrough(k)' /\ read'[k] = read[k]
    BY <1>1 DEF Arrive, GetStamp
  <2> QED BY <1>1, <2>1 DEF Arrive, GetStamp, Signed
<1>2. CASE SetStamp(m) \/ RedisFails(m)
  <2>1. /\ LetThrough(m)' /\ read' = read
        /\ \A k \in Updates : LetThrough(k) => LetThrough(k)'
        /\ UNCHANGED stamp \/ Store(m)
    BY <1>2 DEF SetStamp, RedisFails
  <2>2. CASE UNCHANGED stamp
    BY <2>1, <2>2 DEF Signed
  <2>3. CASE Store(m)
    <3>1. \A u \in Users \ {From[m]} : stamp'[u] = stamp[u]
      BY <2>3, StoreTyped
    <3>2. From[m] \in Users /\ stamp'[From[m]].at = read[m]
      BY <2>3, StoreTyped
    <3> HIDE DEF LetThrough
    <3> QED BY <2>1, <3>1, <3>2 DEF Signed
  <2> QED BY <2>1, <2>2, <2>3
<1> QED BY <1>1, <1>2 DEF MessageStep

\* A message is dropped for a stamp, and the stamp is somebody's.
LEMMA StepDropped ==
    ASSUME ThrottlingTypeOK, Arrived, Signed, DroppedHasCause, NEW m \in Updates, MessageStep(m)
    PROVE  DroppedHasCause'
<1> USE ThrottlingAssumption DEF ThrottlingTypeOK, Place, Move, LetThrough, Arrived, Deliver
<1>1. CASE Arrive(m)
  BY <1>1 DEF Arrive, DroppedHasCause
<1>2. CASE GetStamp(m)
  BY <1>2 DEF GetStamp, TooSoon, Signed, DroppedHasCause
<1>3. CASE SetStamp(m)
  BY <1>3 DEF SetStamp, DroppedHasCause
<1>4. CASE RedisFails(m)
  BY <1>4 DEF RedisFails, OnItsWay, DroppedHasCause
<1> QED BY <1>1, <1>2, <1>3, <1>4 DEF MessageStep

\* No step dates anything ahead.
LEMMA StepDated ==
    ASSUME ThrottlingTypeOK, Arrived, SpacingInv, Expiry = 2 * Rate,
           NEW m \in Updates, MessageStep(m)
    PROVE  Dated'
<1> USE ThrottlingAssumption DEF ThrottlingTypeOK, SpacingInv, OnItsWay, LetThrough,
           Move, Arrived, Deliver, Dated
<1>1. CASE Arrive(m)
  BY <1>1 DEF Arrive, Others
<1>2. CASE GetStamp(m)
  BY <1>2 DEF GetStamp
<1>3. CASE SetStamp(m)
  <2>1. /\ From[m] \in Users /\ read[m] \in Nat /\ clock \in Nat /\ read[m] <= clock
        /\ Expiry \in Nat
    BY ExpiryNat
  <2>2. /\ stamp'[From[m]].at = read[m] /\ stamp'[From[m]].expires = clock + Expiry
        /\ \A u \in Users \ {From[m]} : stamp'[u] = stamp[u]
    BY <1>3, StoreTyped DEF SetStamp
  <2> QED BY <1>3, <2>1, <2>2 DEF SetStamp
<1>4. CASE RedisFails(m)
  <2>1. CASE UNCHANGED stamp
    BY <1>4, <2>1 DEF RedisFails
  <2>2. CASE Store(m)
    <3>1. /\ From[m] \in Users /\ read[m] \in Nat /\ clock \in Nat /\ read[m] <= clock
          /\ Expiry \in Nat
      BY ExpiryNat
    <3>2. /\ stamp'[From[m]].at = read[m] /\ stamp'[From[m]].expires = clock + Expiry
          /\ \A u \in Users \ {From[m]} : stamp'[u] = stamp[u]
      BY <2>2, StoreTyped
    <3> QED BY <1>4, <3>1, <3>2 DEF RedisFails
  <2> QED BY <1>4, <2>1, <2>2 DEF RedisFails
<1> QED BY <1>1, <1>2, <1>3, <1>4 DEF MessageStep

\* Arrive excuses whoever overlaps.
LEMMA StepAlone ==
    ASSUME ThrottlingTypeOK, Arrived, SpacingInv, Expiry = 2 * Rate,
           NEW m \in Updates, MessageStep(m)
    PROVE  Alone'
<1> USE ThrottlingAssumption DEF ThrottlingTypeOK, SpacingInv, OnItsWay, LetThrough,
           Move, Arrived, Deliver, Alone
<1>1. CASE Arrive(m)
  BY <1>1 DEF Arrive, Others
<1>2. CASE GetStamp(m)
  BY <1>2 DEF GetStamp
<1>3. CASE SetStamp(m)
  BY <1>3 DEF SetStamp
<1>4. CASE RedisFails(m)
  BY <1>4 DEF RedisFails
<1> QED BY <1>1, <1>2, <1>3, <1>4 DEF MessageStep

\* A message that was let through has left a stamp, and later ones leave later stamps.
LEMMA StepStamped ==
    ASSUME ThrottlingTypeOK, Arrived, SpacingInv, Expiry = 2 * Rate,
           NEW m \in Updates, MessageStep(m)
    PROVE  Stamped'
<1> USE ThrottlingAssumption DEF ThrottlingTypeOK, SpacingInv, OnItsWay, LetThrough,
           Move, Arrived, Deliver, Later, Stamped
<1>1. CASE Arrive(m)
  BY <1>1 DEF Arrive, Others
<1>2. CASE GetStamp(m)
  BY <1>2 DEF GetStamp
<1>3. CASE SetStamp(m)
  <2>1. /\ From[m] \in Users /\ read[m] \in Nat
        /\ stamp'[From[m]] # NULL /\ stamp'[From[m]].at = read[m]
        /\ \A u \in Users \ {From[m]} : stamp'[u] = stamp[u]
    BY <1>3, StoreTyped DEF SetStamp
  <2> QED BY <1>3, <2>1 DEF SetStamp
<1>4. CASE RedisFails(m)
  <2>1. CASE UNCHANGED stamp
    BY <1>4, <2>1 DEF RedisFails
  <2>2. CASE Store(m)
    BY <1>4, <2>2, StoreTyped DEF RedisFails
  <2> QED BY <1>4, <2>1, <2>2 DEF RedisFails
<1> QED BY <1>1, <1>2, <1>3, <1>4 DEF MessageStep

\* Who arrives reads the time now; who is let through was alone.
LEMMA StepLater ==
    ASSUME ThrottlingTypeOK, Arrived, SpacingInv, Expiry = 2 * Rate,
           NEW m \in Updates, MessageStep(m)
    PROVE  Later'
<1> USE ThrottlingAssumption DEF ThrottlingTypeOK, SpacingInv, OnItsWay, LetThrough,
           Move, Arrived, Deliver, Dated, Alone, Later
<1>1. CASE Arrive(m)
  BY <1>1 DEF Arrive, Others
<1>2. CASE GetStamp(m)
  BY <1>2 DEF GetStamp
<1>3. CASE SetStamp(m)
  BY <1>3 DEF SetStamp
<1>4. CASE RedisFails(m)
  BY <1>4 DEF RedisFails
<1> QED BY <1>1, <1>2, <1>3, <1>4 DEF MessageStep

\* GET lets a message pass only behind the stamp by the interval, or behind its expiry.
LEMMA StepCleared ==
    ASSUME ThrottlingTypeOK, Arrived, SpacingInv, Expiry = 2 * Rate,
           NEW m \in Updates, MessageStep(m)
    PROVE  Cleared'
<1> USE ThrottlingAssumption DEF ThrottlingTypeOK, SpacingInv, OnItsWay, LetThrough,
           Move, Arrived, Deliver, Alone, Later, Cleared
<1>1. CASE Arrive(m)
  BY <1>1 DEF Arrive, Others
<1>2. CASE GetStamp(m)
  <2> SUFFICES ASSUME NEW k \in Updates, NEW j \in Updates, From[j] = From[k],
                      k \notin excused', LetThrough(k)', j \notin excused', (place[j] = "set")'
               PROVE  read[j] >= read[k] + Rate
    BY <1>2 DEF Cleared, GetStamp
  <2>1. k \notin excused /\ LetThrough(k) /\ j \notin excused
    BY <1>2 DEF GetStamp
  <2>2. CASE j # m
    BY <1>2, <2>1, <2>2 DEF GetStamp
  <2>3. CASE j = m
    <3> DEFINE last == stamp[From[m]]
    <3>1. last # NULL /\ last.at >= read[k] /\ last.expires >= last.at + 2 * Rate
      BY <2>1, <2>3 DEF Stamped, Dated
    <3>2. last \in [at : Nat, expires : Nat]
      BY <3>1
    <3>3. clock - read[m] < Rate
      BY <1>2, <2>3 DEF GetStamp
    <3>4. ~TooSoon(m)
      BY <1>2, <2>3 DEF GetStamp
    <3>5. clock >= last.expires \/ read[m] - last.at >= Rate
      BY <3>1, <3>2, <3>4 DEF TooSoon
    <3>6. clock \in Nat /\ read[m] \in Nat /\ read[k] \in Nat /\ Rate \in Nat
      OBVIOUS
    <3> HIDE DEF last
    <3>7. read[m] >= read[k] + Rate
      BY <3>1, <3>2, <3>3, <3>5, <3>6
    <3> QED BY <2>3, <3>7
  <2> QED BY <2>2, <2>3
<1>3. CASE SetStamp(m)
  BY <1>3 DEF SetStamp
<1>4. CASE RedisFails(m)
  BY <1>4 DEF RedisFails
<1> QED BY <1>1, <1>2, <1>3, <1>4 DEF MessageStep

\* SET lets through what was cleared.
LEMMA StepApart ==
    ASSUME ThrottlingTypeOK, Arrived, SpacingInv, Expiry = 2 * Rate,
           NEW m \in Updates, MessageStep(m)
    PROVE  Apart'
<1> USE ThrottlingAssumption DEF ThrottlingTypeOK, SpacingInv, OnItsWay, LetThrough,
           Move, Arrived, Deliver, Cleared, Apart
<1>1. CASE Arrive(m)
  BY <1>1 DEF Arrive, Others
<1>2. CASE GetStamp(m)
  BY <1>2 DEF GetStamp
<1>3. CASE SetStamp(m)
  BY <1>3 DEF SetStamp
<1>4. CASE RedisFails(m)
  BY <1>4 DEF RedisFails
<1> QED BY <1>1, <1>2, <1>3, <1>4 DEF MessageStep

-------------------------------------------------------------------------------
(* Every step.                                                             *)

\* The middleware only watches the process: what is proved of Lifecycle holds here too.
LEMMA ThrottleStep == [ThrottleNext]_<<vars, throttleVars>> => [Next]_vars
BY DEF ThrottleNext, Besides, Arrive, GetStamp, SetStamp, RedisFails, TimePasses, Next

\* Time, the process and its end change nothing of a message but that it may be lost.
LEMMA OtherStep ==
    ASSUME ThrottlingTypeOK, Besides \/ TimePasses \/ UNCHANGED <<vars, throttleVars>>
    PROVE  /\ ThrottlingTypeOK' /\ UNCHANGED <<stamp, read, excused>>
           /\ clock' \in Nat /\ clock <= clock'
           /\ place' \in [Updates -> Place]
           /\ \A m \in Updates : place'[m] = place[m] \/ (OnItsWay(m) /\ place'[m] = "lost")
<1> USE ThrottlingAssumption DEF ThrottlingTypeOK
<1>1. CASE Besides
  BY <1>1 DEF Besides, Place
<1>2. CASE TimePasses
  BY <1>2 DEF TimePasses
<1>3. CASE UNCHANGED <<vars, throttleVars>>
  BY <1>3 DEF throttleVars
<1> QED BY <1>1, <1>2, <1>3

CauseInv == ThrottlingTypeOK /\ Arrived /\ Signed /\ DroppedHasCause

\* An update that was delivered is delivered for good.
LEMMA HandledStays ==
    ASSUME Values, [Next]_vars, NEW m \in Updates, update[m] = "handled"
    PROVE  update'[m] = "handled"
<1>1. ASSUME NEW v \in Updates, Send(v) PROVE update'[m] = "handled"
  BY <1>1 DEF Send, Values
<1>2. ASSUME NEW v \in Updates, Deliver(v) PROVE update'[m] = "handled"
  BY <1>2 DEF Deliver, Values
<1>3. CASE DeleteWebhookAndDrop
  BY <1>3 DEF DeleteWebhookAndDrop
<1> QED
  BY <1>1, <1>2, <1>3 DEF Next, ProcessStep, Advance, Start, Die, Exit, AddSignalHandlers, Call,
     CreateTables, StartScheduler, StartSite, SetWebhook, SpawnPolling, Wait,
     StopPolling, DeleteWebhook, Cleanup, Return, PollingBegins, PollingFails, Signal,
     StartTick, EndTick, vars

\* ... and only then is it on its way.
LEMMA StepArrived ==
    ASSUME Values, ThrottlingTypeOK, Arrived, [ThrottleNext]_<<vars, throttleVars>>
    PROVE  Arrived'
<1>1. \A m \in Updates : update[m] = "handled" => update'[m] = "handled"
  BY HandledStays, ThrottleStep
<1>2. ASSUME NEW m \in Updates, MessageStep(m) PROVE Arrived'
  <2>1. \A k \in Updates \ {m} : place'[k] = place[k]
    BY <1>2 DEF MessageStep, Arrive, GetStamp, SetStamp, RedisFails, Move, ThrottlingTypeOK
  <2>2. update'[m] = "handled"
    BY <1>1, <1>2 DEF MessageStep, Arrive, GetStamp, SetStamp, RedisFails, OnItsWay, Arrived,
                  Deliver, Values
  <2> QED BY <1>1, <2>1, <2>2 DEF Arrived
<1>3. ASSUME Besides \/ TimePasses \/ UNCHANGED <<vars, throttleVars>> PROVE Arrived'
  BY <1>1, <1>3, OtherStep DEF Arrived, OnItsWay
<1> QED BY <1>2, <1>3 DEF ThrottleNext, MessageStep

\* Nobody has sent anything.
LEMMA InitCause == ThrottleInit => CauseInv
BY ThrottlingAssumption
   DEF ThrottleInit, CauseInv, Arrived, ThrottlingTypeOK, Place, Signed, DroppedHasCause

\* Every step keeps the types, the stamps' authors and the causes.
LEMMA KeepsCause == Values /\ CauseInv /\ [ThrottleNext]_<<vars, throttleVars>> => CauseInv'
<1> SUFFICES ASSUME Values, CauseInv, [ThrottleNext]_<<vars, throttleVars>> PROVE CauseInv'
  OBVIOUS
<1> USE DEF CauseInv
<1>1. ASSUME NEW m \in Updates, MessageStep(m) PROVE CauseInv'
  BY <1>1, StepTypes, StepArrived, StepSigned, StepDropped
<1>2. ASSUME Besides \/ TimePasses \/ UNCHANGED <<vars, throttleVars>> PROVE CauseInv'
  <2>1. Signed' /\ DroppedHasCause'
    BY <1>2, OtherStep DEF Signed, LetThrough, DroppedHasCause, OnItsWay
  <2> QED BY <1>2, <2>1, OtherStep, StepArrived
<1> QED BY <1>1, <1>2 DEF ThrottleNext, MessageStep

\* Nobody was let through.
LEMMA InitSpacing == ThrottleInit => SpacingInv
BY DEF ThrottleInit, SpacingInv, Dated, Alone, Stamped, Later, Cleared, Apart,
       OnItsWay, LetThrough

\* Every step keeps the spacing.
LEMMA KeepsSpacing ==
    ASSUME ThrottlingTypeOK, Arrived, SpacingInv, Expiry = 2 * Rate,
           [ThrottleNext]_<<vars, throttleVars>>
    PROVE  SpacingInv'
<1>1. ASSUME NEW m \in Updates, MessageStep(m) PROVE SpacingInv'
  BY <1>1, StepDated, StepAlone, StepStamped, StepLater, StepCleared, StepApart DEF SpacingInv
<1>2. ASSUME Besides \/ TimePasses \/ UNCHANGED <<vars, throttleVars>> PROVE SpacingInv'
  <2>1. /\ UNCHANGED <<stamp, read, excused>> /\ clock \in Nat /\ clock' \in Nat /\ clock <= clock'
        /\ \A m \in Updates : read[m] \in Nat /\ (OnItsWay(m)' => OnItsWay(m))
        /\ \A m \in Updates : LetThrough(m)' = LetThrough(m)
        /\ \A m \in Updates : place'[m] = "set" => place[m] = "set"
    BY <1>2, OtherStep DEF OnItsWay, LetThrough, ThrottlingTypeOK
  <2>2. Dated'
    BY <2>1 DEF SpacingInv, Dated, Expiry
  <2>3. Alone' /\ Stamped' /\ Later' /\ Cleared' /\ Apart'
    BY <2>1 DEF SpacingInv, Alone, Stamped, Later, Cleared, Apart
  <2> QED BY <2>2, <2>3 DEF SpacingInv
<1> QED BY <1>1, <1>2 DEF ThrottleNext, MessageStep

-------------------------------------------------------------------------------
(* Theorems.                                                               *)

\* Every behaviour of the throttle is one of the process it lives in, ...
THEOREM ThrottleKeepsLifecycle == ThrottleSpec => Spec
<1>1. ThrottleInit => Init
  BY DEF ThrottleInit
<1> QED BY <1>1, ThrottleStep, PTL DEF ThrottleSpec, Spec

\* ... and the invariant holds in all its states.
LEMMA CauseInvariance == ThrottleSpec => []CauseInv
<1>1. LifecycleInv => Values
  BY Halves DEF LifecycleInv
<1> QED BY <1>1, InitCause, KeepsCause, ThrottleKeepsLifecycle, Invariance, PTL DEF ThrottleSpec

\* Whatever overlaps, fails, expires or dies, the throttle's state has its types.
THEOREM ThrottleTypeCorrect == ThrottleSpec => []ThrottlingTypeOK
<1>1. CauseInv => ThrottlingTypeOK
  BY DEF CauseInv
<1> QED BY <1>1, CauseInvariance, PTL

\* However messages overlap, Redis fails and processes die, a user is ignored only within
\* the interval after another message of theirs was let through.
THEOREM DroppedHasCauseAlways == ThrottleSpec => []DroppedHasCause
<1>1. CauseInv => DroppedHasCause
  BY DEF CauseInv
<1> QED BY <1>1, CauseInvariance, PTL

\* Where int(rate_limit * 2) cuts nothing off, as with the 0.5 s of bot.py, messages that
\* neither overlap nor meet a failing Redis are let through a whole interval apart, also
\* on either side of a restart.
THEOREM SpacedWhenExact ==
    ASSUME (2 * Rate) % Second = 0
    PROVE  ThrottleSpec => []Spaced
<1>1. Expiry = 2 * Rate
  BY ExpiryExact
<1>2. SpacingInv => Spaced
  BY DEF SpacingInv, Apart, Spaced, LetThrough
<1>3. CauseInv /\ SpacingInv /\ [ThrottleNext]_<<vars, throttleVars>> => SpacingInv'
  BY <1>1, KeepsSpacing DEF CauseInv
<1> QED BY <1>2, <1>3, InitSpacing, CauseInvariance, PTL DEF ThrottleSpec
===============================================================================
