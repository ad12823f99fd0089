------------------------------- MODULE Throttling -------------------------------
(***************************************************************************)
(* ThrottlingMiddleware, in the process of Lifecycle: an update that       *)
(* Telegram delivers is a message on its way to its handler.               *)
(*                                                                         *)
(* Messages are handled concurrently; GET and SET are separate awaits, and *)
(* the middleware compares with the time it read before the first of them. *)
(* A Redis call that raises lets the message through.  Redis outlives the  *)
(* process, messages on their way do not.  The key is the same for every   *)
(* handler: aiogram calls them through one wrapper of that __name__.       *)
(***************************************************************************)
EXTENDS Lifecycle, Integers

CONSTANTS
    Users,
    From,      \* the sender of each update
    Second,    \* units of the clock in a second
    Rate,      \* rate_limit, in the same units
    MaxClock   \* bound: the end of time

ASSUME ThrottlingAssumption ==
    /\ From \in [Updates -> Users]
    /\ Second \in Nat \ {0} /\ Rate \in Nat /\ 2 * Rate >= Second
    /\ MaxClock \in Nat
    /\ NULL \notin [at : Nat, expires : Nat]

VARIABLES
    clock,     \* time.time()
    stamp,     \* Redis: per user the time stored under the throttle key
    place,     \* per update: where the middleware has it
    read,      \* per update: the time the middleware read
    excused    \* history: messages the interval says nothing about (see Spaced)

throttleVars == <<clock, stamp, place, read, excused>>

\* "through": the handler is called.  "lost": the process ended first.
Place == {"away", "get", "set", "through", "dropped", "lost"}

ThrottleInit ==
    /\ Init
    /\ clock = 0
    /\ stamp = [u \in Users |-> NULL]
    /\ place = [m \in Updates |-> "away"]
    /\ read = [m \in Updates |-> 0]
    /\ excused = {}

\* Mutated form of Expiry: the key lives for less than the interval.
ExpiryShort == Rate - 1

\* ex=int(self._rate_limit * 2): whole seconds.
Expiry == ((2 * Rate) \div Second) * Second

OnItsWay(m) == place[m] \in {"get", "set"}
Move(m, to) == place' = [place EXCEPT ![m] = to]
Others(m) == {k \in Updates : From[k] = From[m] /\ OnItsWay(k)}

\* The dispatcher starts a task for the message, which reads the time and awaits GET.
Arrive(m) ==
    /\ Deliver(m)
    /\ Move(m, "get")
    /\ read' = [read EXCEPT ![m] = clock]
    /\ excused' = IF Others(m) = {} THEN excused ELSE excused \cup {m} \cup Others(m)
    /\ UNCHANGED <<clock, stamp>>

\* Mutated form of TooSoon: the interval's end is still too soon.
TooSoonAtEnd(m) ==
    LET last == stamp[From[m]] IN
        /\ last # NULL
        /\ clock < last.expires
        /\ read[m] - last.at <= Rate

\* last and now - float(last) < self._rate_limit
TooSoon(m) ==
    LET last == stamp[From[m]] IN
        /\ last # NULL
        /\ clock < last.expires
        /\ read[m] - last.at < Rate

GetStamp(m) ==
    /\ place[m] = "get"
    /\ Move(m, IF TooSoon(m) THEN "dropped" ELSE "set")
    /\ excused' = IF clock - read[m] >= Rate THEN excused \cup {m} ELSE excused
    /\ UNCHANGED <<vars, clock, stamp, read>>

Store(m) == stamp' = [stamp EXCEPT ![From[m]] = [at |-> read[m], expires |-> clock + Expiry]]

SetStamp(m) ==
    /\ place[m] = "set"
    /\ Store(m)
    /\ Move(m, "through")
    /\ UNCHANGED <<vars, clock, read, excused>>

\* except Exception: pass.  A SET whose answer is lost may have been executed.
RedisFails(m) ==
    /\ OnItsWay(m)
    /\ UNCHANGED stamp \/ (place[m] = "set" /\ Store(m))
    /\ Move(m, "through")
    /\ excused' = excused \cup {m}
    /\ UNCHANGED <<vars, clock, read>>

TimePasses ==
    /\ clock < MaxClock
    /\ clock' = clock + 1
    /\ UNCHANGED <<vars, stamp, place, read, excused>>

\* A process that ends takes the messages on their way with it.
Besides ==
    /\ ProcessStep \/ \E m \in Updates : Send(m)
    /\ place' = IF up' THEN place
                ELSE [m \in Updates |-> IF OnItsWay(m) THEN "lost" ELSE place[m]]
    /\ UNCHANGED <<clock, stamp, read, excused>>

ThrottleNext ==
    \/ Besides
    \/ \E m \in Updates : Arrive(m) \/ GetStamp(m) \/ SetStamp(m) \/ RedisFails(m)
    \/ TimePasses

ThrottleSpec == ThrottleInit /\ [][ThrottleNext]_<<vars, throttleVars>>

-------------------------------------------------------------------------------
(* Properties.                                                             *)

ThrottlingTypeOK ==
    /\ clock \in 0 .. MaxClock
    /\ stamp \in [Users -> [at : Nat, expires : Nat] \cup {NULL}]
    /\ place \in [Updates -> Place]
    /\ read \in [Updates -> 0 .. MaxClock]
    /\ excused \subseteq Updates

\* Messages of a user that the middleware lets through are at least Rate apart, also
\* those of two processes, unless one of them overlapped another between GET and SET, met
\* a Redis that failed, or waited for its GET as long as the interval itself.
Spaced ==
    \A k, m \in Updates \ excused :
        From[k] = From[m] /\ k # m /\ place[k] = "through" /\ place[m] = "through" =>
            read[k] - read[m] >= Rate \/ read[m] - read[k] >= Rate

\* Nobody is ignored without having been heard: a message is dropped only if another one
\* of its user was let through less than the interval before it, however messages
\* overlap, whichever calls of Redis fail and wherever the process dies.
DroppedHasCause ==
    \A m \in Updates : place[m] = "dropped" =>
        \E k \in Updates : /\ From[k] = From[m] /\ place[k] = "through"
                           /\ read[m] - read[k] < Rate
===============================================================================
