------------------------------- MODULE AdminGate -------------------------------
(***************************************************************************)
(* The admin password, in the process of Lifecycle and Throttling.         *)
(*                                                                         *)
(* The gate lives in the memory of a process; that a user was asked for    *)
(* the password is FSM state in Redis and outlives it.  Both routers       *)
(* register a handler for that state, and the dispatcher calls only the    *)
(* one whose router was included first.  register_routers includes the     *)
(* reminder router first, so this is its handler: it compares without      *)
(* asking the gate, and nothing ever calls is_throttled or record_failure. *)
(*                                                                         *)
(* The messages of the dialog are not among Updates.                       *)
(***************************************************************************)
EXTENDS Throttling, FiniteSets

CONSTANTS
    Window,        \* _WINDOW
    MaxAttempts,   \* _MAX_ATTEMPTS
    MaxTries       \* bound: wrong passwords remembered by the history

ASSUME GateAssumption ==
    /\ Window \in Nat \ {0} /\ MaxAttempts \in Nat \ {0}
    /\ MaxTries \in Nat

VARIABLES
    authorized,  \* _authorized
    asked,       \* users whose FSM state is admin:password
    tries        \* history: the wrong passwords of a user this process compared since
                 \* the user's last login

gateVars == <<authorized, asked, tries>>
allVars == <<vars, throttleVars, gateVars>>

None == [u \in Users |-> {}]

GateInit ==
    /\ ThrottleInit
    /\ authorized = {} /\ asked = {} /\ tries = None

\* verify_password
Accepts(text) == text = IF password = "" THEN "admin" ELSE password

\* Command /admin.
AdminEntry(u) ==
    /\ Serving
    /\ asked' = asked \cup {u}
    /\ UNCHANGED <<vars, throttleVars, authorized, tries>>

\* admin_password, called for a user it has asked: the right password logs in, ...
RightPassword(u, text) ==
    /\ Serving /\ u \in asked
    /\ Accepts(text)
    /\ authorized' = authorized \cup {u}
    /\ tries' = [tries EXCEPT ![u] = {}]
    /\ asked' = asked \ {u}
    /\ UNCHANGED <<vars, throttleVars>>

\* ... a wrong one leaves the question open.
WrongPassword(u, text) ==
    /\ Serving /\ u \in asked
    /\ ~Accepts(text)
    /\ Cardinality(tries[u]) < MaxTries
    /\ tries' = [tries EXCEPT ![u] =
                    @ \cup {[nth |-> Cardinality(tries[u]) + 1, at |-> clock]}]
    /\ UNCHANGED <<vars, throttleVars, authorized, asked>>

\* A process that ends takes the gate with it.
ServiceStep ==
    /\ ThrottleNext
    /\ IF up /\ ~up' THEN authorized' = {} /\ tries' = None
                     ELSE UNCHANGED <<authorized, tries>>
    /\ UNCHANGED asked

GateNext ==
    \/ ServiceStep
    \/ \E u \in Users : AdminEntry(u)
    \/ \E u \in Users, text \in Secrets \cup {"admin"} :
           RightPassword(u, text) \/ WrongPassword(u, text)

GateSpec == GateInit /\ [][GateNext]_allVars
FairGateSpec == GateSpec /\ WF_vars(Advance /\ ServiceStep)

-------------------------------------------------------------------------------
(* Properties.                                                             *)

TypeOK ==
    /\ LifecycleTypeOK
    /\ ThrottlingTypeOK
    /\ authorized \subseteq Users /\ asked \subseteq Users
    /\ tries \in [Users -> SUBSET [nth : 1 .. MaxTries, at : 0 .. MaxClock]]

\* verify_password would accept "admin" under an empty ADMIN_PASSWORD; no process that
\* validate_on_startup let start ever authorises anybody that way.
DefaultPasswordUnused == [][authorized' \subseteq authorized \/ password # ""]_allVars

-------------------------------------------------------------------------------
(* A claim of the repository that the code does not meet.                  *)

\* "the limit is actually enforced": a process compares at most MaxAttempts wrong
\* passwords of a user in any window (auth.py:36-38).
AttemptsLimited ==
    \A u \in Users : Cardinality({f \in tries[u] : clock - f.at < Window}) <= MaxAttempts
===============================================================================
