-------------------------------- MODULE MCDialog --------------------------------
(***************************************************************************)
(* Small instances of Dialog: two handlers in flight, two bot messages     *)
(* with a keyboard, two texts, dates and weekdays.                         *)
(***************************************************************************)
EXTENDS Dialog, TLC

CONSTANTS v1, v2, h1, h2, k1, k2

\* Two for the orderly user, whose dialogs they interrupt; none for the hasty one.
Mishaps == [o \in BOOLEAN |-> IF o THEN 2 ELSE 0]
NoMishaps == [o \in BOOLEAN |-> 0]

Symmetry == Permutations({v1, v2}) \cup Permutations({h1, h2}) \cup Permutations({k1, k2})
===============================================================================
