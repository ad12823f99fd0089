------------------------------- MODULE ExitCodes -------------------------------
(***************************************************************************)
(* What the three gates of the repository tell whoever runs them.          *)
(***************************************************************************)
EXTENDS Integers, Sequences

CONSTANT NULL   \* what is not there, or is not of the type the gate can read

EXIT_OK == 0
EXIT_FAIL == 1
EXIT_CANNOT_VERIFY == 2
===============================================================================
