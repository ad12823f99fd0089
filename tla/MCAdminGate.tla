------------------------------ MODULE MCAdminGate ------------------------------
(***************************************************************************)
(* Small instances of Lifecycle with Throttling and AdminGate.             *)
(***************************************************************************)
EXTENDS AdminGate

CONSTANTS m1, m2, ann, secret

Senders == [m \in Updates |-> ann]
===============================================================================
