-------------------------- MODULE MCBroadcastDelivery --------------------------
(***************************************************************************)
(* Small instances of BroadcastDelivery: two users, two broadcasts of      *)
(* which the second waits for the first one's lock.                        *)
(***************************************************************************)
EXTENDS BroadcastDelivery

CONSTANTS ann, bob, b1, b2
===============================================================================
