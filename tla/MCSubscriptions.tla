---------------------------- MODULE MCSubscriptions ----------------------------
(***************************************************************************)
(* Small instances of Subscriptions: two users with two profiles, two      *)
(* handlers in flight; three where the reuse of a key needs a third.       *)
(***************************************************************************)
EXTENDS Subscriptions, TLC

CONSTANTS ann, bob, old, new, h1, h2, h3

Symmetry == Permutations({ann, bob}) \cup Permutations({old, new}) \cup Permutations({h1, h2, h3})
===============================================================================
