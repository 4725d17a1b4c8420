-------------------------- MODULE MCSubscriptions --------------------------
(***************************************************************************)
(* Instances of Subscriptions for TLC.  A ring of two items and three      *)
(* samples are enough to evict an item before, between and after syncs.    *)
(***************************************************************************)
EXTENDS Subscriptions

=============================================================================
