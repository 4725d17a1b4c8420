---------------------------- MODULE MCMonitoring ----------------------------
(***************************************************************************)
(* Monitoring for TLC.  Subscriptions, nodes and requests are only ever    *)
(* compared, and every property checked under the symmetry is a safety     *)
(* property.                                                               *)
(***************************************************************************)
EXTENDS Monitoring, TLC

Symmetry == Permutations(Subs) \cup Permutations(Nodes) \cup Permutations(Requests)

=============================================================================
